------------------------------ MODULE ToolBatch ------------------------------
(***************************************************************************)
(* The tool calls of a request, batch after batch, and the two observers   *)
(* that follow them: ToolCollector, which gathers artifacts and the events *)
(* the saved activities are built from, and ExecutionGraphTracker.  The    *)
(* calls of a batch run on threads of a pool; each callback holds the      *)
(* collector's lock for its whole body and is one action.                  *)
(***************************************************************************)
EXTENDS Naturals, Sequences, FiniteSets, FiniteSetsExt

CONSTANTS
    NCalls,     \* calls made in the request, numbered in their order
    Names,      \* tool names, "update_plan" among them
    ParallelSafe, \* the names whose class is parallel_safe
    Shapes,     \* the calls the model may make, see AllShapes
    None

(* "made":    an artifact with content;      "unheard": the same, but the   *)
(*            callbacks miss its end;                                       *)
(* "told":    a text;                        "noted": an artifact dict      *)
(*            without content;                                              *)
(* "bare":    a value payload of None only;  "mixed": the same beside a     *)
(*            plot;                                                         *)
(* "empty":   nothing;                       "raised": an exception.        *)
AllOutputs == {"made", "unheard", "told", "noted", "bare", "mixed", "empty", "raised"}
AllShapes  == [name : Names, id : BOOLEAN, out : AllOutputs]

Calls == 1..NCalls

ASSUME BatchAssumption ==
    /\ NCalls \in Nat \ {0} /\ None \notin Calls /\ None \notin {"running", "done"}
    /\ ParallelSafe \subseteq Names
    /\ Shapes \subseteq AllShapes

VARIABLES
    shape,     \* of every call; id: on_tool_start can read a tool_call_id
               \* from its input (input_str is JSON)
    cut,       \* the calls up to this one are the first batch
    stage,        \* of every call: "todo", "entered", "started", "ended", "returned"
    before,    \* artifact_count_before of _wrap_tool_call
    artifacts, \* self.artifacts: the calls they come from
    activities, \* what to_persisted_activities makes of self.events so far:
               \* calls, and whose end closed them
    running,   \* _running_by_name
    node,      \* status of every call's node, None without one
    sunk,      \* persisted_artifact_ids, as positions in artifacts
    saved,     \* what add_artifacts stored, as positions in artifacts
    turn       \* the writes of the turn: "open", "saved", or "failed", which the
               \* client is told

batchVars == <<shape, cut, stage, before, artifacts, activities, running, node, sunk, saved,
               turn>>

BatchInit ==
    /\ shape \in [Calls -> Shapes]
    /\ cut \in Calls
    /\ stage = [c \in Calls |-> "todo"]
    /\ before = [c \in Calls |-> 0]
    /\ artifacts = <<>> /\ activities = <<>>
    /\ running = [n \in Names |-> None]
    /\ node = [c \in Calls |-> None]
    /\ sunk = {} /\ saved = <<>> /\ turn = "open"

-----------------------------------------------------------------------------
(* Which calls may run together.                                           *)

BatchOf(c) == IF c <= cut THEN 1..cut ELSE (cut + 1)..NCalls
Plans(b)   == { c \in b : shape[c].name = "update_plan" }

\* _tool_batch_concurrency, of calls the pool may run at a time
Concurrency(b) ==
    IF \/ Cardinality(Plans(b)) > 1
       \/ /\ ~(Cardinality(b) = 2 /\ Cardinality(Plans(b)) = 1)
          /\ \E c \in b : shape[c].name \notin ParallelSafe
    THEN 1 ELSE Cardinality(b)

Alone(c)  == Concurrency(BatchOf(c)) = 1
Inside(c) == stage[c] \in {"entered", "started", "ended"}

\* The pool takes the calls of a batch in order; the next batch follows when
\* the model has seen all results of this one.
MayEnter(c) ==
    /\ \A d \in 1..(c - 1) : IF d \in BatchOf(c) THEN stage[d] # "todo" ELSE stage[d] = "returned"
    /\ Cardinality({ d \in BatchOf(c) : Inside(d) }) < Concurrency(BatchOf(c))

-----------------------------------------------------------------------------
(* The life of a call.                                                     *)

\* _wrap_tool_call counts the artifacts before it executes the tool.
Enter(c) ==
    /\ stage[c] = "todo" /\ MayEnter(c)
    /\ stage' = [stage EXCEPT ![c] = "entered"]
    /\ before' = [before EXCEPT ![c] = Len(artifacts)]
    /\ UNCHANGED <<shape, cut, artifacts, activities, running, node, sunk, saved, turn>>

\* to_persisted_activities follows the events one by one: a start opens an
\* activity; an end closes that of its id, or the last open one of its name
\* that has no id.
Opened(c) == Append(activities, [call |-> c, by |-> None])

ClosesOneOf(c) ==
    IF shape[c].id
    THEN { i \in DOMAIN activities : activities[i].call = c }
    ELSE { i \in DOMAIN activities : /\ shape[activities[i].call].name = shape[c].name
                                     /\ activities[i].by = None
                                     /\ ~shape[activities[i].call].id }
Closed(c) ==
    LET ours == ClosesOneOf(c)
    IN  IF ours = {} THEN activities ELSE [activities EXCEPT ![Max(ours)].by = c]

OnToolStart(c) ==
    /\ stage[c] = "entered"
    /\ stage' = [stage EXCEPT ![c] = "started"]
    /\ activities' = Opened(c)
    /\ running' = [running EXCEPT ![shape[c].name] = c]
    /\ node' = [node EXCEPT ![c] = "running"]
    /\ UNCHANGED <<shape, cut, before, artifacts, sunk, saved, turn>>

\* _persist_artifacts_since: a failure of the sink is logged.
SinkMarksFirst(start) ==
    /\ sunk' = sunk \union ((start + 1)..Len(artifacts'))
    /\ \/ saved' = saved \o [i \in 1..(Len(artifacts') - start) |-> start + i]
       \/ UNCHANGED saved
Sink(start) ==
    \/ /\ sunk' = sunk \union ((start + 1)..Len(artifacts'))
       /\ saved' = saved \o [i \in 1..(Len(artifacts') - start) |-> start + i]
    \/ UNCHANGED <<sunk, saved>>

\* on_tool_end, or on_tool_error for what raised.  A value payload of None
\* only leaves before the sink, with the plot already collected.
OnToolEnd(c) ==
    /\ stage[c] = "started" /\ shape[c].out # "unheard"
    /\ stage' = [stage EXCEPT ![c] = "ended"]
    /\ activities' = Closed(c)
    /\ artifacts' = IF shape[c].out \in {"made", "mixed"} THEN Append(artifacts, c) ELSE artifacts
    /\ IF shape[c].out = "made" THEN Sink(Len(artifacts)) ELSE UNCHANGED <<sunk, saved>>
    /\ UNCHANGED <<shape, cut, before, running, node, turn>>

MissesTheEnd(c) ==
    /\ stage[c] = "started" /\ shape[c].out = "unheard"
    /\ stage' = [stage EXCEPT ![c] = "ended"]
    /\ UNCHANGED <<shape, cut, before, artifacts, activities, running, node, sunk, saved, turn>>

\* tool_end of the tracker: the node last started under the name.
NodesEnd(name) ==
    /\ node' = [c \in Calls |-> IF shape[c].name = name THEN "done" ELSE node[c]]
    /\ UNCHANGED running
NodeEnds(name) ==
    IF running[name] = None THEN UNCHANGED <<running, node>>
    ELSE /\ node' = [node EXCEPT ![running[name]] = "done"]
         /\ running' = [running EXCEPT ![name] = None]

HasArtifactDict(c) == shape[c].out \in {"made", "unheard", "noted", "bare", "mixed"}

\* absorb_tool_message
Absorb(c) ==
    /\ artifacts' = IF shape[c].out \in {"made", "unheard", "mixed"}
                    THEN Append(artifacts, c) ELSE artifacts
    /\ Sink(Len(artifacts))
    /\ NodeEnds(shape[c].name)

ReturnAnyway(c) ==
    /\ stage[c] = "ended"
    /\ stage' = [stage EXCEPT ![c] = "returned"]
    /\ IF HasArtifactDict(c) THEN Absorb(c)
       ELSE UNCHANGED <<artifacts, running, node, sunk, saved>>
    /\ UNCHANGED <<shape, cut, before, activities, turn>>

\* Back in _wrap_tool_call: ingest_tool_invoke_result if the collector holds
\* no more artifacts than before; an exception has returned already.
ReturnFrom(c) ==
    /\ stage[c] = "ended"
    /\ stage' = [stage EXCEPT ![c] = "returned"]
    /\ IF HasArtifactDict(c) /\ Len(artifacts) = before[c] THEN Absorb(c)
       ELSE UNCHANGED <<artifacts, running, node, sunk, saved>>
    /\ UNCHANGED <<shape, cut, before, activities, turn>>

AllReturned == \A c \in Calls : stage[c] = "returned"
Saved       == { saved[i] : i \in DOMAIN saved }

\* The increasing numbering of a set of positions.
InOrder(S) == { f \in [1..Cardinality(S) -> S] : \A i, j \in DOMAIN f : i < j => f[i] < f[j] }

\* The turn is written when the loop has returned: its messages, then what the
\* sink has not stored (_persist_uncollected_artifacts), then the rest.
SaveRest ==
    /\ AllReturned /\ turn = "open"
    /\ \E order \in InOrder(DOMAIN artifacts \ sunk) : saved' = saved \o order
    /\ turn' = "saved"
    /\ UNCHANGED <<shape, cut, stage, before, artifacts, activities, running, node, sunk>>

\* One of these writes raises, before add_artifacts, in it or behind it: a
\* stream says persistence_failed in its final event, a query is refused.
SaveFails ==
    /\ AllReturned /\ turn = "open"
    /\ \/ UNCHANGED saved
       \/ \E order \in InOrder(DOMAIN artifacts \ sunk) : saved' = saved \o order
    /\ turn' = "failed"
    /\ UNCHANGED <<shape, cut, stage, before, artifacts, activities, running, node, sunk>>

BatchNext ==
    \/ \E c \in Calls : \/ Enter(c) \/ OnToolStart(c) \/ OnToolEnd(c)
                        \/ MissesTheEnd(c) \/ ReturnFrom(c)
    \/ SaveRest \/ SaveFails

BatchSpec == BatchInit /\ [][BatchNext]_batchVars

-----------------------------------------------------------------------------
(* Properties                                                              *)

BatchTypeOK ==
    /\ shape \in [Calls -> Shapes] /\ cut \in Calls
    /\ stage \in [Calls -> {"todo", "entered", "started", "ended", "returned"}]
    /\ before \in [Calls -> Nat]
    /\ artifacts \in Seq(Calls)
    /\ activities \in Seq([call : Calls, by : Calls \union {None}])
    /\ running \in [Names -> Calls \union {None}]
    /\ node \in [Calls -> {None, "running", "done"}]
    /\ sunk \subseteq DOMAIN artifacts
    /\ saved \in Seq(DOMAIN artifacts)
    /\ turn \in {"open", "saved", "failed"}

Collected(c) == Cardinality({ i \in DOMAIN artifacts : artifacts[i] = c })

\* An artifact is collected once, by the callback or by the safety net behind
\* it, never by both, and is never lost unless the callback of a call that
\* runs beside others is missed (the count then moves for another reason).
CollectedOnce ==
    \A c \in Calls :
        /\ Collected(c) <= 1
        /\ /\ stage[c] = "returned"
           /\ shape[c].out \in {"made", "mixed"} \/ (shape[c].out = "unheard" /\ Alone(c))
           => Collected(c) = 1

\* An artifact is stored at most once, by the sink or at the end of the
\* request, whichever threads were between their count and their callback.
SavedOnce == Cardinality(Saved) = Len(saved)

\* Both: what a call made is in the answer once and in the session once.
ArtifactsOnce == CollectedOnce /\ SavedOnce

\* Whatever branch skipped the sink and whichever call of it failed, a turn
\* that is reported as saved has stored what its tools made: the artifacts the
\* answer shows are there when the session is opened again, or the client is
\* told that they may not be.
StoredOrTold == turn = "saved" => Saved = DOMAIN artifacts

\* A saved activity tells the result of its own call when the call has an id,
\* or one of the two ran alone and its end was heard; otherwise the result of
\* a call of the same tool without an id.  No result is told twice or dropped.
Heard(c) == stage[c] \in {"ended", "returned"} /\ shape[c].out # "unheard"
ActivitiesTellTheirCalls ==
    LET closed == { i \in DOMAIN activities : activities[i].by # None }
    IN /\ \A i \in closed :
             LET c == activities[i].call  d == activities[i].by IN
             /\ Heard(d)
             /\ shape[c].name = shape[d].name /\ shape[c].id = shape[d].id
             /\ shape[c].id \/ Alone(d) \/ (Alone(c) /\ shape[c].out # "unheard") => c = d
       /\ \A i, j \in closed : i # j => activities[i].by # activities[j].by
       /\ \A d \in Calls : Heard(d) => \E i \in closed : activities[i].by = d

\* The graph never shows more finished nodes of a tool than calls of it that
\* have returned, and a node of a call that ran alone is finished only when
\* that call is: which of several overlapping calls ended may be shown wrong.
GraphIsHonest ==
    /\ \A n \in Names :
        Cardinality({ c \in Calls : shape[c].name = n /\ node[c] = "done" })
          <= Cardinality({ c \in Calls : shape[c].name = n /\ stage[c] = "returned" })
    /\ \A c \in Calls : node[c] = "done" /\ Alone(c) => stage[c] = "returned"

\* Both: what the user is shown of the batch, activities and graph, is true as
\* far as calls can be told apart.
ProgressIsHonest == ActivitiesTellTheirCalls /\ GraphIsHonest

=============================================================================
