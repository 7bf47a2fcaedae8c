---------------------------- MODULE SessionData -----------------------------
(***************************************************************************)
(* The state of one chat session as the session store keeps it, and what   *)
(* each store method computes from a loaded state before it saves it.      *)
(* Contents are abstract: a message is its id, role and the artifacts it   *)
(* shows; an artifact record is its id, the blob its data went to and      *)
(* whether the first look at a plan/fact source made it.                   *)
(***************************************************************************)
EXTENDS Naturals, Sequences

Inline == "inline"   \* the blob of an artifact small enough to stay in the state

EmptySession == [
    hist     |-> <<>>,   \* chat_history
    arts     |-> {},     \* artifacts, at most one record per id
    memory   |-> [turns |-> 0, compacted |-> 0, index |-> {}],
    settings |-> "new"   \* every scalar field: source, skills, dataset, usage
]

\* _message_artifact_ids
ShownIn(messages) == UNION { messages[i].arts : i \in DOMAIN messages }

\* Blobs the artifact records refer to.
BlobsOf(records) == { r.blob : r \in records } \ {Inline}

\* add_chat_message
AppendMessage(s, message) == [s EXCEPT !.hist = Append(@, message)]

\* add_serialized_artifacts: a record with a known id replaces the old one, and
\* one of a first look those of the first look before it (replace_producer_tool);
\* their blobs are obsolete unless the new record has the same.
Superseded(s, record) ==
    { r \in s.arts : r.id = record.id \/ (record.look /\ r.look) }
PutArtifact(s, record) ==
    [s EXCEPT !.arts = (@ \ Superseded(s, record)) \union {record}]
ReplacedBlobs(s, record) == BlobsOf(Superseded(s, record)) \ {record.blob}

\* set_structured_memory: the memory fields are overwritten as a whole.
SetMemory(s, memory) == [s EXCEPT !.memory = memory]

\* The setters of scalar fields: set_source, set_selected_skill_ids,
\* set_context_usage, set_csv_runtime_state, set_dataset_name.
SetSettings(s, value) == [s EXCEPT !.settings = value]

\* delete_messages_from_id: the message at position cut goes with everything
\* after it, and with it the artifacts shown nowhere else; a summary that
\* covers a removed message is dropped.
DiscardedShown(s, cut)   == ShownIn(SubSeq(s.hist, cut, Len(s.hist)))
DiscardedByCut(s, cut) ==
    ShownIn(SubSeq(s.hist, cut, Len(s.hist))) \ ShownIn(SubSeq(s.hist, 1, cut - 1))
SummaryIsStale(s, cut) == cut - 1 < s.memory.compacted
CutFrom(s, cut) ==
    LET gone == DiscardedByCut(s, cut)
    IN  [s EXCEPT !.hist = SubSeq(@, 1, cut - 1),
                  !.arts = { r \in @ : r.id \notin gone },
                  !.memory.index = @ \ gone,
                  !.memory.compacted = IF SummaryIsStale(s, cut) THEN 0 ELSE @]
BlobsFreedByCut(s, cut) == BlobsOf({ r \in s.arts : r.id \in DiscardedByCut(s, cut) })

=============================================================================
