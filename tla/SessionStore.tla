---------------------------- MODULE SessionStore ----------------------------
(***************************************************************************)
(* PostgresSessionStore under concurrent calls on one session.  A method   *)
(* takes the lock of the session in its own process, loads the state with  *)
(* four statements of a READ COMMITTED transaction, changes its copy and   *)
(* writes all of it back in one transaction.  Large artifacts are uploaded *)
(* as blobs before; blobs nothing refers to any more are deleted after,    *)
(* outside the lock.                                                       *)
(***************************************************************************)
EXTENDS SessionData, FiniteSets

CONSTANTS
    Threads,       \* callers, each makes one call
    Processes,     \* Uvicorn workers
    ProcessOf,     \* [Threads -> Processes]
    ArtifactIds,
    Calls,         \* the calls the threads may make, a subset of Operations
    NoThread,
    StoreFaults    \* subset of StoreFaultKinds

StoreFaultKinds == {"save", "free", "crash"}

(***************************************************************************)
(* The calls.  "large" artifacts are those put_many uploads; a "look" is   *)
(* the report of a first look, stored inline under a fresh id; "from"      *)
(* names the thread whose message a cut starts at.                         *)
(***************************************************************************)
Operations ==
           [kind : {"touch", "settings", "memory", "look", "drop"}]
    \union [kind : {"message"}, arts : SUBSET ArtifactIds]
    \union [kind : {"artifact"}, id : ArtifactIds, large : BOOLEAN]
    \union [kind : {"cut"}, from : Threads]

ASSUME ThreadsAssumption ==
    /\ ProcessOf \in [Threads -> Processes]
    /\ NoThread \notin Threads
    /\ Inline \notin Threads
    /\ Calls \subseteq Operations
    /\ StoreFaults \subseteq StoreFaultKinds

VARIABLES
    row,     \* the committed state of the session
    exists,  \* its chat_sessions row exists
    blobs,   \* committed blobs of the session; a blob is named by its uploader
    lock,    \* per process, the thread inside _get_session_lock
    op,      \* the call of each thread
    pc,
    copy,    \* the state each thread has loaded
    trash    \* blobs each thread will delete once out of the lock, or could not

vars == <<row, exists, blobs, lock, op, pc, copy, trash>>

Uploads(call) == call.kind = "artifact" /\ call.large

Record(t, call) ==
    IF call.kind = "look"
    THEN [id |-> t, blob |-> Inline, look |-> TRUE]
    ELSE [id |-> call.id, blob |-> IF call.large THEN t ELSE Inline, look |-> FALSE]

Stores(call) == call.kind \in {"artifact", "look"}

Position(s, from) == { i \in DOMAIN s.hist : s.hist[i].id = from }

CutPoint(call, s) == CHOOSE i \in Position(s, call.from) : TRUE

\* A cut at a message that is not there returns before it saves.
Misses(call, s) == call.kind = "cut" /\ Position(s, call.from) = {}

\* What the call of thread t makes of a loaded state s.
Result(t, call, s) ==
    CASE call.kind = "message"  ->
            AppendMessage(s, [id |-> t, role |-> "ai", arts |-> call.arts])
      [] Stores(call)           -> PutArtifact(s, Record(t, call))
      [] call.kind = "memory"   ->
            SetMemory(s, [turns |-> 1, compacted |-> 1, index |-> {}])
      [] call.kind = "settings" -> SetSettings(s, t)
      [] call.kind = "cut" /\ ~Misses(call, s) -> CutFrom(s, CutPoint(call, s))
      [] OTHER -> s

\* The blobs it leaves without a record.
Freed(t, call, s) ==
    CASE Stores(call)      -> ReplacedBlobs(s, Record(t, call))
      [] call.kind = "cut" -> BlobsFreedByCut(s, CutPoint(call, s))
      [] OTHER             -> {}

FirstStep(call) ==
    CASE call.kind = "drop" -> "drop"
      [] Uploads(call)        -> "upload"
      [] OTHER                -> "wait"

Init ==
    /\ row = EmptySession
    /\ exists = TRUE
    /\ blobs = {}
    /\ lock = [p \in Processes |-> NoThread]
    /\ op \in [Threads -> Calls]
    /\ pc = [t \in Threads |-> FirstStep(op[t])]
    /\ copy = [t \in Threads |-> EmptySession]
    /\ trash = [t \in Threads |-> {}]

Goto(t, label) == pc' = [pc EXCEPT ![t] = label]

Unlock(t) == lock' = [lock EXCEPT ![ProcessOf[t]] = NoThread]

\* add_artifacts, put_many: a foreign key refuses blobs of a deleted session.
Upload(t) ==
    /\ pc[t] = "upload"
    /\ IF exists
       THEN blobs' = blobs \union {t} /\ Goto(t, "wait")
       ELSE Goto(t, "failed") /\ UNCHANGED blobs
    /\ UNCHANGED <<row, exists, lock, op, copy, trash>>

\* The lock is taken and _load_state reads session_state; the call is over
\* at once when there is no row.
OpenRowUnlocked(t) ==
    /\ pc[t] = "wait"
    /\ IF exists
       THEN /\ lock' = [lock EXCEPT ![ProcessOf[t]] = t]
            /\ copy' = [copy EXCEPT ![t].settings = row.settings]
            /\ Goto(t, "messages")
       ELSE Goto(t, "done") /\ UNCHANGED <<lock, copy>>
    /\ UNCHANGED <<row, exists, blobs, op, trash>>

OpenRow(t) ==
    /\ pc[t] = "wait"
    /\ lock[ProcessOf[t]] = NoThread
    /\ IF exists
       THEN /\ lock' = [lock EXCEPT ![ProcessOf[t]] = t]
            /\ copy' = [copy EXCEPT ![t].settings = row.settings]
            /\ Goto(t, "messages")
       ELSE Goto(t, "done") /\ UNCHANGED <<lock, copy>>
    /\ UNCHANGED <<row, exists, blobs, op, trash>>

\* The other statements of _load_state, each with a snapshot of its own.
Fetch(t, field, label, next) ==
    /\ pc[t] = label
    /\ copy' = [copy EXCEPT ![t][field] = IF exists THEN row[field] ELSE EmptySession[field]]
    /\ Goto(t, next)
    /\ UNCHANGED <<row, exists, blobs, lock, op, trash>>

FetchMessages(t)  == Fetch(t, "hist", "messages", "artifacts")
FetchArtifacts(t) == Fetch(t, "arts", "artifacts", "memory")
FetchMemory(t)    == Fetch(t, "memory", "memory", "save")

\* _save_state commits and the lock is left.
Save(t) ==
    /\ pc[t] = "save" /\ exists /\ ~Misses(op[t], copy[t])
    /\ row' = Result(t, op[t], copy[t])
    /\ trash' = [trash EXCEPT ![t] = Freed(t, op[t], copy[t])]
    /\ Goto(t, IF Freed(t, op[t], copy[t]) = {} THEN "done" ELSE "free")
    /\ Unlock(t)
    /\ UNCHANGED <<exists, blobs, op, copy>>

CutNothing(t) ==
    /\ pc[t] = "save" /\ Misses(op[t], copy[t])
    /\ Goto(t, "done")
    /\ Unlock(t)
    /\ UNCHANGED <<row, exists, blobs, op, copy, trash>>

\* _save_state raises, always so once the session is deleted; add_artifacts
\* then takes back the blobs it uploaded.
SaveFailsKeepsBlobs(t) ==
    /\ pc[t] = "save" /\ ~Misses(op[t], copy[t])
    /\ ~exists \/ "save" \in StoreFaults
    /\ Goto(t, "failed")
    /\ Unlock(t)
    /\ UNCHANGED <<row, exists, blobs, op, copy, trash>>
SaveFailsFreesAnyway(t) ==
    /\ pc[t] = "save" /\ ~Misses(op[t], copy[t])
    /\ ~exists \/ "save" \in StoreFaults
    /\ trash' = [trash EXCEPT ![t] = Freed(t, op[t], copy[t])]
    /\ Goto(t, IF Freed(t, op[t], copy[t]) = {} THEN "failed" ELSE "free")
    /\ Unlock(t)
    /\ UNCHANGED <<row, exists, blobs, op, copy>>
SaveFails(t) ==
    /\ pc[t] = "save" /\ ~Misses(op[t], copy[t])
    /\ ~exists \/ "save" \in StoreFaults
    /\ Goto(t, IF Uploads(op[t]) THEN "undo" ELSE "failed")
    /\ Unlock(t)
    /\ UNCHANGED <<row, exists, blobs, op, copy, trash>>

\* _delete_artifact_blobs of what the call made obsolete.
Free(t) ==
    /\ pc[t] = "free"
    /\ blobs' = blobs \ trash[t]
    /\ trash' = [trash EXCEPT ![t] = {}]
    /\ Goto(t, "done")
    /\ UNCHANGED <<row, exists, lock, op, copy>>

\* It raises: the except clause of add_artifacts cannot tell this failure
\* from one of the save.
FreeFails(t) ==
    /\ pc[t] = "free" /\ "free" \in StoreFaults
    /\ Goto(t, IF Uploads(op[t]) THEN "undo" ELSE "failed")
    /\ UNCHANGED <<row, exists, blobs, lock, op, copy, trash>>

Undo(t) ==
    /\ pc[t] = "undo"
    /\ \/ blobs' = blobs \ {t} /\ UNCHANGED trash
       \/ /\ "free" \in StoreFaults
          /\ trash' = [trash EXCEPT ![t] = @ \union {t}]
          /\ UNCHANGED blobs
    /\ Goto(t, "failed")
    /\ UNCHANGED <<row, exists, lock, op, copy>>

\* delete_session: the rows and blobs of the session go with its chat_sessions
\* row, without the lock.
Drop(t) ==
    /\ pc[t] = "drop"
    /\ exists' = FALSE
    /\ blobs' = {}
    /\ Goto(t, "done")
    /\ UNCHANGED <<row, lock, op, copy, trash>>

Over == {"done", "failed", "crashed"}

\* A worker process dies with every call it is serving.
Crash(p) ==
    LET victims == { t \in Threads : ProcessOf[t] = p /\ pc[t] \notin Over }
    IN  /\ "crash" \in StoreFaults
        /\ victims # {}
        /\ pc' = [t \in Threads |-> IF t \in victims THEN "crashed" ELSE pc[t]]
        /\ lock' = [lock EXCEPT ![p] = NoThread]
        /\ UNCHANGED <<row, exists, blobs, op, copy, trash>>

Step(t) ==
    \/ Upload(t) \/ OpenRow(t)
    \/ FetchMessages(t) \/ FetchArtifacts(t) \/ FetchMemory(t)
    \/ Save(t) \/ CutNothing(t) \/ SaveFails(t)
    \/ Free(t) \/ FreeFails(t) \/ Undo(t) \/ Drop(t)

Next == (\E t \in Threads : Step(t)) \/ (\E p \in Processes : Crash(p))

Spec == Init /\ [][Next]_vars

\* Two workers share no lock: the calls of theirs that are between the load
\* and the save of the state at the same time.
Inside  == {"messages", "artifacts", "memory", "save"}
Overlap == \E t, u \in Threads : /\ ProcessOf[t] # ProcessOf[u]
                                 /\ pc[t] \in Inside /\ pc[u] \in Inside

\* The behaviours in which that does not happen.
ApartSpec == Init /\ [][Next /\ ~Overlap']_vars

-----------------------------------------------------------------------------
Sessions == [
    hist     : Seq([id : Threads, role : {"ai"}, arts : SUBSET ArtifactIds]),
    arts     : SUBSET [id : ArtifactIds \union Threads, blob : Threads \union {Inline},
                       look : BOOLEAN],
    memory   : [turns : Nat, compacted : Nat, index : SUBSET ArtifactIds],
    settings : {"new"} \union Threads
]

Labels == {"upload", "wait", "messages", "artifacts", "memory", "save",
           "free", "undo", "drop"} \union Over

\* Every variable of the store has its type, and a state never holds two
\* records of one artifact (add_serialized_artifacts replaces by id).
TypeOK ==
    /\ row \in Sessions
    /\ exists \in BOOLEAN
    /\ blobs \subseteq Threads
    /\ lock \in [Processes -> Threads \union {NoThread}]
    /\ op \in [Threads -> Operations]
    /\ pc \in [Threads -> Labels]
    /\ copy \in [Threads -> Sessions]
    /\ trash \in [Threads -> SUBSET Threads]
    /\ \A r1, r2 \in row.arts : r1.id = r2.id => r1 = r2

\* Uploads whose blob is taken back although its record was saved, because the
\* deletion of the blobs they displaced raised.
TakenBack == { t \in Threads : pc[t] \in {"undo", "failed"} /\ trash[t] \ {t} # {} }

\* A record never points to a blob that is gone, whatever failed or crashed
\* on the way: blobs are written before the state that names them and deleted
\* after the state that forgets them.
NoDanglingBlob == exists => BlobsOf(row.arts) \ blobs \subseteq TakenBack

\* Once every call has returned or raised no blob is left that no record points
\* to, but those whose deletion raised: a failed save takes its upload back, a
\* replacement and a cut free what they displace.  Only a process that dies
\* leaves a blob nothing collects.
NoOrphanBlob ==
    (exists /\ \A t \in Threads : pc[t] \in {"done", "failed"}) =>
        blobs \subseteq BlobsOf(row.arts) \union UNION { trash[t] : t \in Threads }

\* Both.
BlobsMatchRecords == NoDanglingBlob /\ NoOrphanBlob

\* Deleting messages never takes away an artifact that a message which stays
\* still shows (retained_ids in delete_messages_from_id); nor does any other
\* call but a first look, which replaces the reports of the one before.
ShownArtifactsStay ==
    [][ \A r \in row.arts :
            r.id \in ShownIn(row'.hist) /\ ~r.look => \E n \in row'.arts : n.id = r.id ]_row

\* The callers see an atomic object: each call takes effect in one step on
\* the state of that moment, or not at all, unless calls of two workers overlap.
Atomic == INSTANCE AtomicSession WITH
    Callers    <- Threads,
    Operations <- Calls,
    Apply      <- Result,
    session    <- row,
    over       <- { t \in Threads : pc[t] \in {"free", "undo"} \union Over }
ImplementsAtomicSession == Atomic!Spec

=============================================================================
