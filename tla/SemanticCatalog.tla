--------------------------- MODULE SemanticCatalog ---------------------------
(***************************************************************************)
(* The semantic catalog of one database connection.  A background task      *)
(* profiles the connection and publishes a catalog, another lets a model    *)
(* extend it; users edit metrics, clear the catalog and change the          *)
(* connection.  What is published comes from two stored documents, the      *)
(* generated catalog and the overlay of edits, and is indexed for search.   *)
(* Rows of semantic_refresh_jobs say whose result counts: a task is never   *)
(* stopped, it finds out that it was cancelled when it touches its row.     *)
(* Nothing keeps an edit, which takes no row, apart from a generation or a  *)
(* clearing: the history crossed tells when they overlap.  Edits of one     *)
(* connection are taken one at a time.                                      *)
(***************************************************************************)
EXTENDS Naturals, Sequences, FiniteSets

CONSTANTS
    Metrics,     \* metrics that are created, deleted or generated
    None,
    MaxJobs,     \* bound on claimed operations
    MaxEdits,    \* bound on edits and changes of the connection
    MaxClears,
    MaxCrashes

ASSUME CatalogAssumption ==
    /\ IsFiniteSet(Metrics) /\ None \notin Metrics
    /\ {MaxJobs, MaxEdits, MaxClears, MaxCrashes} \subseteq Nat

VARIABLES
    pub,       \* the published catalog
    gen,       \* the generated document
    overlay,   \* the overlay document
    jobs,      \* semantic_refresh_jobs of the source, oldest first
    task,      \* the background task of each job
    claim,     \* the request that claims an operation
    edit,      \* the request that edits metrics or the connection
    index,     \* the published_version on the point of each metric, if any
    clearing,  \* whether a cleared catalog has yet to leave the index
    edits, clears, crashes,
    crossed    \* history: an edit and a generation, or a clearing, have crossed

docs   == <<pub, gen, overlay>>
calls  == <<claim, edit, clearing>>
bounds == <<edits, clears, crashes, crossed>>
vars   == <<docs, jobs, task, calls, index, bounds>>

-----------------------------------------------------------------------------
(* Documents                                                                *)

NoOverlay == [version |-> 0, metrics |-> {}]

\* A profile is named by the job that made it; one with errors and without
\* tables is failed.
NoDoc          == [profile |-> 0, failed |-> FALSE]
HasTables(doc) == doc.profile # 0 /\ ~doc.failed

Placeholder == [status |-> "not_built", doc |-> NoDoc, metrics |-> {}, version |-> 0]

\* _publish and _apply_validation_status; "ready" stands for "degraded" too.
\* Metrics of unknown tables are left out.
Published(doc, over) ==
    [status  |-> IF doc.failed THEN "failed" ELSE "ready",
     doc     |-> doc,
     metrics |-> IF HasTables(doc) THEN over.metrics ELSE {},
     version |-> over.version]

\* _load_generated, or else the catalog that was loaded.
Generated(catalog) ==
    IF gen # NoDoc THEN gen ELSE [catalog.doc EXCEPT !.failed = catalog.status = "failed"]

Unbuilt(catalog) == catalog.status \in {"not_built", "failed"}
Available        == pub # None /\ ~Unbuilt(pub)

\* upsert_catalog: the point of an entity carries the version published last.
\* It may raise, which degrades the catalog.
Reindex(catalog) ==
    \/ index' = [m \in Metrics |-> IF m \in catalog.metrics THEN catalog.version ELSE index[m]]
    \/ UNCHANGED index

\* delete_catalog, of one version or of all.
DropVersion(v) == index' = [m \in Metrics |-> IF index[m] = v THEN None ELSE index[m]]
DropIndex      == index' = [m \in Metrics |-> None]

-----------------------------------------------------------------------------
(* Operations                                                               *)

IsRunning(j) == jobs[j].status = "running"
Running      == { j \in DOMAIN jobs : IsRunning(j) }

FinishAnyway(js, status) ==
    jobs' = [j \in DOMAIN jobs |-> IF j \in js THEN [jobs[j] EXCEPT !.status = status] ELSE jobs[j]]

\* UPDATE ... WHERE status = 'running'
Finish(js, status) ==
    jobs' = [j \in DOMAIN jobs |->
               IF j \in js /\ IsRunning(j) THEN [jobs[j] EXCEPT !.status = status] ELSE jobs[j]]

NoCall == [at |-> "idle", kind |-> "none", force |-> FALSE]
NoEdit == [at |-> "idle", catalog |-> None, over |-> NoOverlay]
Queued == [at |-> "queued", over |-> NoOverlay, out |-> None, marks |-> 0]

Over    == {"done", "dead"}
Drafted == {"drafted", "indexing", "indexed", "publishing"}

\* A generation has read the overlay and is still to write it.
Generates(j) == IsRunning(j) /\ jobs[j].kind = "generate"
Drafting     == \E j \in DOMAIN jobs : Generates(j) /\ task[j].at \in Drafted

\* An edit that is under way while a generation reads the overlay, or the
\* catalog is cleared, crosses it, as one that reads while a generation drafts.
Cross(overlap) == crossed' = (crossed \/ overlap)

Init ==
    /\ pub = None /\ gen = NoDoc /\ overlay = NoOverlay
    /\ jobs = <<>> /\ task = <<>>
    /\ claim = NoCall /\ edit = NoEdit /\ clearing = FALSE
    /\ index = [m \in Metrics |-> None]
    /\ edits = 0 /\ clears = 0 /\ crashes = 0 /\ crossed = FALSE

\* claim_connection_build: a bind builds what is missing, the build route always
\* does; the row must exist.
ClaimBuild(force) ==
    /\ claim = NoCall /\ Len(jobs) < MaxJobs
    /\ Available => force
    /\ claim' = [at |-> "claiming", kind |-> "build", force |-> force]
    /\ pub' = IF pub = None THEN Placeholder ELSE pub
    /\ UNCHANGED <<gen, overlay, jobs, task, edit, clearing, index, bounds>>

\* generate_semantic_catalog in the background.
ClaimGeneration ==
    /\ claim = NoCall /\ Len(jobs) < MaxJobs
    /\ Available
    /\ claim' = [at |-> "claiming", kind |-> "generate", force |-> FALSE]
    /\ UNCHANGED <<docs, jobs, task, edit, clearing, index, bounds>>

\* claim_operation, one transaction under an advisory lock.
NewJob(kind) == [kind |-> kind, status |-> "running"]
Supersede ==
    jobs' = Append([j \in DOMAIN jobs |-> IF IsRunning(j) THEN [jobs[j] EXCEPT !.status = "cancelled"]
                                                          ELSE jobs[j]],
                   NewJob(claim.kind))

ClaimOperation ==
    /\ claim.at = "claiming"
    /\ pub' = IF claim.kind = "generate" /\ pub = None THEN Placeholder ELSE pub
    /\ IF Running # {} /\ ~claim.force
         THEN UNCHANGED <<jobs, task>>
         ELSE Supersede /\ task' = Append(task, Queued)
    /\ claim' = NoCall
    /\ UNCHANGED <<gen, overlay, edit, clearing, index, bounds>>

-----------------------------------------------------------------------------
(* Background tasks                                                         *)

Goto(j, where) == task' = [task EXCEPT ![j].at = where]

\* _advance_operation raises when the row is not running any more.
Advance(j, from, to) ==
    /\ task[j].at = from
    /\ Goto(j, IF IsRunning(j) THEN to ELSE "failing")
    /\ UNCHANGED <<docs, jobs, calls, index, bounds>>

Begin(j) == Advance(j, "queued", IF jobs[j].kind = "build" THEN "profiling" ELSE "generating")

\* The profile is taken, then the overlay is loaded.
Profile(j) ==
    /\ task[j].at = "profiling"
    /\ \E failed \in BOOLEAN :
         task' = [task EXCEPT ![j].at   = "drafted",
                              ![j].over = overlay,
                              ![j].out  = Published([profile |-> j, failed |-> failed], overlay)]
    /\ UNCHANGED <<docs, jobs, calls, index, bounds>>

\* The connection, the catalog or the model fails.
Raise(j) ==
    /\ task[j].at \in {"profiling", "generating"}
    /\ Goto(j, "failing")
    /\ UNCHANGED <<docs, jobs, calls, index, bounds>>

\* The model has answered: apply_generated_overlay.
EndGenerating(j) == Advance(j, "generating", "merging")

\* _catalog_and_overlay, which builds a missing catalog without an operation;
\* valid metrics are merged into the overlay.
Merge(j) ==
    /\ task[j].at = "merging"
    /\ LET rebuilt == [profile |-> j, failed |-> FALSE]
           catalog == IF pub = None THEN Published(rebuilt, overlay) ELSE pub
       IN  /\ IF pub = None
                THEN pub' = catalog /\ gen' = rebuilt /\ Reindex(catalog)
                ELSE UNCHANGED <<pub, gen, index>>
           /\ \E new \in SUBSET Metrics :
                /\ HasTables(catalog.doc) \/ new = {}
                /\ task' = [task EXCEPT
                     ![j].at   = "drafted",
                     ![j].over = [version |-> overlay.version + 1,
                                  metrics |-> overlay.metrics \union new],
                     ![j].out  = catalog]
    /\ Cross(Generates(j) /\ edit # NoEdit)
    /\ UNCHANGED <<overlay, jobs, calls, edits, clears, crashes>>

\* "indexing"; a generation loads the generated document now.
Draft(j) ==
    /\ task[j].at = "drafted"
    /\ IF IsRunning(j)
         THEN task' = [task EXCEPT
                ![j].at  = "indexing",
                ![j].out = IF jobs[j].kind = "build" THEN @
                                                     ELSE Published(Generated(@), task[j].over)]
         ELSE Goto(j, "failing")
    /\ UNCHANGED <<docs, jobs, calls, index, bounds>>

IndexDraft(j) ==
    /\ task[j].at = "indexing"
    /\ Reindex(task[j].out)
    /\ Goto(j, "indexed")
    /\ UNCHANGED <<docs, jobs, calls, bounds>>

AfterIndexKeeps(j) ==
    /\ task[j].at = "indexed"
    /\ Goto(j, IF IsRunning(j) THEN "publishing" ELSE "failing")
    /\ UNCHANGED <<docs, jobs, calls, index, bounds>>

\* _advance_after_reindex takes the version out of the index again.
AfterIndex(j) ==
    /\ task[j].at = "indexed"
    /\ IF IsRunning(j)
         THEN Goto(j, "publishing") /\ UNCHANGED index
         ELSE Goto(j, "failing") /\ DropVersion(task[j].out.version)
    /\ UNCHANGED <<docs, jobs, calls, bounds>>

\* save_build_result_if_current, save_generation_result_if_current.
CommitBuild(j) ==
    /\ pub' = task[j].out /\ gen' = task[j].out.doc
    /\ UNCHANGED overlay
CommitGeneration(j) ==
    /\ pub' = task[j].out /\ overlay' = task[j].over
    /\ UNCHANGED gen

Commit(j) ==
    /\ task[j].at = "publishing"
    /\ \/ /\ IsRunning(j)
          /\ IF jobs[j].kind = "build" THEN CommitBuild(j) ELSE CommitGeneration(j)
          /\ Goto(j, "committed")
          /\ UNCHANGED index
       \/ /\ ~IsRunning(j)
          /\ IF jobs[j].kind = "build" THEN DropIndex ELSE DropVersion(task[j].out.version)
          /\ Goto(j, "failing")
          /\ UNCHANGED docs
    /\ UNCHANGED <<jobs, calls, bounds>>

Complete(j) ==
    /\ task[j].at = "committed"
    /\ IF IsRunning(j) THEN Finish({j}, "completed") /\ Goto(j, "done")
                       ELSE Goto(j, "failing") /\ UNCHANGED jobs
    /\ UNCHANGED <<docs, calls, index, bounds>>

\* Who calls fail_operation: the service, and the background function once more.
Handlers      == 2

\* For a build mark_build_failed goes on and loads the catalog.
Fail(j) ==
    LET marks == IF jobs[j].kind = "build" THEN task[j].marks + 1 ELSE Handlers IN
    /\ task[j].at = "failing"
    /\ Finish({j}, "failed")
    /\ task' = IF jobs[j].kind = "build" /\ pub # None /\ Unbuilt(pub)
                 THEN [task EXCEPT ![j].at = "marking", ![j].marks = marks, ![j].out = pub]
                 ELSE [task EXCEPT ![j].at = IF marks = Handlers THEN "done" ELSE @, ![j].marks = marks]
    /\ UNCHANGED <<docs, calls, index, bounds>>

\* The catalog as it was loaded is saved with its new status.
MarkFailed(j) ==
    /\ task[j].at = "marking"
    /\ pub' = [task[j].out EXCEPT !.status = "failed"]
    /\ Goto(j, IF task[j].marks = Handlers THEN "done" ELSE "failing")
    /\ UNCHANGED <<gen, overlay, jobs, calls, index, bounds>>

-----------------------------------------------------------------------------
(* Edits                                                                    *)

BeginEdit ==
    /\ edit = NoEdit /\ pub # None /\ edits < MaxEdits
    /\ edits' = edits + 1
    /\ Cross(Drafting)
    /\ UNCHANGED <<clears, crashes>>

\* _connection_catalog_and_overlay
LoadOverlay(metrics) ==
    /\ BeginEdit
    /\ edit' = [at |-> "loaded", catalog |-> pub,
                over |-> [version |-> overlay.version + 1, metrics |-> metrics]]
    /\ UNCHANGED <<docs, jobs, task, claim, clearing, index>>

\* A new metric is validated against the tables.
EditMetric(m, added) ==
    /\ LoadOverlay(IF added THEN overlay.metrics \union {m} ELSE overlay.metrics \ {m})
    /\ added => HasTables(pub.doc)

\* generate_semantic_catalog while the user waits: without an operation,
\* apply_generated_overlay goes on as an edit does.
GenerateAtOnce(new) ==
    /\ LoadOverlay(overlay.metrics \union new)
    /\ HasTables(pub.doc) \/ new = {}

SaveOverlaySameVersion ==
    /\ edit.at = "loaded"
    /\ overlay' = [edit.over EXCEPT !.version = overlay.version]
    /\ edit' = [edit EXCEPT !.at = "saved", !.over = overlay']
    /\ UNCHANGED <<pub, gen, jobs, task, claim, clearing, index, bounds>>

SaveOverlay ==
    /\ edit.at = "loaded"
    /\ overlay' = edit.over
    /\ edit' = [edit EXCEPT !.at = "saved"]
    /\ UNCHANGED <<pub, gen, jobs, task, claim, clearing, index, bounds>>

\* _republish_from_overlay
Republish ==
    /\ edit.at = "saved"
    /\ LET out == Published(Generated(edit.catalog), edit.over)
       IN  Reindex(out) /\ edit' = [edit EXCEPT !.at = "indexed", !.catalog = out]
    /\ UNCHANGED <<docs, jobs, task, claim, clearing, bounds>>

\* mark_stale_for_connection, when the settings of the connection change.
ChangeConnection ==
    /\ BeginEdit
    /\ edit' = [NoEdit EXCEPT !.at = "indexed", !.catalog = [pub EXCEPT !.status = "stale"]]
    /\ UNCHANGED <<docs, jobs, task, claim, clearing, index>>

SavePublished ==
    /\ edit.at = "indexed"
    /\ pub' = edit.catalog
    /\ edit' = NoEdit
    /\ UNCHANGED <<gen, overlay, jobs, task, claim, clearing, index, bounds>>

\* With nothing under way and all of the catalog deleted, it starts anew.
Anew == pub # None /\ \A j \in DOMAIN task : task[j].at \in Over

\* delete_source in one transaction, then the vector store.
Clear ==
    /\ ~clearing /\ clears < MaxClears /\ clears' = clears + 1
    /\ crossed' = (edit # NoEdit \/ (crossed /\ ~Anew))
    /\ Finish(DOMAIN jobs, "cancelled")
    /\ pub' = None /\ gen' = NoDoc /\ overlay' = NoOverlay
    /\ clearing' = (pub # None)
    /\ UNCHANGED <<task, claim, edit, index, edits, crashes>>

ClearIndex ==
    /\ clearing /\ clearing' = FALSE
    /\ DropIndex
    /\ UNCHANGED <<docs, jobs, task, claim, edit, bounds>>

-----------------------------------------------------------------------------
(* Time and failures                                                        *)

\* latest_operation, called by whoever looks at the status, after 30 minutes
\* without a new stage: the task is dead or in a call that takes as long.
Long == {"dead", "profiling", "generating", "indexing"}
InterruptLiving ==
    /\ jobs # <<>> /\ task[Len(jobs)].at \in Long \ {"dead"}
    /\ IsRunning(Len(jobs))
    /\ Finish({Len(jobs)}, "interrupted")
    /\ UNCHANGED <<docs, task, calls, index, bounds>>
Interrupt ==
    /\ jobs # <<>> /\ task[Len(jobs)].at \in Long
    /\ IsRunning(Len(jobs))
    /\ Finish({Len(jobs)}, "interrupted")
    /\ UNCHANGED <<docs, task, calls, index, bounds>>

Crash ==
    /\ crashes < MaxCrashes
    /\ crashes' = crashes + 1
    /\ task' = [j \in DOMAIN task |-> IF task[j].at \in Over THEN task[j]
                                                             ELSE [Queued EXCEPT !.at = "dead"]]
    /\ claim' = NoCall /\ edit' = NoEdit /\ clearing' = FALSE
    /\ UNCHANGED <<docs, jobs, index, edits, clears, crossed>>

-----------------------------------------------------------------------------

Step(j) ==
    \/ Begin(j) \/ Profile(j) \/ Raise(j) \/ EndGenerating(j) \/ Merge(j) \/ Draft(j)
    \/ IndexDraft(j) \/ AfterIndex(j) \/ Commit(j) \/ Complete(j) \/ Fail(j) \/ MarkFailed(j)

Editing == SaveOverlay \/ Republish \/ SavePublished

Next ==
    \/ \E force \in BOOLEAN : ClaimBuild(force)
    \/ ClaimGeneration \/ ClaimOperation
    \/ \E j \in DOMAIN jobs : Step(j)
    \/ \E m \in Metrics, added \in BOOLEAN : EditMetric(m, added)
    \/ \E new \in SUBSET Metrics : GenerateAtOnce(new)
    \/ ChangeConnection \/ Editing \/ Clear \/ ClearIndex
    \/ Interrupt \/ Crash

\* Tasks run unless they hang in a long call, and the client polls the status
\* as long as an operation is running.
Prompt(j) == task[j].at \notin Long /\ Step(j)
Fairness ==
    /\ \A j \in 1..MaxJobs : WF_vars(j \in DOMAIN jobs /\ Prompt(j))
    /\ WF_vars(Interrupt)

Spec     == Init /\ [][Next]_vars
FairSpec == Spec /\ Fairness

-----------------------------------------------------------------------------
(* Properties                                                               *)

Docs     == [profile: 0..MaxJobs, failed: BOOLEAN]
Overlays == [version: Nat, metrics: SUBSET Metrics]
Catalogs == [status: {"not_built", "ready", "failed", "stale"}, doc: Docs,
             metrics: SUBSET Metrics, version: Nat]

\* None is neither a version nor a catalog.
ASSUME NoneAssumption == None \notin Nat \union Catalogs

Jobs     == [kind: {"build", "generate"},
             status: {"running", "completed", "failed", "cancelled", "interrupted"}]
Tasks    == [at: Over \union {"queued", "profiling", "generating", "merging", "drafted", "indexing",
                              "indexed", "publishing", "committed", "failing", "marking"},
             over: Overlays, out: Catalogs \union {None}, marks: Nat]
Claims   == [at: {"idle", "claiming"}, kind: {"none", "build", "generate"}, force: BOOLEAN]
Edits    == [at: {"idle", "loaded", "saved", "indexed"}, catalog: Catalogs \union {None},
             over: Overlays]

TypeOK ==
    /\ pub \in Catalogs \union {None} /\ gen \in Docs /\ overlay \in Overlays
    /\ jobs \in Seq(Jobs) /\ Len(jobs) <= MaxJobs
    /\ task \in Seq(Tasks) /\ Len(task) = Len(jobs)
    /\ claim \in Claims /\ edit \in Edits /\ clearing \in BOOLEAN
    /\ index \in [Metrics -> Nat \union {None}] /\ crossed \in BOOLEAN

\* At most one operation of a source runs, whoever claims, supersedes, clears or
\* polls at the same time (claim_operation).
OneRunning == Cardinality(Running) <= 1

\* An operation ends once: the late result or failure of a task whose operation
\* was cancelled, superseded or interrupted does not change how it ended.
EndedForGood ==
    [][\A j \in DOMAIN jobs : ~IsRunning(j) => jobs'[j] = jobs[j]]_vars

\* The published version tells which edits a catalog contains: if it is that of
\* the overlay, the catalog has the metrics of the overlay.  Scenario reviews
\* (semantic_scenario_service.py:254) and the index filter rely on versions.
\* An edit that crosses a generation, or a clearing, ends that until the catalog
\* starts anew: both then store an overlay of the same version.
VersionsAreHonest ==
    ~crossed /\ pub # None /\ HasTables(pub.doc) /\ pub.version = overlay.version =>
        pub.metrics = overlay.metrics

\* When no task, edit or clearing is under way and nothing has crashed or
\* crossed, every metric the index returns for the published version is in the
\* catalog.
Quiet == edit = NoEdit /\ ~clearing /\ \A j \in DOMAIN task : task[j].at \in Over
HitsAreReal ==
    ~crossed /\ crashes = 0 /\ Quiet /\ pub # None /\ HasTables(pub.doc) =>
        \A m \in Metrics : index[m] = pub.version => m \in pub.metrics

\* An operation does not stay running: its task ends it, or was killed or hangs
\* and somebody who looks at the status finds it interrupted.
OperationsEnd == []<>(Running = {})

=============================================================================
