------------------------ MODULE SemanticCatalogProofs ------------------------
(***************************************************************************)
(* Theorems about SemanticCatalog, for every set of metrics and every      *)
(* bound.                                                                  *)
(***************************************************************************)
EXTENDS SemanticCatalog, SequenceTheorems, FiniteSetTheorems, TLAPS

-----------------------------------------------------------------------------
(* Documents                                                               *)

\* A catalog belongs to a version of the overlay: without tables it says so or
\* lists nothing, with tables it lists the metrics of that overlay.
Fits(catalog, over) ==
    /\ Unbuilt(catalog) => ~HasTables(catalog.doc)
    /\ HasTables(catalog.doc) =>
         catalog.version = over.version /\ catalog.metrics = over.metrics

\* What is published from typed documents is typed and belongs to the overlay.
LEMMA PublishedType ==
    ASSUME NEW doc \in Docs, NEW over \in Overlays
    PROVE  Published(doc, over) \in Catalogs /\ Fits(Published(doc, over), over)
  BY DEF Published, Docs, Overlays, Catalogs, Fits, Unbuilt, HasTables

\* The generated document, or the one loaded instead of it, is a document.
LEMMA GeneratedType ==
    ASSUME TypeOK, NEW catalog \in Catalogs
    PROVE  Generated(catalog) \in Docs
  BY DEF TypeOK, Generated, Docs, Catalogs

\* Indexing a catalog writes numbers.
LEMMA ReindexType ==
    ASSUME TypeOK, NEW catalog \in Catalogs, Reindex(catalog)
    PROVE  index' \in [Metrics -> Nat \union {None}]
  BY DEF TypeOK, Reindex, Catalogs

\* Whether something has crossed stays a truth value.
LEMMA CrossedType ==
    ASSUME TypeOK, Next
    PROVE  crossed' \in BOOLEAN
  BY DEF TypeOK, Next, Step, Begin, Advance, Profile, Raise, EndGenerating, Merge, Draft, IndexDraft,
     AfterIndex, Commit, Complete, Fail, MarkFailed, Cross, bounds, ClaimBuild, ClaimGeneration,
     ClaimOperation, EditMetric, GenerateAtOnce, LoadOverlay, BeginEdit, ChangeConnection, Editing,
     SaveOverlay, Republish, SavePublished, Clear, ClearIndex, Interrupt, Crash

\* Whoever edits metrics, or generates at once, loads the overlay.
LEMMA EditsLoad ==
    ASSUME TypeOK,
           \/ \E m \in Metrics, added \in BOOLEAN : EditMetric(m, added)
           \/ \E new \in SUBSET Metrics : GenerateAtOnce(new)
    PROVE  \E metrics \in SUBSET Metrics : LoadOverlay(metrics)
  <1>1. overlay.metrics \subseteq Metrics
    BY DEF TypeOK, Overlays
  <1>2. ASSUME NEW m \in Metrics, NEW added \in BOOLEAN, EditMetric(m, added)
        PROVE  \E metrics \in SUBSET Metrics : LoadOverlay(metrics)
    BY <1>1, <1>2 DEF EditMetric
  <1>3. ASSUME NEW new \in SUBSET Metrics, GenerateAtOnce(new)
        PROVE  \E metrics \in SUBSET Metrics : LoadOverlay(metrics)
    BY <1>1, <1>3 DEF GenerateAtOnce
  <1> QED
    BY <1>2, <1>3

\* Removing points removes numbers.
LEMMA DropType ==
    ASSUME TypeOK, NEW v, DropVersion(v) \/ DropIndex
    PROVE  index' \in [Metrics -> Nat \union {None}]
  BY DEF TypeOK, DropVersion, DropIndex

-----------------------------------------------------------------------------
(* Operations and tasks                                                    *)

Ends == {"completed", "failed", "cancelled", "interrupted"}

\* Functions on an initial segment of the numbers are sequences.
LEMMA SegmentIsSeq ==
    ASSUME NEW S, NEW n \in Nat, NEW f \in [1..n -> S]
    PROVE  f \in Seq(S) /\ Len(f) = n
  OBVIOUS

\* Finishing operations keeps their number and kinds, starts none, and leaves
\* those alone that have ended.
LEMMA FinishKeeps ==
    ASSUME TypeOK, NEW js, NEW status \in Ends, Finish(js, status)
    PROVE  /\ jobs' \in Seq(Jobs) /\ Len(jobs') = Len(jobs)
           /\ DOMAIN jobs' = DOMAIN jobs
           /\ \A j \in DOMAIN jobs :
                /\ jobs'[j].kind = jobs[j].kind
                /\ IsRunning(j)' => IsRunning(j)
                /\ ~IsRunning(j) => jobs'[j] = jobs[j]
                /\ j \in js => ~IsRunning(j)'
  <1> DEFINE n == Len(jobs)
  <1>1. n \in Nat /\ DOMAIN jobs = 1..n /\ \A j \in 1..n : jobs[j] \in Jobs
    BY LenProperties, ElementOfSeq DEF TypeOK
  <1>2. jobs' = [j \in 1..n |-> IF j \in js /\ IsRunning(j)
                                  THEN [jobs[j] EXCEPT !.status = status] ELSE jobs[j]]
    BY <1>1 DEF Finish
  <1>3. \A j \in 1..n : [jobs[j] EXCEPT !.status = status] \in Jobs
    BY <1>1 DEF Jobs, Ends
  <1>4. jobs' \in [1..n -> Jobs]
    BY <1>1, <1>2, <1>3
  <1>5. jobs' \in Seq(Jobs) /\ Len(jobs') = n
    <2> HIDE DEF n
    <2> QED
      BY <1>1, <1>4, SegmentIsSeq
  <1>6. ASSUME NEW j \in 1..n
        PROVE  /\ jobs'[j].kind = jobs[j].kind
               /\ IsRunning(j)' => IsRunning(j)
               /\ ~IsRunning(j) => jobs'[j] = jobs[j]
               /\ j \in js => ~IsRunning(j)'
    BY <1>1, <1>2 DEF Jobs, IsRunning, Ends
  <1> QED
    BY <1>1, <1>4, <1>5, <1>6

\* Replacing one task by another keeps the others.
LEMMA TaskSet ==
    ASSUME TypeOK, NEW j \in DOMAIN jobs, NEW t \in Tasks, task' = [task EXCEPT ![j] = t]
    PROVE  /\ task' \in Seq(Tasks) /\ Len(task') = Len(task)
           /\ DOMAIN task = DOMAIN jobs /\ DOMAIN task' = DOMAIN task
           /\ task'[j] = t
           /\ \A i \in DOMAIN jobs : i # j => task'[i] = task[i]
  <1>1. DOMAIN jobs = 1..Len(jobs) /\ DOMAIN task = 1..Len(task) /\ Len(task) = Len(jobs)
    BY LenProperties DEF TypeOK
  <1>2. /\ task' \in Seq(Tasks) /\ Len(task') = Len(task)
        /\ \A i \in 1..Len(task) : task'[i] = IF i = j THEN t ELSE task[i]
    BY <1>1, ExceptSeq DEF TypeOK
  <1>3. DOMAIN task' = 1..Len(task')
    BY <1>2, LenProperties
  <1> QED
    BY <1>1, <1>2, <1>3

\* A task that moves on keeps what it has.
LEMMA GotoKeeps ==
    ASSUME TypeOK, NEW j \in DOMAIN jobs, NEW where,
           [task[j] EXCEPT !.at = where] \in Tasks, Goto(j, where)
    PROVE  /\ task' \in Seq(Tasks) /\ Len(task') = Len(task)
           /\ DOMAIN task = DOMAIN jobs /\ DOMAIN task' = DOMAIN task
           /\ task'[j] = [task[j] EXCEPT !.at = where]
           /\ \A i \in DOMAIN jobs : i # j => task'[i] = task[i]
  <1>1. task' = [task EXCEPT ![j] = [task[j] EXCEPT !.at = where]]
    BY DEF Goto
  <1> QED
    BY <1>1, TaskSet

-----------------------------------------------------------------------------
(* Types and the one running operation                                     *)

\* Where a task holds a catalog.
Drafts == {"drafted", "indexing", "indexed", "publishing", "committed", "marking"}

AtMostOne   == \A i, j \in DOMAIN jobs : IsRunning(i) /\ IsRunning(j) => i = j
DraftsExist == \A j \in DOMAIN jobs : task[j].at \in Drafts => task[j].out \in Catalogs
ClaimReady  == claim.at = "claiming" => claim.kind # "none" /\ Len(jobs) < MaxJobs
EditLoaded  == edit.at # "idle" => edit.catalog \in Catalogs

\* The inductive form of the type invariant and of OneRunning.
TInv ==
    /\ TypeOK
    /\ AtMostOne /\ DraftsExist
    /\ ClaimReady /\ EditLoaded

\* What TypeOK says of one task.
LEMMA TaskFacts ==
    ASSUME TInv, NEW j \in DOMAIN jobs
    PROVE  /\ task[j] \in Tasks /\ jobs[j] \in Jobs
           /\ j \in 1..MaxJobs /\ DOMAIN task = DOMAIN jobs
           /\ task[j].at \in Drafts => task[j].out \in Catalogs
  <1>1. /\ DOMAIN jobs = 1..Len(jobs) /\ DOMAIN task = 1..Len(task)
        /\ Len(task) = Len(jobs) /\ Len(jobs) \in Nat
    BY LenProperties DEF TInv, TypeOK
  <1>2. task[j] \in Tasks /\ jobs[j] \in Jobs
    BY <1>1, ElementOfSeq DEF TInv, TypeOK
  <1>3. j \in 1..MaxJobs
    BY <1>1, CatalogAssumption DEF TInv, TypeOK
  <1> QED
    BY <1>1, <1>2, <1>3 DEF TInv, DraftsExist

\* A step that replaces one task by a typed one that has its draft, and starts
\* no operation, keeps the invariant if it keeps the types of the rest.
LEMMA TaskStepKeeps ==
    ASSUME TInv, NEW j \in DOMAIN jobs, NEW t \in Tasks, task' = [task EXCEPT ![j] = t],
           t.at \in Drafts => t.out \in Catalogs,
           jobs' = jobs \/ \E js, status : status \in Ends /\ Finish(js, status),
           pub' \in Catalogs \union {None}, gen' \in Docs, overlay' \in Overlays,
           index' \in [Metrics -> Nat \union {None}], UNCHANGED calls, crossed' \in BOOLEAN
    PROVE  TInv'
  <1>1. /\ task' \in Seq(Tasks) /\ Len(task') = Len(task)
        /\ task'[j] = t /\ \A i \in DOMAIN jobs : i # j => task'[i] = task[i]
    BY TaskSet DEF TInv
  <1>2. /\ jobs' \in Seq(Jobs) /\ Len(jobs') = Len(jobs) /\ DOMAIN jobs' = DOMAIN jobs
        /\ \A i \in DOMAIN jobs : IsRunning(i)' => IsRunning(i)
    <2>1. CASE jobs' = jobs
      BY <2>1 DEF TInv, TypeOK, IsRunning
    <2>2. CASE \E js, status : status \in Ends /\ Finish(js, status)
      BY <2>2, FinishKeeps DEF TInv
    <2> QED
      BY <2>1, <2>2
  <1>3. TypeOK'
    BY <1>1, <1>2 DEF TInv, TypeOK, calls
  <1>4. AtMostOne'
    BY <1>2 DEF TInv, AtMostOne
  <1>5. DraftsExist'
    BY <1>1, <1>2 DEF TInv, DraftsExist
  <1>6. ClaimReady' /\ EditLoaded'
    BY <1>2 DEF TInv, ClaimReady, EditLoaded, calls
  <1> QED
    BY <1>3, <1>4, <1>5, <1>6 DEF TInv

Places == Over \union {"queued", "profiling", "generating", "merging", "drafted", "indexing",
                       "indexed", "publishing", "committed", "failing", "marking"}

\* The same for a task that only moves, to a place that asks for no new draft.
LEMMA GotoStepKeeps ==
    ASSUME TInv, NEW j \in DOMAIN jobs, NEW where \in Places, Goto(j, where),
           where \in Drafts => task[j].at \in Drafts,
           jobs' = jobs \/ \E js, status : status \in Ends /\ Finish(js, status),
           pub' \in Catalogs \union {None}, gen' \in Docs, overlay' \in Overlays,
           index' \in [Metrics -> Nat \union {None}], UNCHANGED calls, crossed' \in BOOLEAN
    PROVE  TInv'
  <1> DEFINE t == [task[j] EXCEPT !.at = where]
  <1>1. task[j] \in Tasks /\ (task[j].at \in Drafts => task[j].out \in Catalogs)
    BY TaskFacts
  <1>2. t \in Tasks /\ t.at = where /\ t.out = task[j].out
    BY <1>1 DEF Tasks, Places
  <1>3. task' = [task EXCEPT ![j] = t]
    BY DEF Goto
  <1> HIDE DEF t
  <1> QED
    BY <1>1, <1>2, <1>3, TaskStepKeeps

\* Steps of a task.
LEMMA StepTypes ==
    ASSUME TInv, NEW j \in DOMAIN jobs, Step(j)
    PROVE  TInv'
  <1> USE DEF Places, Over
  <1>0. /\ task[j] \in Tasks /\ jobs[j] \in Jobs /\ j \in 1..MaxJobs
        /\ task[j].at \in Drafts => task[j].out \in Catalogs
    BY TaskFacts
  <1>d. /\ pub \in Catalogs \union {None} /\ gen \in Docs /\ overlay \in Overlays
        /\ index \in [Metrics -> Nat \union {None}] /\ crossed' \in BOOLEAN
    BY CrossedType DEF TInv, TypeOK, Next
  <1>1. CASE Begin(j)
    BY <1>0, <1>1, <1>d, GotoStepKeeps DEF Begin, Advance, docs, Drafts
  <1>2. CASE Profile(j)
    <2>1. PICK failed \in BOOLEAN :
            task' = [task EXCEPT ![j].at   = "drafted",
                                 ![j].over = overlay,
                                 ![j].out  = Published([profile |-> j, failed |-> failed], overlay)]
      BY <1>2 DEF Profile
    <2> DEFINE out == Published([profile |-> j, failed |-> failed], overlay)
               t   == [task[j] EXCEPT !.at = "drafted", !.over = overlay, !.out = out]
    <2>2. [profile |-> j, failed |-> failed] \in Docs
      BY <1>0 DEF Docs
    <2>3. out \in Catalogs
      BY <1>d, <2>2, PublishedType
    <2>4. task' = [task EXCEPT ![j] = t]
      BY <2>1
    <2> HIDE DEF out
    <2>5. t \in Tasks /\ t.out = out
      BY <1>0, <1>d, <2>3 DEF Tasks
    <2> QED
      BY <1>2, <1>d, <2>3, <2>4, <2>5, TaskStepKeeps DEF Profile, docs
  <1>3. CASE Raise(j)
    BY <1>0, <1>3, <1>d, GotoStepKeeps DEF Raise, docs, Drafts
  <1>4. CASE EndGenerating(j)
    BY <1>0, <1>4, <1>d, GotoStepKeeps DEF EndGenerating, Advance, docs, Drafts
  <1>5. CASE Merge(j)
    <2> DEFINE rebuilt == [profile |-> j, failed |-> FALSE]
               catalog == IF pub = None THEN Published(rebuilt, overlay) ELSE pub
    <2>1. PICK new \in SUBSET Metrics :
            task' = [task EXCEPT ![j].at   = "drafted",
                                 ![j].over = [version |-> overlay.version + 1,
                                              metrics |-> overlay.metrics \union new],
                                 ![j].out  = catalog]
      BY <1>5 DEF Merge
    <2> DEFINE over == [version |-> overlay.version + 1, metrics |-> overlay.metrics \union new]
               t    == [task[j] EXCEPT !.at = "drafted", !.over = over, !.out = catalog]
    <2>2. rebuilt \in Docs
      BY <1>0 DEF Docs
    <2>3. catalog \in Catalogs
      BY <1>d, <2>2, PublishedType
    <2>4. over \in Overlays
      BY <1>d DEF Overlays
    <2>5. task' = [task EXCEPT ![j] = t]
      BY <2>1
    <2>6. /\ pub' \in Catalogs \union {None} /\ gen' \in Docs /\ overlay' \in Overlays
          /\ jobs' = jobs /\ UNCHANGED calls
      BY <1>5, <1>d, <2>2, <2>3 DEF Merge
    <2>7. index' \in [Metrics -> Nat \union {None}]
      BY <1>5, <1>d, <2>3, ReindexType DEF Merge, TInv
    <2> HIDE DEF catalog, over
    <2>8. t \in Tasks /\ t.out = catalog
      BY <1>0, <2>3, <2>4 DEF Tasks
    <2> QED
      BY <1>d, <2>3, <2>5, <2>6, <2>7, <2>8, TaskStepKeeps
  <1>6. CASE Draft(j)
    <2>1. CASE ~IsRunning(j)
      BY <1>0, <1>6, <1>d, <2>1, GotoStepKeeps DEF Draft, docs, Drafts
    <2>2. CASE IsRunning(j)
      <3> DEFINE out == IF jobs[j].kind = "build" THEN task[j].out
                        ELSE Published(Generated(task[j].out), task[j].over)
                 t   == [task[j] EXCEPT !.at = "indexing", !.out = out]
      <3>1. task[j].out \in Catalogs /\ task[j].over \in Overlays
        BY <1>0, <1>6 DEF Draft, Drafts, Tasks
      <3>2. out \in Catalogs
        BY <3>1, GeneratedType, PublishedType DEF TInv
      <3>3. task' = [task EXCEPT ![j] = t]
        BY <1>6, <2>2 DEF Draft
      <3> HIDE DEF out
      <3>4. t \in Tasks /\ t.out = out
        BY <1>0, <3>2 DEF Tasks
      <3> QED
        BY <1>6, <1>d, <3>2, <3>3, <3>4, TaskStepKeeps DEF Draft, docs
    <2> QED
      BY <2>1, <2>2
  <1>7. CASE IndexDraft(j)
    <2>1. index' \in [Metrics -> Nat \union {None}]
      BY <1>0, <1>7, ReindexType DEF IndexDraft, TInv, Drafts
    <2> QED
      BY <1>0, <1>7, <1>d, <2>1, GotoStepKeeps DEF IndexDraft, docs, Drafts
  <1>8. CASE AfterIndex(j)
    <2>1. index' \in [Metrics -> Nat \union {None}]
      BY <1>8, <1>d, DropType DEF AfterIndex, TInv
    <2> QED
      BY <1>0, <1>8, <1>d, <2>1, GotoStepKeeps DEF AfterIndex, docs, Drafts
  <1>9. CASE Commit(j)
    <2>1. index' \in [Metrics -> Nat \union {None}]
      BY <1>9, <1>d, DropType DEF Commit, TInv
    <2>2. task[j].out \in Catalogs /\ task[j].over \in Overlays /\ task[j].at \in Drafts
      BY <1>0, <1>9 DEF Commit, Drafts, Tasks
    <2>3. pub' \in Catalogs \union {None} /\ gen' \in Docs /\ overlay' \in Overlays
      BY <1>9, <1>d, <2>2 DEF Commit, CommitBuild, CommitGeneration, docs, Catalogs
    <2>4. jobs' = jobs /\ UNCHANGED calls
      BY <1>9 DEF Commit
    <2>5. \E where \in {"committed", "failing"} : Goto(j, where)
      BY <1>9 DEF Commit
    <2> QED
      BY <1>d, <2>1, <2>2, <2>3, <2>4, <2>5, GotoStepKeeps
  <1>10. CASE Complete(j)
    <2>1. CASE IsRunning(j)
      <3>1. Finish({j}, "completed") /\ "completed" \in Ends
        BY <1>10, <2>1 DEF Complete, Ends
      <3>2. Goto(j, "done") /\ UNCHANGED <<docs, calls, index>>
        BY <1>10, <2>1 DEF Complete
      <3> QED
        BY <1>d, <3>1, <3>2, GotoStepKeeps DEF docs, Drafts
    <2>2. CASE ~IsRunning(j)
      BY <1>0, <1>10, <1>d, <2>2, GotoStepKeeps DEF Complete, docs, Drafts
    <2> QED
      BY <2>1, <2>2
  <1>11. CASE Fail(j)
    <2> DEFINE marks == IF jobs[j].kind = "build" THEN task[j].marks + 1 ELSE Handlers
    <2>1. Finish({j}, "failed") /\ "failed" \in Ends /\ UNCHANGED <<docs, calls, index>>
      BY <1>11 DEF Fail, Ends
    <2>2. marks \in Nat
      BY <1>0 DEF Tasks, Handlers
    <2>3. \E t \in Tasks : /\ task' = [task EXCEPT ![j] = t]
                           /\ t.at \in Drafts => t.out \in Catalogs
      <3>1. CASE jobs[j].kind = "build" /\ pub # None /\ Unbuilt(pub)
        <4> DEFINE t == [task[j] EXCEPT !.at = "marking", !.marks = marks, !.out = pub]
        <4>1. task' = [task EXCEPT ![j] = t]
          BY <1>11, <3>1 DEF Fail
        <4> HIDE DEF marks
        <4>2. t \in Tasks /\ t.out \in Catalogs
          BY <1>0, <1>d, <2>2, <3>1 DEF Tasks
        <4> QED
          BY <4>1, <4>2
      <3>2. CASE ~(jobs[j].kind = "build" /\ pub # None /\ Unbuilt(pub))
        <4> DEFINE at == IF marks = Handlers THEN "done" ELSE task[j].at
                   t  == [task[j] EXCEPT !.at = at, !.marks = marks]
        <4>1. task' = [task EXCEPT ![j] = t]
          BY <1>11, <3>2 DEF Fail
        <4>2. at \in Places \ Drafts
          BY <1>11 DEF Fail, Drafts
        <4> HIDE DEF marks, at
        <4>3. t \in Tasks /\ t.at \notin Drafts
          BY <1>0, <2>2, <4>2 DEF Tasks
        <4> QED
          BY <4>1, <4>3
      <3> QED
        BY <3>1, <3>2
    <2> QED
      BY <1>d, <2>1, <2>3, TaskStepKeeps DEF docs
  <1>12. CASE MarkFailed(j)
    <2>1. task[j].out \in Catalogs
      BY <1>0, <1>12 DEF MarkFailed, Drafts
    <2>2. pub' \in Catalogs
      BY <1>12, <2>1 DEF MarkFailed, Catalogs
    <2> QED
      BY <1>0, <1>12, <1>d, <2>2, GotoStepKeeps DEF MarkFailed, docs, Drafts
  <1> QED
    BY <1>1, <1>2, <1>3, <1>4, <1>5, <1>6, <1>7, <1>8, <1>9, <1>10, <1>11, <1>12 DEF Step

\* Superseding cancels what runs and adds one operation that does.
LEMMA SupersedeAdds ==
    ASSUME TInv, claim.kind \in {"build", "generate"}, Len(jobs) < MaxJobs, Supersede
    PROVE  /\ jobs' \in Seq(Jobs) /\ Len(jobs') = Len(jobs) + 1
           /\ DOMAIN jobs' = 1..(Len(jobs) + 1)
           /\ jobs'[Len(jobs) + 1] = NewJob(claim.kind)
           /\ \A j \in DOMAIN jobs :
                /\ jobs'[j].kind = jobs[j].kind
                /\ ~IsRunning(j)'
                /\ ~IsRunning(j) => jobs'[j] = jobs[j]
  <1> DEFINE n == Len(jobs)
             kept == [j \in DOMAIN jobs |-> IF IsRunning(j) THEN [jobs[j] EXCEPT !.status = "cancelled"]
                                                            ELSE jobs[j]]
  <1>1. n \in Nat /\ DOMAIN jobs = 1..n /\ \A j \in 1..n : jobs[j] \in Jobs
    BY LenProperties, ElementOfSeq DEF TInv, TypeOK
  <1>2. \A j \in 1..n : kept[j] \in Jobs /\ kept[j].status # "running" /\ kept[j].kind = jobs[j].kind
                        /\ (~IsRunning(j) => kept[j] = jobs[j])
    BY <1>1 DEF Jobs, IsRunning
  <1>3. kept \in [1..n -> Jobs]
    BY <1>1, <1>2
  <1>4. NewJob(claim.kind) \in Jobs
    BY DEF NewJob, Jobs
  <1>5. jobs' = Append(kept, NewJob(claim.kind))
    BY DEF Supersede
  <1> HIDE DEF n, kept
  <1>6. kept \in Seq(Jobs) /\ Len(kept) = n
    BY <1>1, <1>3, SegmentIsSeq
  <1>7. /\ jobs' \in Seq(Jobs) /\ Len(jobs') = n + 1 /\ DOMAIN jobs' = 1..(n + 1)
        /\ jobs'[n + 1] = NewJob(claim.kind) /\ \A j \in 1..n : jobs'[j] = kept[j]
    BY <1>1, <1>4, <1>5, <1>6
  <1> QED
    BY <1>1, <1>2, <1>7 DEF IsRunning, n

\* Claiming, editing, clearing, interrupting and crashing keep the invariant.
LEMMA OtherTypes ==
    ASSUME TInv, Next, ~\E j \in DOMAIN jobs : Step(j)
    PROVE  TInv'
  <1>d. /\ pub \in Catalogs \union {None} /\ gen \in Docs /\ overlay \in Overlays
        /\ index \in [Metrics -> Nat \union {None}] /\ claim \in Claims /\ edit \in Edits
        /\ jobs \in Seq(Jobs) /\ task \in Seq(Tasks) /\ Len(task) = Len(jobs)
        /\ Len(jobs) \in Nat /\ DOMAIN jobs = 1..Len(jobs) /\ DOMAIN task = 1..Len(jobs)
    BY LenProperties DEF TInv, TypeOK
  <1>x. crossed' \in BOOLEAN
    BY CrossedType DEF TInv
  <1>n. NoOverlay \in Overlays /\ NoDoc \in Docs /\ Placeholder \in Catalogs
    BY CatalogAssumption DEF NoOverlay, Overlays, NoDoc, Docs, Placeholder, Catalogs
  <1>c. NoCall \in Claims /\ NoEdit \in Edits
    BY <1>n DEF NoCall, Claims, NoEdit, Edits
  <1>q. Queued \in Tasks /\ [Queued EXCEPT !.at = "dead"] \in Tasks
    BY <1>n DEF Queued, Tasks, Over
  <1>1. ASSUME NEW force \in BOOLEAN, ClaimBuild(force) PROVE TInv'
    <2>1. claim' \in Claims /\ claim'.kind = "build"
      BY <1>1 DEF ClaimBuild, Claims
    <2>2. TypeOK'
      BY <1>x, <1>1, <1>d, <1>n, <2>1 DEF ClaimBuild, TInv, TypeOK
    <2> QED
      BY <1>1, <2>1, <2>2 DEF ClaimBuild, TInv, AtMostOne, DraftsExist, ClaimReady, EditLoaded, IsRunning
  <1>2. CASE ClaimGeneration
    <2>1. claim' \in Claims /\ claim'.kind = "generate"
      BY <1>2 DEF ClaimGeneration, Claims
    <2>2. TypeOK'
      BY <1>x, <1>2, <2>1 DEF ClaimGeneration, TInv, TypeOK, docs
    <2> QED
      BY <1>2, <2>1, <2>2 DEF ClaimGeneration, TInv, AtMostOne, DraftsExist, ClaimReady, EditLoaded, IsRunning
  <1>3. CASE ClaimOperation
    <2>1. pub' \in Catalogs \union {None} /\ UNCHANGED <<gen, overlay, edit, clearing, index>>
      BY <1>3, <1>d, <1>n DEF ClaimOperation
    <2>2. claim' = NoCall /\ claim'.at # "claiming"
      BY <1>3 DEF ClaimOperation, NoCall
    <2>3. CASE UNCHANGED <<jobs, task>>
      <3>1. TypeOK'
        BY <1>x, <1>c, <2>1, <2>2, <2>3 DEF TInv, TypeOK
      <3> QED
        BY <2>1, <2>2, <2>3, <3>1 DEF TInv, AtMostOne, DraftsExist, ClaimReady, EditLoaded, IsRunning
    <2>4. CASE ~UNCHANGED <<jobs, task>>
      <3>1. Supersede /\ task' = Append(task, Queued) /\ claim.kind \in {"build", "generate"}
        BY <1>3, <1>d, <2>4 DEF ClaimOperation, TInv, ClaimReady, Claims
      <3>2. Len(jobs) < MaxJobs
        BY <1>3, <3>1 DEF ClaimOperation, TInv, ClaimReady
      <3>3. /\ jobs' \in Seq(Jobs) /\ Len(jobs') = Len(jobs) + 1
            /\ DOMAIN jobs' = 1..(Len(jobs) + 1)
            /\ \A j \in DOMAIN jobs : ~IsRunning(j)'
        BY <3>1, <3>2, SupersedeAdds
      <3>4. /\ task' \in Seq(Tasks) /\ Len(task') = Len(jobs) + 1
            /\ task'[Len(jobs) + 1] = Queued /\ \A j \in DOMAIN jobs : task'[j] = task[j]
        BY <1>d, <1>q, <3>1
      <3>5. TypeOK'
        <4>1. Len(jobs') <= MaxJobs
          BY <1>d, <3>2, <3>3, CatalogAssumption
        <4> QED
          BY <1>x, <1>c, <2>1, <2>2, <3>3, <3>4, <4>1 DEF TInv, TypeOK
      <3>6. AtMostOne'
        BY <1>d, <3>3 DEF AtMostOne
      <3>7. DraftsExist'
        BY <1>d, <3>3, <3>4 DEF TInv, DraftsExist, Queued, Drafts
      <3> QED
        BY <2>1, <2>2, <3>5, <3>6, <3>7 DEF TInv, ClaimReady, EditLoaded
    <2> QED
      BY <2>3, <2>4
  <1>4. ASSUME NEW metrics \in SUBSET Metrics, LoadOverlay(metrics) PROVE TInv'
    <2> DEFINE over == [version |-> overlay.version + 1, metrics |-> metrics]
    <2>1. over \in Overlays /\ pub \in Catalogs
      BY <1>4, <1>d DEF Overlays, LoadOverlay, BeginEdit
    <2>2. edit' = [at |-> "loaded", catalog |-> pub, over |-> over]
      BY <1>4 DEF LoadOverlay
    <2> HIDE DEF over
    <2>3. edit' \in Edits /\ edit'.catalog \in Catalogs
      BY <2>1, <2>2 DEF Edits
    <2>4. UNCHANGED <<docs, jobs, task, claim, clearing, index>>
      BY <1>4 DEF LoadOverlay
    <2>5. TypeOK'
      BY <1>x, <2>3, <2>4 DEF TInv, TypeOK, docs
    <2> QED
      BY <2>3, <2>4, <2>5 DEF TInv, AtMostOne, DraftsExist, ClaimReady, EditLoaded, IsRunning
  <1>5. CASE ChangeConnection
    <2> DEFINE stale == [pub EXCEPT !.status = "stale"]
    <2>1. stale \in Catalogs
      BY <1>5, <1>d DEF Catalogs, ChangeConnection, BeginEdit
    <2>2. edit' = [NoEdit EXCEPT !.at = "indexed", !.catalog = stale]
      BY <1>5 DEF ChangeConnection
    <2> HIDE DEF stale
    <2>3. edit' \in Edits /\ edit'.catalog \in Catalogs
      BY <1>c, <2>1, <2>2 DEF Edits, NoEdit
    <2>4. UNCHANGED <<docs, jobs, task, claim, clearing, index>>
      BY <1>5 DEF ChangeConnection
    <2>5. TypeOK'
      BY <1>x, <2>3, <2>4 DEF TInv, TypeOK, docs
    <2> QED
      BY <2>3, <2>4, <2>5 DEF TInv, AtMostOne, DraftsExist, ClaimReady, EditLoaded, IsRunning
  <1>6. CASE SaveOverlay
    <2>1. edit' \in Edits /\ edit'.catalog = edit.catalog /\ edit.at # "idle" /\ overlay' \in Overlays
      BY <1>6, <1>d DEF SaveOverlay, Edits
    <2>2. UNCHANGED <<pub, gen, jobs, task, claim, clearing, index>>
      BY <1>6 DEF SaveOverlay
    <2>3. TypeOK'
      BY <1>x, <2>1, <2>2 DEF TInv, TypeOK
    <2> QED
      BY <2>1, <2>2, <2>3 DEF TInv, AtMostOne, DraftsExist, ClaimReady, EditLoaded, IsRunning
  <1>7. CASE Republish
    <2> DEFINE out == Published(Generated(edit.catalog), edit.over)
    <2>1. out \in Catalogs
      BY <1>7, <1>d, GeneratedType, PublishedType DEF Republish, TInv, EditLoaded, Edits
    <2>2. Reindex(out) /\ edit' = [edit EXCEPT !.at = "indexed", !.catalog = out]
      BY <1>7 DEF Republish
    <2> HIDE DEF out
    <2>3. edit' \in Edits /\ edit'.catalog \in Catalogs
      BY <1>d, <2>1, <2>2 DEF Edits
    <2>4. UNCHANGED <<docs, jobs, task, claim, clearing>>
      BY <1>7 DEF Republish
    <2>5. index' \in [Metrics -> Nat \union {None}]
      BY <2>1, <2>2, ReindexType DEF TInv
    <2>6. TypeOK'
      BY <1>x, <2>3, <2>4, <2>5 DEF TInv, TypeOK, docs
    <2> QED
      BY <2>3, <2>4, <2>6 DEF TInv, AtMostOne, DraftsExist, ClaimReady, EditLoaded, IsRunning
  <1>8. CASE SavePublished
    <2>1. pub' \in Catalogs /\ edit' = NoEdit
      BY <1>8 DEF SavePublished, TInv, EditLoaded
    <2>2. UNCHANGED <<gen, overlay, jobs, task, claim, clearing, index>>
      BY <1>8 DEF SavePublished
    <2>3. TypeOK'
      BY <1>x, <1>c, <2>1, <2>2 DEF TInv, TypeOK
    <2> QED
      BY <2>1, <2>2, <2>3 DEF TInv, AtMostOne, DraftsExist, ClaimReady, EditLoaded, IsRunning, NoEdit
  <1>9. CASE Clear
    <2>1. Finish(DOMAIN jobs, "cancelled") /\ "cancelled" \in Ends
      BY <1>9 DEF Clear, Ends
    <2>2. /\ jobs' \in Seq(Jobs) /\ Len(jobs') = Len(jobs) /\ DOMAIN jobs' = DOMAIN jobs
          /\ \A j \in DOMAIN jobs : IsRunning(j)' => IsRunning(j)
      BY <2>1, FinishKeeps DEF TInv
    <2>3. /\ pub' = None /\ gen' = NoDoc /\ overlay' = NoOverlay /\ clearing' \in BOOLEAN
          /\ UNCHANGED <<task, claim, edit, index>>
      BY <1>9 DEF Clear
    <2>4. TypeOK'
      BY <1>x, <1>n, <2>2, <2>3 DEF TInv, TypeOK
    <2> QED
      BY <2>2, <2>3, <2>4 DEF TInv, AtMostOne, DraftsExist, ClaimReady, EditLoaded
  <1>10. CASE ClearIndex
    <2>1. index' \in [Metrics -> Nat \union {None}]
      BY <1>10, DropType DEF ClearIndex, TInv
    <2>2. clearing' = FALSE /\ UNCHANGED <<docs, jobs, task, claim, edit>>
      BY <1>10 DEF ClearIndex
    <2>3. TypeOK'
      BY <1>x, <2>1, <2>2 DEF TInv, TypeOK, docs
    <2> QED
      BY <2>2, <2>3 DEF TInv, AtMostOne, DraftsExist, ClaimReady, EditLoaded, IsRunning
  <1>11. CASE Interrupt
    <2>1. Finish({Len(jobs)}, "interrupted") /\ "interrupted" \in Ends
      BY <1>11 DEF Interrupt, Ends
    <2>2. /\ jobs' \in Seq(Jobs) /\ Len(jobs') = Len(jobs) /\ DOMAIN jobs' = DOMAIN jobs
          /\ \A j \in DOMAIN jobs : IsRunning(j)' => IsRunning(j)
      BY <2>1, FinishKeeps DEF TInv
    <2>3. UNCHANGED <<docs, task, calls, index>>
      BY <1>11 DEF Interrupt
    <2>4. TypeOK'
      BY <1>x, <2>2, <2>3 DEF TInv, TypeOK, docs, calls
    <2> QED
      BY <2>2, <2>3, <2>4 DEF TInv, AtMostOne, DraftsExist, ClaimReady, EditLoaded, calls
  <1>12. CASE Crash
    <2>1. task' = [j \in 1..Len(jobs) |-> IF task[j].at \in Over THEN task[j]
                                          ELSE [Queued EXCEPT !.at = "dead"]]
      BY <1>12, <1>d DEF Crash
    <2>2. task' \in [1..Len(jobs) -> Tasks]
      BY <1>d, <1>q, <2>1, ElementOfSeq
    <2>3. task' \in Seq(Tasks) /\ Len(task') = Len(jobs)
      BY <1>d, <2>2, SegmentIsSeq
    <2>4. \A j \in DOMAIN jobs : task'[j].at \notin Drafts
      BY <1>d, <2>1 DEF Drafts, Over, Queued
    <2>5. claim' = NoCall /\ edit' = NoEdit /\ clearing' = FALSE /\ UNCHANGED <<docs, jobs, index>>
      BY <1>12 DEF Crash
    <2>6. TypeOK'
      BY <1>x, <1>c, <2>3, <2>5 DEF TInv, TypeOK, docs
    <2> QED
      BY <2>4, <2>5, <2>6 DEF TInv, AtMostOne, DraftsExist, ClaimReady, EditLoaded, IsRunning, NoCall, NoEdit
  <1>e. (\E m \in Metrics, added \in BOOLEAN : EditMetric(m, added))
        \/ (\E new \in SUBSET Metrics : GenerateAtOnce(new)) => TInv'
    BY <1>4, EditsLoad DEF TInv
  <1> QED
    BY <1>1, <1>2, <1>3, <1>e, <1>5, <1>6, <1>7, <1>8, <1>9, <1>10, <1>11, <1>12 DEF Next, Editing

\* Initially nothing is stored and nothing runs.
LEMMA TInvInit == Init => TInv
  <1> SUFFICES ASSUME Init PROVE TInv
    OBVIOUS
  <1>1. NoOverlay \in Overlays /\ NoDoc \in Docs
    BY CatalogAssumption DEF NoOverlay, Overlays, NoDoc, Docs
  <1>2. NoCall \in Claims /\ NoEdit \in Edits
    BY <1>1 DEF NoCall, Claims, NoEdit, Edits
  <1>3. jobs \in Seq(Jobs) /\ task \in Seq(Tasks) /\ Len(jobs) = 0 /\ Len(task) = 0 /\ DOMAIN jobs = {}
    BY DEF Init
  <1>4. TypeOK
    <2>1. Len(jobs) <= MaxJobs
      BY <1>3, CatalogAssumption
    <2>2. index \in [Metrics -> Nat \union {None}]
      BY DEF Init
    <2>3. pub = None /\ gen = NoDoc /\ overlay = NoOverlay /\ claim = NoCall /\ edit = NoEdit /\ clearing = FALSE
      BY DEF Init
    <2> QED
      BY <1>1, <1>2, <1>3, <2>1, <2>2, <2>3 DEF TypeOK, Init
  <1> QED
    BY <1>3, <1>4 DEF Init, TInv, AtMostOne, DraftsExist, ClaimReady, EditLoaded, NoCall, NoEdit

\* Every step keeps the types and the one running operation.
LEMMA TInvNext == TInv /\ [Next]_vars => TInv'
  <1> SUFFICES ASSUME TInv, [Next]_vars PROVE TInv'
    OBVIOUS
  <1>1. CASE \E j \in DOMAIN jobs : Step(j)
    BY <1>1, StepTypes
  <1>2. CASE Next /\ ~\E j \in DOMAIN jobs : Step(j)
    BY <1>2, OtherTypes
  <1>3. CASE UNCHANGED vars
    <2>1. UNCHANGED <<pub, gen, overlay, jobs, task, claim, edit, clearing, index, crossed>>
      BY <1>3 DEF vars, docs, calls, bounds
    <2> QED
      BY <2>1 DEF TInv, TypeOK, AtMostOne, DraftsExist, ClaimReady, EditLoaded, IsRunning
  <1> QED
    BY <1>1, <1>2, <1>3

\* The stored documents, the rows and what requests and tasks hold have their
\* types in every state.
THEOREM CatalogTypes == Spec => []TypeOK
  <1>1. Spec => []TInv
    BY TInvInit, TInvNext, PTL DEF Spec
  <1>2. TInv => TypeOK
    BY DEF TInv
  <1> QED
    BY <1>1, <1>2, PTL

\* claim_operation cancels before it starts: two operations of one source never
\* run together.
THEOREM OperationsAreUnique == Spec => []OneRunning
  <1>1. Spec => []TInv
    BY TInvInit, TInvNext, PTL DEF Spec
  <1>2. ASSUME TInv PROVE OneRunning
    <2>1. \A i, j \in Running : i = j
      BY <1>2 DEF TInv, AtMostOne, Running
    <2>2. CASE Running = {}
      BY <2>2, FS_EmptySet DEF OneRunning
    <2>3. CASE Running # {}
      <3>1. PICK j : Running = {j}
        BY <2>1, <2>3
      <3> QED
        BY <3>1, FS_Singleton DEF OneRunning
    <2> QED
      BY <2>2, <2>3
  <1> QED
    BY <1>1, <1>2, PTL

\* Nothing but a running operation is ended, so an operation ends once.
THEOREM OperationsEndOnce == Spec => EndedForGood
  <1>1. Spec => []TInv
    BY TInvInit, TInvNext, PTL DEF Spec
  <1>2. ASSUME TInv, [Next]_vars
        PROVE  [\A j \in DOMAIN jobs : ~IsRunning(j) => jobs'[j] = jobs[j]]_vars
    <2> SUFFICES ASSUME Next, NEW j \in DOMAIN jobs, ~IsRunning(j) PROVE jobs'[j] = jobs[j]
      BY <1>2
    <2>1. CASE jobs' = jobs
      BY <2>1
    <2>2. CASE \E js, status : status \in Ends /\ Finish(js, status)
      BY <1>2, <2>2, FinishKeeps DEF TInv
    <2>3. CASE ClaimOperation
      <3>1. CASE jobs' = jobs
        BY <3>1
      <3>2. CASE Supersede
        <4>1. claim.kind \in {"build", "generate"} /\ Len(jobs) < MaxJobs
          BY <1>2, <2>3 DEF ClaimOperation, TInv, TypeOK, ClaimReady, Claims
        <4> QED
          BY <1>2, <3>2, <4>1, SupersedeAdds
      <3> QED
        BY <2>3, <3>1, <3>2 DEF ClaimOperation
    <2>4. ASSUME NEW i \in DOMAIN jobs, Step(i)
          PROVE  jobs' = jobs \/ \E js, status : status \in Ends /\ Finish(js, status)
      <3>1. CASE Complete(i)
        BY <3>1 DEF Complete, Ends
      <3>2. CASE Fail(i)
        BY <3>2 DEF Fail, Ends
      <3> QED
        BY <2>4, <3>1, <3>2 DEF Step, Begin, Advance, Profile, Raise, EndGenerating, Merge, Draft,
           IndexDraft, AfterIndex, Commit, MarkFailed
    <2>5. CASE ~ClaimOperation /\ ~\E i \in DOMAIN jobs : Step(i)
      <3>1. Clear \/ Interrupt => \E js, status : status \in Ends /\ Finish(js, status)
        BY DEF Clear, Interrupt, Ends
      <3>2. ~(Clear \/ Interrupt) => jobs' = jobs
        BY <2>5 DEF Next, ClaimBuild, ClaimGeneration, EditMetric, GenerateAtOnce, LoadOverlay,
           ChangeConnection, Editing, SaveOverlay, Republish, SavePublished, ClearIndex, Crash
      <3> QED
        BY <2>1, <2>2, <3>1, <3>2
    <2> QED
      BY <2>1, <2>2, <2>3, <2>4, <2>5
  <1> QED
    BY <1>1, <1>2, PTL DEF Spec, EndedForGood

-----------------------------------------------------------------------------
(* What versions tell                                                      *)

\* A catalog does not claim a version of the overlay that it does not contain.
Sound(catalog, over) ==
    /\ Unbuilt(catalog) => ~HasTables(catalog.doc)
    /\ HasTables(catalog.doc) =>
         /\ catalog.version <= over.version
         /\ catalog.version = over.version => catalog.metrics = over.metrics

\* What a task holds while it may still publish it, or mark it as failed.
TaskFits(job, t, over) ==
    /\ job = NewJob("build") /\ t.at \in {"drafted", "indexing", "indexed", "publishing"} =>
         Sound(t.out, over)
    /\ job.kind = "generate" /\ t.at \in {"indexing", "indexed", "publishing"} =>
         Fits(t.out, t.over)
    /\ t.at = "marking" => ~HasTables(t.out.doc)
    /\ t.at = "profiling" => job.kind = "build"

PubSound  == pub # None => Sound(pub, overlay)
TaskSound == \A j \in DOMAIN jobs : TaskFits(jobs[j], task[j], overlay)

\* What an edit holds; no generation that has read the overlay is still to write.
EditSound ==
    /\ edit.at = "loaded" => edit.over.version = overlay.version + 1
    /\ edit.at = "saved" => edit.over = overlay
    /\ edit.at = "indexed" => Sound(edit.catalog, overlay)
    /\ edit.at # "idle" => ~Drafting

SInv == TInv /\ PubSound /\ TaskSound /\ EditSound

\* A catalog that belongs to an overlay is sound for it.
LEMMA FitsIsSound ==
    ASSUME NEW catalog \in Catalogs, NEW over \in Overlays, Fits(catalog, over)
    PROVE  Sound(catalog, over)
  BY DEF Fits, Sound, Overlays, Catalogs

\* A sound catalog stays sound when the overlay moves on to the next version.
LEMMA SoundAhead ==
    ASSUME NEW catalog \in Catalogs, NEW over \in Overlays, NEW next \in Overlays,
           Sound(catalog, over), next.version = over.version + 1
    PROVE  Sound(catalog, next)
  BY DEF Sound, Overlays, Catalogs

\* A task that is replaced by one that fits leaves the others as they fit.
LEMMA TaskSoundStays ==
    ASSUME SInv, NEW j \in DOMAIN jobs, NEW t \in Tasks, task' = [task EXCEPT ![j] = t],
           jobs' = jobs \/ \E js, status : status \in Ends /\ Finish(js, status),
           UNCHANGED overlay, TaskFits(jobs[j], t, overlay)
    PROVE  TaskSound'
  <1>1. task'[j] = t /\ \A i \in DOMAIN jobs : i # j => task'[i] = task[i]
    BY TaskSet DEF SInv, TInv
  <1>2. CASE jobs' = jobs
    BY <1>1, <1>2 DEF SInv, TaskSound
  <1>3. CASE \E js, status : status \in Ends /\ Finish(js, status)
    <2>1. /\ DOMAIN jobs' = DOMAIN jobs
          /\ \A i \in DOMAIN jobs : /\ jobs'[i].kind = jobs[i].kind
                                    /\ IsRunning(i)' => IsRunning(i)
      BY <1>3, FinishKeeps DEF SInv, TInv
    <2>2. ASSUME NEW i \in DOMAIN jobs, jobs'[i] = NewJob("build") PROVE jobs[i] = NewJob("build")
      <3>1. jobs[i] \in Jobs /\ jobs[i].kind = "build" /\ jobs[i].status = "running"
        BY <2>1, <2>2, TaskFacts DEF IsRunning, NewJob, SInv
      <3> QED
        BY <3>1 DEF Jobs, NewJob
    <2>3. \A i \in DOMAIN jobs : TaskFits(jobs[i], task'[i], overlay)
      BY <1>1 DEF SInv, TaskSound
    <2> QED
      BY <2>1, <2>2, <2>3 DEF TaskFits, TaskSound
  <1> QED
    BY <1>2, <1>3

\* A task that goes on brings no generation about.
LEMMA EditSoundStays ==
    ASSUME SInv, NEW j \in DOMAIN jobs, NEW t \in Tasks, task' = [task EXCEPT ![j] = t],
           jobs' = jobs \/ \E js, status : status \in Ends /\ Finish(js, status),
           t.at \in Drafted /\ edit.at # "idle" /\ Generates(j) => task[j].at \in Drafted,
           UNCHANGED <<overlay, calls>>
    PROVE  EditSound'
  <1>1. task'[j] = t /\ \A i \in DOMAIN jobs : i # j => task'[i] = task[i]
    BY TaskSet DEF SInv, TInv
  <1>2. /\ DOMAIN jobs' = DOMAIN jobs
        /\ \A i \in DOMAIN jobs : Generates(i)' => Generates(i)
    <2>1. CASE jobs' = jobs
      BY <2>1 DEF Generates, IsRunning
    <2>2. CASE \E js, status : status \in Ends /\ Finish(js, status)
      BY <2>2, FinishKeeps DEF SInv, TInv, Generates
    <2> QED
      BY <2>1, <2>2
  <1>3. edit.at # "idle" => ~Drafting'
    <2> SUFFICES ASSUME edit.at # "idle", NEW i \in DOMAIN jobs, Generates(i)', task'[i].at \in Drafted
                 PROVE  Drafting
      BY <1>2 DEF Drafting, SInv, EditSound
    <2>1. Generates(i) /\ task[i].at \in Drafted
      BY <1>1, <1>2
    <2> QED
      BY <2>1 DEF Drafting
  <1> QED
    BY <1>3 DEF SInv, EditSound, calls

\* The two lemmas for a task that only moves, to a place where it fits.
LEMMA GotoStays ==
    ASSUME SInv, NEW j \in DOMAIN jobs, NEW where \in Places, Goto(j, where),
           where \in {"drafted", "indexing"} => FALSE,
           where = "indexed" => task[j].at = "indexing",
           where = "publishing" => task[j].at = "indexed",
           where = "marking" => FALSE,
           where = "profiling" => jobs[j].kind = "build",
           jobs' = jobs \/ \E js, status : status \in Ends /\ Finish(js, status),
           UNCHANGED <<overlay, calls>>
    PROVE  TaskSound' /\ EditSound'
  <1> DEFINE t == [task[j] EXCEPT !.at = where]
  <1>1. task[j] \in Tasks
    BY TaskFacts DEF SInv
  <1>2. t \in Tasks /\ t.at = where /\ t.out = task[j].out /\ t.over = task[j].over
    BY <1>1 DEF Tasks, Places
  <1>3. task' = [task EXCEPT ![j] = t]
    BY DEF Goto
  <1>4. TaskFits(jobs[j], task[j], overlay)
    BY DEF SInv, TaskSound
  <1> HIDE DEF t
  <1>5. TaskFits(jobs[j], t, overlay)
    BY <1>2, <1>4 DEF TaskFits
  <1> QED
    BY <1>2, <1>3, <1>5, TaskSoundStays, EditSoundStays DEF Drafted

\* Where nothing crosses, no edit is under way.
LEMMA Uncrossed ==
    ASSUME ~crossed', Clear \/ \E j \in DOMAIN jobs : Generates(j) /\ Merge(j)
    PROVE  edit = NoEdit
  BY Zenon DEF Clear, Merge, Cross

\* Steps of a task keep what is sound.
LEMMA StepSound ==
    ASSUME SInv, ~crossed', NEW j \in DOMAIN jobs, Step(j)
    PROVE  PubSound' /\ TaskSound' /\ EditSound'
  <1> USE DEF Places, Over
  <1>0. /\ task[j] \in Tasks /\ jobs[j] \in Jobs /\ j \in 1..MaxJobs
        /\ task[j].at \in Drafts => task[j].out \in Catalogs
    BY TaskFacts DEF SInv
  <1>d. pub \in Catalogs \union {None} /\ gen \in Docs /\ overlay \in Overlays
    BY DEF SInv, TInv, TypeOK
  <1>s. PubSound /\ TaskFits(jobs[j], task[j], overlay)
    BY DEF SInv, TaskSound
  <1>p1. task[j].at = "profiling" => jobs[j].kind = "build"
    BY <1>s DEF TaskFits
  <1>b. IsRunning(j) => jobs[j] = NewJob(jobs[j].kind)
    BY <1>0 DEF IsRunning, NewJob, Jobs
  <1>p. ASSUME UNCHANGED <<pub, overlay>> PROVE PubSound'
    BY <1>s, <1>p DEF PubSound
  <1>1. CASE Begin(j)
    <2>1. /\ UNCHANGED <<pub, overlay, jobs, calls>>
          /\ \E where \in {"profiling", "generating", "failing"} :
                Goto(j, where) /\ (where = "profiling" => jobs[j].kind = "build")
      BY <1>1 DEF Begin, Advance, docs
    <2> QED
      BY <1>p, <2>1, GotoStays
  <1>2. CASE Profile(j)
    <2>1. PICK failed \in BOOLEAN :
            task' = [task EXCEPT ![j].at   = "drafted",
                                 ![j].over = overlay,
                                 ![j].out  = Published([profile |-> j, failed |-> failed], overlay)]
      BY <1>2 DEF Profile
    <2> DEFINE out == Published([profile |-> j, failed |-> failed], overlay)
               t   == [task[j] EXCEPT !.at = "drafted", !.over = overlay, !.out = out]
    <2>2. [profile |-> j, failed |-> failed] \in Docs
      BY <1>0 DEF Docs
    <2>3. out \in Catalogs /\ Sound(out, overlay)
      BY <1>d, <2>2, PublishedType, FitsIsSound
    <2>4. task' = [task EXCEPT ![j] = t]
      BY <2>1
    <2> HIDE DEF out
    <2>5. t \in Tasks /\ t.out = out /\ t.at = "drafted"
      BY <1>0, <1>d, <2>3 DEF Tasks
    <2>6. TaskFits(jobs[j], t, overlay)
      BY <2>3, <2>5 DEF TaskFits
    <2>7. UNCHANGED <<pub, overlay, jobs, calls>> /\ ~Generates(j)
      BY <1>2, <1>p1 DEF Profile, docs, Generates
    <2> HIDE DEF t
    <2> QED
      BY <1>p, <2>4, <2>5, <2>6, <2>7, TaskSoundStays, EditSoundStays DEF Generates
  <1>3. CASE Raise(j)
    BY <1>0, <1>3, <1>p, GotoStays DEF Raise, docs
  <1>4. CASE EndGenerating(j)
    BY <1>0, <1>4, <1>p, GotoStays DEF EndGenerating, Advance, docs
  <1>5. CASE Merge(j)
    <2> DEFINE rebuilt == [profile |-> j, failed |-> FALSE]
               catalog == IF pub = None THEN Published(rebuilt, overlay) ELSE pub
    <2>1. PICK new \in SUBSET Metrics :
            task' = [task EXCEPT ![j].at   = "drafted",
                                 ![j].over = [version |-> overlay.version + 1,
                                              metrics |-> overlay.metrics \union new],
                                 ![j].out  = catalog]
      BY <1>5 DEF Merge
    <2> DEFINE over == [version |-> overlay.version + 1, metrics |-> overlay.metrics \union new]
               t    == [task[j] EXCEPT !.at = "drafted", !.over = over, !.out = catalog]
    <2>2. rebuilt \in Docs
      BY <1>0 DEF Docs
    <2>3. catalog \in Catalogs /\ Sound(catalog, overlay)
      BY <1>d, <1>s, <2>2, PublishedType, FitsIsSound DEF PubSound
    <2>4. over \in Overlays
      BY <1>d DEF Overlays
    <2>5. task' = [task EXCEPT ![j] = t]
      BY <2>1
    <2>6. /\ pub' = catalog \/ pub' = pub
          /\ UNCHANGED <<overlay, jobs, calls>> /\ task[j].at = "merging"
          /\ Generates(j) => edit.at = "idle"
      <3>1. Generates(j) => edit.at = "idle"
        BY <1>5, Uncrossed DEF NoEdit
      <3>2. pub' = catalog \/ pub' = pub
        BY <1>5 DEF Merge
      <3>3. UNCHANGED <<overlay, jobs, calls>> /\ task[j].at = "merging"
        BY <1>5 DEF Merge
      <3> QED
        BY <3>1, <3>2, <3>3
    <2>7. jobs[j] # NewJob("build") \/ jobs[j] = NewJob("build")
      OBVIOUS
    <2> HIDE DEF catalog, over
    <2>8. t \in Tasks /\ t.out = catalog /\ t.at = "drafted"
      BY <1>0, <2>3, <2>4 DEF Tasks
    <2> HIDE DEF t
    <2>9. TaskFits(jobs[j], t, overlay)
      BY <2>3, <2>8 DEF TaskFits
    <2>10. PubSound'
      BY <1>s, <2>3, <2>6 DEF PubSound
    <2> QED
      BY <2>5, <2>6, <2>8, <2>9, <2>10, TaskSoundStays, EditSoundStays
  <1>6. CASE Draft(j)
    <2>0. UNCHANGED <<pub, overlay, jobs, calls>> /\ task[j].at \in Drafted
      BY <1>6 DEF Draft, docs, Drafted
    <2>1. CASE ~IsRunning(j)
      BY <1>0, <1>6, <1>p, <2>0, <2>1, GotoStays DEF Draft
    <2>2. CASE IsRunning(j)
      <3> DEFINE out == IF jobs[j].kind = "build" THEN task[j].out
                        ELSE Published(Generated(task[j].out), task[j].over)
                 t   == [task[j] EXCEPT !.at = "indexing", !.out = out]
      <3>1. task[j].out \in Catalogs /\ task[j].over \in Overlays /\ task[j].at = "drafted"
        BY <1>0, <1>6 DEF Draft, Drafts, Tasks
      <3>2. /\ out \in Catalogs
            /\ jobs[j].kind = "build" => Sound(out, overlay)
            /\ jobs[j].kind = "generate" => Fits(out, task[j].over)
        <4>1. Generated(task[j].out) \in Docs
          BY <3>1, GeneratedType DEF SInv, TInv
        <4>2. jobs[j].kind = "build" => Sound(task[j].out, overlay)
          BY <1>b, <1>s, <2>2, <3>1 DEF TaskFits
        <4> QED
          BY <3>1, <4>1, <4>2, PublishedType
      <3>3. task' = [task EXCEPT ![j] = t]
        BY <1>6, <2>2 DEF Draft
      <3> HIDE DEF out
      <3>4. t \in Tasks /\ t.out = out /\ t.over = task[j].over /\ t.at = "indexing"
        BY <1>0, <3>2 DEF Tasks
      <3> HIDE DEF t
      <3>5. TaskFits(jobs[j], t, overlay)
        BY <3>2, <3>4 DEF TaskFits, NewJob
      <3> QED
        BY <1>p, <2>0, <3>3, <3>4, <3>5, TaskSoundStays, EditSoundStays
    <2> QED
      BY <2>1, <2>2
  <1>7. CASE IndexDraft(j)
    BY <1>0, <1>7, <1>p, GotoStays DEF IndexDraft, docs
  <1>8. CASE AfterIndex(j)
    BY <1>0, <1>8, <1>p, GotoStays DEF AfterIndex, docs
  <1>9. CASE Commit(j)
    <2>0. task[j].at = "publishing" /\ task[j].out \in Catalogs /\ task[j].over \in Overlays
      BY <1>0, <1>9 DEF Commit, Drafts, Tasks
    <2>1. CASE ~IsRunning(j)
      BY <1>0, <1>9, <1>p, <2>1, GotoStays DEF Commit, docs
    <2>2. CASE IsRunning(j) /\ jobs[j].kind = "build"
      <3>1. Sound(task[j].out, overlay)
        BY <1>b, <1>s, <2>0, <2>2 DEF TaskFits
      <3>2. /\ pub' = task[j].out /\ UNCHANGED <<overlay, jobs, calls>> /\ Goto(j, "committed")
        BY <1>9, <2>2 DEF Commit, CommitBuild
      <3>3. PubSound'
        BY <3>1, <3>2 DEF PubSound
      <3> QED
        BY <2>0, <3>2, <3>3, GotoStays
    <2>3. CASE IsRunning(j) /\ jobs[j].kind # "build"
      <3>1. Fits(task[j].out, task[j].over) /\ jobs[j].kind = "generate"
        BY <1>0, <1>s, <2>0, <2>3 DEF TaskFits, Jobs
      <3>2. /\ pub' = task[j].out /\ overlay' = task[j].over
            /\ UNCHANGED <<jobs, calls>> /\ Goto(j, "committed")
        BY <1>9, <2>3 DEF Commit, CommitGeneration
      <3>3. PubSound'
        BY <2>0, <3>1, <3>2, FitsIsSound DEF PubSound
      <3>4. Drafting
        BY <2>0, <2>3, <3>1 DEF Drafting, Generates, Drafted
      <3>5. edit.at = "idle"
        BY <3>4 DEF SInv, EditSound
      <3>6. EditSound'
        BY <3>2, <3>5 DEF EditSound, calls
      <3>7. \A i \in DOMAIN jobs : jobs[i] # NewJob("build")
        BY <2>3 DEF SInv, TInv, AtMostOne, IsRunning, NewJob
      <3>8. TaskSound'
        <4> DEFINE t == [task[j] EXCEPT !.at = "committed"]
        <4>1. t \in Tasks /\ t.at = "committed"
          BY <1>0 DEF Tasks
        <4>2. task' = [task EXCEPT ![j] = t]
          BY <3>2 DEF Goto
        <4> HIDE DEF t
        <4>3. task'[j] = t /\ \A i \in DOMAIN jobs : i # j => task'[i] = task[i]
          BY <4>1, <4>2, TaskSet DEF SInv, TInv
        <4>4. ASSUME NEW i \in DOMAIN jobs PROVE TaskFits(jobs[i], task'[i], overlay')
          <5>1. TaskFits(jobs[i], task[i], overlay)
            BY DEF SInv, TaskSound
          <5> QED
            BY <3>7, <4>1, <4>3, <5>1 DEF TaskFits
        <4> QED
          BY <3>2, <4>4 DEF TaskSound
      <3> QED
        BY <3>3, <3>6, <3>8
    <2> QED
      BY <2>1, <2>2, <2>3
  <1>10. CASE Complete(j)
    <2>1. CASE IsRunning(j)
      <3>1. Finish({j}, "completed") /\ "completed" \in Ends
        BY <1>10, <2>1 DEF Complete, Ends
      <3>2. Goto(j, "done") /\ UNCHANGED <<pub, overlay, calls>>
        BY <1>10, <2>1 DEF Complete, docs
      <3> QED
        BY <1>p, <3>1, <3>2, GotoStays
    <2>2. CASE ~IsRunning(j)
      BY <1>0, <1>10, <1>p, <2>2, GotoStays DEF Complete, docs
    <2> QED
      BY <2>1, <2>2
  <1>11. CASE Fail(j)
    <2> DEFINE marks == IF jobs[j].kind = "build" THEN task[j].marks + 1 ELSE Handlers
    <2>1. /\ Finish({j}, "failed") /\ "failed" \in Ends /\ UNCHANGED <<pub, overlay, calls>>
          /\ task[j].at = "failing"
      BY <1>11 DEF Fail, Ends, docs
    <2>2. marks \in Nat
      BY <1>0 DEF Tasks, Handlers
    <2>3. \E t \in Tasks : /\ task' = [task EXCEPT ![j] = t] /\ t.at \notin Drafted
                           /\ TaskFits(jobs[j], t, overlay)
      <3>1. CASE jobs[j].kind = "build" /\ pub # None /\ Unbuilt(pub)
        <4> DEFINE t == [task[j] EXCEPT !.at = "marking", !.marks = marks, !.out = pub]
        <4>1. task' = [task EXCEPT ![j] = t]
          BY <1>11, <3>1 DEF Fail
        <4> HIDE DEF marks
        <4>2. t \in Tasks /\ t.out = pub /\ t.at = "marking"
          BY <1>0, <1>d, <2>2, <3>1 DEF Tasks
        <4>3. ~HasTables(pub.doc)
          BY <1>s, <3>1 DEF PubSound, Sound
        <4> HIDE DEF t
        <4>4. TaskFits(jobs[j], t, overlay) /\ t.at \notin Drafted
          BY <4>2, <4>3 DEF TaskFits, Drafted
        <4> QED
          BY <4>1, <4>2, <4>4
      <3>2. CASE ~(jobs[j].kind = "build" /\ pub # None /\ Unbuilt(pub))
        <4> DEFINE at == IF marks = Handlers THEN "done" ELSE task[j].at
                   t  == [task[j] EXCEPT !.at = at, !.marks = marks]
        <4>1. task' = [task EXCEPT ![j] = t]
          BY <1>11, <3>2 DEF Fail
        <4>2. at \in {"done", "failing"}
          BY <2>1
        <4> HIDE DEF marks, at
        <4>3. t \in Tasks /\ t.at = at
          BY <1>0, <2>2, <4>2 DEF Tasks
        <4> HIDE DEF t
        <4>4. TaskFits(jobs[j], t, overlay) /\ t.at \notin Drafted
          BY <4>2, <4>3 DEF TaskFits, Drafted
        <4> QED
          BY <4>1, <4>3, <4>4
      <3> QED
        BY <3>1, <3>2
    <2> QED
      BY <1>p, <2>1, <2>3, TaskSoundStays, EditSoundStays
  <1>12. CASE MarkFailed(j)
    <2>1. task[j].out \in Catalogs /\ task[j].at = "marking"
      BY <1>0, <1>12 DEF MarkFailed, Drafts
    <2>2. ~HasTables(task[j].out.doc)
      BY <1>s, <2>1 DEF TaskFits
    <2>3. pub' = [task[j].out EXCEPT !.status = "failed"]
      BY <1>12 DEF MarkFailed
    <2>4. pub'.doc = task[j].out.doc
      BY <2>1, <2>3 DEF Catalogs
    <2>5. PubSound'
      BY <2>2, <2>4 DEF PubSound, Sound
    <2>6. UNCHANGED <<overlay, jobs, calls>>
          /\ \E where \in {"done", "failing"} : Goto(j, where)
      BY <1>12 DEF MarkFailed
    <2> QED
      BY <2>1, <2>5, <2>6, GotoStays
  <1> QED
    BY <1>1, <1>2, <1>3, <1>4, <1>5, <1>6, <1>7, <1>8, <1>9, <1>10, <1>11, <1>12 DEF Step

\* When neither the overlay nor an operation nor a task changes, tasks fit on.
LEMMA TasksUntouched ==
    ASSUME SInv, UNCHANGED <<overlay, jobs, task>>
    PROVE  TaskSound' /\ (Drafting' <=> Drafting)
  BY DEF SInv, TaskSound, Drafting, Generates, IsRunning

\* The other steps keep what is sound.
LEMMA OtherSound ==
    ASSUME SInv, TInv', ~crossed', Next, ~\E j \in DOMAIN jobs : Step(j)
    PROVE  PubSound' /\ TaskSound' /\ EditSound'
  <1>d. /\ pub \in Catalogs \union {None} /\ gen \in Docs /\ overlay \in Overlays
        /\ overlay' \in Overlays /\ edit \in Edits
        /\ edit.at # "idle" => edit.catalog \in Catalogs
    BY DEF SInv, TInv, TypeOK, EditLoaded
  <1>s. PubSound /\ TaskSound /\ EditSound
    BY DEF SInv
  <1>u. Sound(Placeholder, overlay)
    BY DEF Sound, Placeholder, HasTables, NoDoc
  <1>1. ASSUME NEW force \in BOOLEAN, ClaimBuild(force) PROVE PubSound' /\ TaskSound' /\ EditSound'
    <2>1. UNCHANGED <<overlay, jobs, task, edit>> /\ pub' \in {pub, Placeholder} 
      BY <1>1 DEF ClaimBuild
    <2>2. PubSound'
      BY <1>s, <1>u, <2>1 DEF PubSound
    <2>3. TaskSound' /\ (Drafting' <=> Drafting)
      BY <2>1, TasksUntouched
    <2>4. EditSound'
      BY <1>s, <2>1, <2>3 DEF EditSound
    <2> QED
      BY <2>2, <2>3, <2>4
  <1>2. CASE ClaimGeneration
    <2>1. UNCHANGED <<pub, overlay, jobs, task, edit>>
      BY <1>2 DEF ClaimGeneration, docs
    <2>2. TaskSound' /\ (Drafting' <=> Drafting)
      BY <2>1, TasksUntouched
    <2> QED
      BY <1>s, <2>1, <2>2 DEF PubSound, EditSound
  <1>3. CASE ClaimOperation
    <2>1. UNCHANGED <<overlay, edit>> /\ pub' \in {pub, Placeholder} /\ claim' = NoCall
      BY <1>3 DEF ClaimOperation
    <2>2. PubSound'
      BY <1>s, <1>u, <2>1 DEF PubSound
    <2>3. CASE UNCHANGED <<jobs, task>>
      <3>1. TaskSound' /\ (Drafting' <=> Drafting)
        BY <2>1, <2>3, TasksUntouched
      <3>2. EditSound'
        BY <1>s, <2>1, <3>1 DEF EditSound
      <3> QED
        BY <2>2, <3>1, <3>2
    <2>4. CASE ~UNCHANGED <<jobs, task>>
      <3>1. /\ Supersede /\ task' = Append(task, Queued) /\ claim.kind \in {"build", "generate"}
            /\ Len(jobs) < MaxJobs
        BY <1>3, <2>4 DEF ClaimOperation, SInv, TInv, TypeOK, ClaimReady, Claims
      <3>2. /\ DOMAIN jobs' = 1..(Len(jobs) + 1)
            /\ jobs'[Len(jobs) + 1] = NewJob(claim.kind)
            /\ \A j \in DOMAIN jobs : jobs'[j].kind = jobs[j].kind /\ ~IsRunning(j)'
        BY <3>1, SupersedeAdds DEF SInv
      <3>3. /\ DOMAIN jobs = 1..Len(jobs) /\ Len(task) = Len(jobs) /\ Len(jobs) \in Nat /\ task \in Seq(Tasks)
        BY LenProperties DEF SInv, TInv, TypeOK
      <3>4. task'[Len(jobs) + 1] = Queued /\ \A j \in DOMAIN jobs : task'[j] = task[j]
        <4>1. Queued \in Tasks
          BY CatalogAssumption DEF Queued, Tasks, Overlays, NoOverlay
        <4> QED
          BY <3>1, <3>3, <4>1
      <3>5. TaskSound'
        <4>1. ASSUME NEW j \in DOMAIN jobs PROVE TaskFits(jobs'[j], task'[j], overlay)
          <5>1. jobs'[j] # NewJob("build")
            BY <3>2 DEF NewJob, IsRunning
          <5>2. TaskFits(jobs[j], task[j], overlay)
            BY <1>s DEF TaskSound
          <5> QED
            BY <3>2, <3>4, <5>1, <5>2 DEF TaskFits
        <4>2. TaskFits(jobs'[Len(jobs) + 1], task'[Len(jobs) + 1], overlay)
          BY <3>4 DEF TaskFits, Queued
        <4> QED
          BY <2>1, <3>2, <3>3, <4>1, <4>2 DEF TaskSound
      <3>6. EditSound'
        <4>1. task'[Len(jobs) + 1].at \notin Drafted
          BY <3>4 DEF Queued, Drafted
        <4>2. ~Drafting'
          BY <3>2, <3>3, <4>1 DEF Drafting, Generates
        <4> QED
          BY <1>s, <2>1, <4>2 DEF EditSound
      <3> QED
        BY <2>2, <3>5, <3>6
    <2> QED
      BY <2>3, <2>4
  <1>4. ASSUME NEW metrics \in SUBSET Metrics, LoadOverlay(metrics)
        PROVE  PubSound' /\ TaskSound' /\ EditSound'
    <2> DEFINE over == [version |-> overlay.version + 1, metrics |-> metrics]
    <2>1. UNCHANGED <<pub, overlay, jobs, task, claim>> /\ ~Drafting
      BY <1>4 DEF LoadOverlay, BeginEdit, Cross, docs
    <2>2. edit' = [at |-> "loaded", catalog |-> pub, over |-> over]
      BY <1>4 DEF LoadOverlay
    <2>3. over.version = overlay.version + 1
      OBVIOUS
    <2> HIDE DEF over
    <2>4. TaskSound' /\ (Drafting' <=> Drafting)
      BY <2>1, TasksUntouched
    <2> QED
      BY <1>s, <2>1, <2>2, <2>3, <2>4 DEF PubSound, EditSound
  <1>5. CASE ChangeConnection
    <2> DEFINE stale == [pub EXCEPT !.status = "stale"]
    <2>1. UNCHANGED <<pub, overlay, jobs, task, claim>> /\ ~Drafting /\ pub \in Catalogs
      BY <1>5, <1>d DEF ChangeConnection, BeginEdit, Cross, docs
    <2>2. edit' = [NoEdit EXCEPT !.at = "indexed", !.catalog = stale]
      BY <1>5 DEF ChangeConnection
    <2>3. /\ stale.status = "stale" /\ stale.doc = pub.doc
          /\ stale.version = pub.version /\ stale.metrics = pub.metrics
      BY <2>1 DEF Catalogs
    <2> HIDE DEF stale
    <2>6. Sound(pub, overlay)
      BY <1>5, <1>s DEF PubSound, ChangeConnection, BeginEdit
    <2>7. Sound(stale, overlay)
      BY <2>3, <2>6 DEF Sound, Unbuilt, HasTables
    <2>4. TaskSound' /\ (Drafting' <=> Drafting)
      BY <2>1, TasksUntouched
    <2>5. edit'.at = "indexed" /\ edit'.catalog = stale
      BY <2>2 DEF NoEdit
    <2> QED
      BY <1>s, <2>1, <2>4, <2>5, <2>7 DEF PubSound, EditSound
  <1>6. CASE SaveOverlay
    <2>1. UNCHANGED <<pub, jobs, task, claim>> /\ overlay' = edit.over /\ edit.at = "loaded"
      BY <1>6 DEF SaveOverlay
    <2>2. edit'.at = "saved" /\ edit'.over = edit.over
      BY <1>6, <1>d DEF SaveOverlay, Edits
    <2>3. overlay'.version = overlay.version + 1
      BY <1>s, <2>1 DEF EditSound
    <2>4. PubSound'
      BY <1>d, <1>s, <2>1, <2>3, SoundAhead DEF PubSound
    <2>5. ASSUME NEW j \in DOMAIN jobs PROVE TaskFits(jobs[j], task[j], overlay')
      <3>1. TaskFits(jobs[j], task[j], overlay)
        BY <1>s DEF TaskSound
      <3>2. task[j].at \in Drafts => task[j].out \in Catalogs
        BY TaskFacts DEF SInv
      <3> QED
        BY <1>d, <2>3, <3>1, <3>2, SoundAhead DEF TaskFits, Drafts
    <2>6. TaskSound'
      BY <2>1, <2>5 DEF TaskSound
    <2>7. ~Drafting'
      BY <1>s, <2>1 DEF EditSound, Drafting, Generates, IsRunning
    <2> QED
      BY <2>1, <2>2, <2>4, <2>6, <2>7 DEF EditSound
  <1>7. CASE Republish
    <2> DEFINE out == Published(Generated(edit.catalog), edit.over)
    <2>1. UNCHANGED <<pub, overlay, jobs, task, claim>> /\ edit.at = "saved"
      BY <1>7 DEF Republish, docs
    <2>2. edit.over = overlay
      BY <1>s, <2>1 DEF EditSound
    <2>3. out \in Catalogs /\ Sound(out, overlay)
      BY <1>d, <2>1, <2>2, GeneratedType, PublishedType, FitsIsSound DEF SInv, TInv
    <2>4. edit' = [edit EXCEPT !.at = "indexed", !.catalog = out]
      BY <1>7 DEF Republish
    <2> HIDE DEF out
    <2>5. edit'.at = "indexed" /\ edit'.catalog = out
      BY <1>d, <2>4 DEF Edits
    <2>6. TaskSound' /\ (Drafting' <=> Drafting)
      BY <2>1, TasksUntouched
    <2> QED
      BY <1>s, <2>1, <2>3, <2>5, <2>6 DEF PubSound, EditSound
  <1>8. CASE SavePublished
    <2>1. UNCHANGED <<overlay, jobs, task>> /\ edit.at = "indexed" /\ edit' = NoEdit /\ pub' = edit.catalog
      BY <1>8 DEF SavePublished
    <2>2. PubSound'
      BY <1>s, <2>1 DEF PubSound, EditSound
    <2> QED
      BY <2>1, <2>2, TasksUntouched DEF EditSound, NoEdit
  <1>9. CASE Clear
    <2>1. pub' = None /\ UNCHANGED <<task, edit>> /\ edit.at = "idle"
      BY <1>9, Uncrossed DEF Clear, NoEdit
    <2>2. Finish(DOMAIN jobs, "cancelled") /\ "cancelled" \in Ends
      BY <1>9 DEF Clear, Ends
    <2>3. /\ DOMAIN jobs' = DOMAIN jobs
          /\ \A j \in DOMAIN jobs : jobs'[j].kind = jobs[j].kind /\ ~IsRunning(j)'
      BY <2>2, FinishKeeps DEF SInv, TInv
    <2>4. ASSUME NEW j \in DOMAIN jobs PROVE TaskFits(jobs'[j], task[j], overlay')
      <3>1. TaskFits(jobs[j], task[j], overlay)
        BY <1>s DEF TaskSound
      <3>2. jobs'[j] # NewJob("build")
        BY <2>3 DEF NewJob, IsRunning
      <3> QED
        BY <2>3, <3>1, <3>2 DEF TaskFits
    <2> QED
      BY <2>1, <2>3, <2>4 DEF PubSound, TaskSound, EditSound
  <1>10. CASE ClearIndex
    <2>1. UNCHANGED <<pub, overlay, jobs, task, claim, edit>>
      BY <1>10 DEF ClearIndex, docs
    <2>2. TaskSound' /\ (Drafting' <=> Drafting)
      BY <2>1, TasksUntouched
    <2> QED
      BY <1>s, <2>1, <2>2 DEF PubSound, EditSound
  <1>11. CASE Interrupt
    <2>1. UNCHANGED <<pub, overlay, task, calls>>
      BY <1>11 DEF Interrupt, docs
    <2>2. Finish({Len(jobs)}, "interrupted") /\ "interrupted" \in Ends
      BY <1>11 DEF Interrupt, Ends
    <2>3. /\ DOMAIN jobs' = DOMAIN jobs
          /\ \A j \in DOMAIN jobs : /\ jobs'[j].kind = jobs[j].kind
                                    /\ IsRunning(j)' => IsRunning(j)
      BY <2>2, FinishKeeps DEF SInv, TInv
    <2>4. ASSUME NEW j \in DOMAIN jobs PROVE TaskFits(jobs'[j], task[j], overlay)
      <3>1. TaskFits(jobs[j], task[j], overlay)
        BY <1>s DEF TaskSound
      <3>2. ASSUME jobs'[j] = NewJob("build") PROVE jobs[j] = NewJob("build")
        <4>1. jobs[j] \in Jobs /\ jobs[j].kind = "build" /\ jobs[j].status = "running"
          BY <2>3, <3>2, TaskFacts DEF SInv, IsRunning, NewJob
        <4> QED
          BY <4>1 DEF Jobs, NewJob
      <3> QED
        BY <2>3, <3>1, <3>2 DEF TaskFits
    <2>5. Drafting' => Drafting
      BY <2>1, <2>3 DEF Drafting, Generates, calls
    <2> QED
      BY <1>s, <2>1, <2>3, <2>4, <2>5 DEF PubSound, TaskSound, EditSound, calls
  <1>12. CASE Crash
    <2>1. UNCHANGED <<pub, overlay, jobs>> /\ edit' = NoEdit
      BY <1>12 DEF Crash, docs
    <2>2. DOMAIN task = DOMAIN jobs
      BY LenProperties DEF SInv, TInv, TypeOK
    <2>3. \A j \in DOMAIN jobs : task'[j].at \in Over \union {"dead"}
      BY <1>12, <2>2 DEF Crash, Queued
    <2>4. TaskSound'
      BY <2>1, <2>3 DEF TaskSound, TaskFits, Over
    <2> QED
      BY <1>s, <2>1, <2>4 DEF PubSound, EditSound, NoEdit
  <1>e. \/ \E m \in Metrics, added \in BOOLEAN : EditMetric(m, added)
        \/ \E new \in SUBSET Metrics : GenerateAtOnce(new)
        => PubSound' /\ TaskSound' /\ EditSound'
    BY <1>4, EditsLoad DEF SInv, TInv
  <1> QED
    BY <1>1, <1>2, <1>3, <1>e, <1>5, <1>6, <1>7, <1>8, <1>9, <1>10, <1>11, <1>12 DEF Next, Editing

\* Nothing is published at first.
LEMMA SInvInit == Init => SInv
  <1> SUFFICES ASSUME Init PROVE SInv
    OBVIOUS
  <1>1. pub = None /\ jobs = <<>> /\ edit.at = "idle"
    BY DEF Init, NoEdit
  <1> QED
    BY <1>1, TInvInit DEF SInv, PubSound, TaskSound, EditSound

\* What has crossed is over only when a clearing starts the catalog anew.
LEMMA OverWhenAnew ==
    ASSUME [Next]_vars, crossed, ~crossed'
    PROVE  Clear /\ edit = NoEdit /\ Anew
  <1>1. CASE Clear
    BY <1>1 DEF Clear
  <1>2. CASE ~Clear
    BY <1>2 DEF Next, Step, Begin, Advance, Profile, Raise, EndGenerating, Merge, Draft, IndexDraft,
       AfterIndex, Commit, Complete, Fail, MarkFailed, Cross, vars, bounds, ClaimBuild,
       ClaimGeneration, ClaimOperation, EditMetric, GenerateAtOnce, LoadOverlay, BeginEdit,
       ChangeConnection, Editing, SaveOverlay, Republish, SavePublished, ClearIndex, Interrupt, Crash
  <1> QED
    BY <1>1, <1>2

\* Then nothing is published, and no task or edit holds anything.
LEMMA AnewSound ==
    ASSUME TInv, TInv', Clear, edit = NoEdit, Anew
    PROVE  SInv'
  <1>1. /\ pub' = None /\ UNCHANGED <<task, edit>> /\ edit.at = "idle"
        /\ Finish(DOMAIN jobs, "cancelled") /\ "cancelled" \in Ends
    BY DEF Clear, NoEdit, Ends
  <1>2. DOMAIN jobs' = DOMAIN jobs /\ DOMAIN task = DOMAIN jobs
    BY <1>1, FinishKeeps, LenProperties DEF TInv, TypeOK
  <1>3. \A j \in DOMAIN jobs' : task'[j].at \in Over
    BY <1>1, <1>2 DEF Anew
  <1>4. TaskSound'
    BY <1>3 DEF TaskSound, TaskFits, Over
  <1> QED
    BY <1>1, <1>4 DEF SInv, PubSound, EditSound

\* As long as nothing has crossed, what is published is sound.
VInv == TInv /\ (~crossed => SInv)

\* Every step keeps what is sound, unless something crosses.
LEMMA SInvNext ==
    ASSUME SInv, ~crossed', [Next]_vars
    PROVE  SInv'
  <1>1. TInv'
    BY TInvNext DEF SInv
  <1>2. CASE \E j \in DOMAIN jobs : Step(j)
    BY <1>1, <1>2, StepSound DEF SInv
  <1>3. CASE Next /\ ~\E j \in DOMAIN jobs : Step(j)
    BY <1>1, <1>3, OtherSound DEF SInv
  <1>4. CASE UNCHANGED vars
    <2>1. UNCHANGED <<pub, overlay, jobs, task, claim, edit>>
      BY <1>4 DEF vars, docs, calls
    <2>2. TaskSound' /\ (Drafting' <=> Drafting)
      BY <2>1, TasksUntouched
    <2> QED
      BY <1>1, <2>1, <2>2 DEF SInv, PubSound, EditSound
  <1> QED
    BY <1>2, <1>3, <1>4

LEMMA VInvNext == VInv /\ [Next]_vars => VInv'
  <1> SUFFICES ASSUME VInv, [Next]_vars PROVE VInv'
    OBVIOUS
  <1>1. TInv'
    BY TInvNext DEF VInv
  <1>2. ASSUME ~crossed' PROVE SInv'
    <2>1. CASE ~crossed
      BY <1>2, <2>1, SInvNext DEF VInv
    <2>2. CASE crossed
      BY <1>1, <1>2, <2>2, OverWhenAnew, AnewSound DEF VInv
    <2> QED
      BY <2>1, <2>2
  <1> QED
    BY <1>1, <1>2 DEF VInv

\* Unless an edit and a generation, or a clearing, have crossed since the catalog
\* was started anew, the version of a published catalog tells which edits it
\* contains.
THEOREM VersionsStayHonest == Spec => []VersionsAreHonest
  <1>1. VInv => VersionsAreHonest
    BY DEF VInv, SInv, PubSound, Sound, VersionsAreHonest
  <1>2. Init => VInv
    BY SInvInit DEF VInv, SInv
  <1> QED
    BY <1>1, <1>2, VInvNext, PTL DEF Spec

-----------------------------------------------------------------------------
(* What the index tells                                                    *)

\* With tables, a catalog lists the metrics the overlay of its version had.
InHistory(catalog, h) == HasTables(catalog.doc) => catalog.metrics = h[catalog.version]

Written == {"indexed", "publishing"}

\* The draft of a running build is in the history, that of a running
\* generation is the next version.
DraftKnown(job, t, over, h) ==
    /\ t.at = "profiling" => job.kind = "build"
    /\ t.at \in {"generating", "merging"} => job.kind = "generate"
    /\ job = NewJob("build") /\ t.at \in Drafted =>
         /\ InHistory(t.out, h)
         /\ ~HasTables(t.out.doc) => t.out.metrics = {}
    /\ job = NewJob("generate") /\ t.at \in Drafted => t.over.version = over.version + 1
    /\ job = NewJob("generate") /\ t.at \in Drafted \ {"drafted"} =>
         t.out.version = t.over.version /\ t.out.metrics \subseteq t.over.metrics

\* h remembers the metrics of every version of the overlay since the last
\* clearing, and the catalogs at hand agree with it.
Remembered(h) ==
    /\ h \in [Nat -> SUBSET Metrics]
    /\ h[overlay.version] = overlay.metrics
    /\ pub # None => InHistory(pub, h)
    /\ edit.at = "indexed" => InHistory(edit.catalog, h)
    /\ \A j \in DOMAIN jobs : DraftKnown(jobs[j], task[j], overlay, h)

\* A point of the index is of a version that had the metric, or of a draft
\* whose task will publish that version or take it out again.
Clean(m, h)  == index[m] <= overlay.version /\ m \in h[index[m]]
WrittenBy(j, m) == task[j].at \in Written /\ task[j].out.version = index[m]
Pending(m)   == \E j \in DOMAIN jobs : /\ WrittenBy(j, m) /\ jobs[j] = NewJob("generate")
                                       /\ m \in task[j].over.metrics
Dropped(m)   == \E j \in DOMAIN jobs : WrittenBy(j, m) /\ ~IsRunning(j)
Accounted(m, h) == index[m] = None \/ Clean(m, h) \/ Pending(m) \/ Dropped(m)

\* Nothing is published: there are no edits, and no generation counts.
Blank ==
    pub = None => /\ overlay = NoOverlay /\ edit.at = "idle"
                  /\ \A j \in DOMAIN jobs : jobs[j] # NewJob("generate")

\* h is such a history, and accounts for the index.
HistoryOf(h) ==
    /\ Remembered(h)
    /\ crashes = 0 /\ ~clearing => \A m \in Metrics : Accounted(m, h)

HInv ==
    /\ SInv
    /\ Blank
    /\ crashes \in Nat
    /\ \E h : HistoryOf(h)

\* Operations that go on keep their kinds; those that change have ended.
GoOn ==
    /\ DOMAIN jobs \subseteq DOMAIN jobs'
    /\ \A i \in DOMAIN jobs : /\ jobs'[i].kind = jobs[i].kind
                              /\ jobs'[i] = jobs[i] \/ ~IsRunning(i)'

\* Finishing operations lets the others go on.
LEMMA FinishGoesOn ==
    ASSUME TInv, jobs' = jobs \/ \E js, status : status \in Ends /\ Finish(js, status)
    PROVE  GoOn /\ DOMAIN jobs' = DOMAIN jobs
  <1>1. CASE jobs' = jobs
    BY <1>1 DEF GoOn
  <1>2. ASSUME NEW js, NEW status \in Ends, Finish(js, status)
        PROVE  GoOn /\ DOMAIN jobs' = DOMAIN jobs
    <2>1. /\ DOMAIN jobs' = DOMAIN jobs
          /\ \A i \in DOMAIN jobs : jobs'[i].kind = jobs[i].kind
      BY <1>2, FinishKeeps DEF TInv
    <2>2. ASSUME NEW i \in DOMAIN jobs PROVE jobs'[i] = jobs[i] \/ ~IsRunning(i)'
      <3>1. jobs'[i] = IF i \in js /\ IsRunning(i) THEN [jobs[i] EXCEPT !.status = status] ELSE jobs[i]
        BY <1>2 DEF Finish
      <3>2. jobs[i] \in Jobs
        BY TaskFacts
      <3> QED
        BY <3>1, <3>2 DEF Jobs, IsRunning, Ends
    <2> QED
      BY <2>1, <2>2 DEF GoOn
  <1> QED
    BY <1>1, <1>2

\* A draft stays known while its operation goes on or when it ends.
LEMMA DraftGoesOn ==
    ASSUME GoOn, NEW i \in DOMAIN jobs, NEW t, NEW over, NEW h, DraftKnown(jobs[i], t, over, h)
    PROVE  DraftKnown(jobs'[i], t, over, h)
  <1>1. ~IsRunning(i)' => jobs'[i] # NewJob("build") /\ jobs'[i] # NewJob("generate")
    BY DEF IsRunning, NewJob
  <1> QED
    BY <1>1 DEF GoOn, DraftKnown

\* A point stays accounted for if who wrote it keeps it or takes it out.
LEMMA StaysAccounted ==
    ASSUME GoOn, UNCHANGED overlay, NEW h, NEW m \in Metrics, Accounted(m, h),
           index'[m] \in {index[m], None},
           \A i \in DOMAIN jobs : WrittenBy(i, m) =>
              \/ index'[m] = None
              \/ /\ task'[i].at \in Written
                 /\ task'[i].out = task[i].out /\ task'[i].over = task[i].over
    PROVE  Accounted(m, h)'
  <1>1. CASE index'[m] = None
    BY <1>1 DEF Accounted
  <1>2. CASE index'[m] = index[m] /\ index'[m] # None
    <2>1. ASSUME NEW i \in DOMAIN jobs, WrittenBy(i, m)
          PROVE  /\ i \in DOMAIN jobs' /\ WrittenBy(i, m)' /\ task'[i].over = task[i].over
                 /\ jobs'[i] = jobs[i] \/ ~IsRunning(i)'
      BY <1>2, <2>1 DEF GoOn, WrittenBy
    <2>2. CASE Clean(m, h)
      BY <1>2, <2>2 DEF Accounted, Clean
    <2>3. CASE Pending(m)
      <3>1. PICK i \in DOMAIN jobs : /\ WrittenBy(i, m) /\ jobs[i] = NewJob("generate")
                                     /\ m \in task[i].over.metrics
        BY <2>3 DEF Pending
      <3>2. /\ i \in DOMAIN jobs' /\ WrittenBy(i, m)' /\ task'[i].over = task[i].over
            /\ jobs'[i] = jobs[i] \/ ~IsRunning(i)'
        BY <2>1, <3>1
      <3>3. Pending(m)' \/ Dropped(m)'
        BY <3>1, <3>2, Zenon DEF Pending, Dropped
      <3> QED
        BY <3>3 DEF Accounted
    <2>4. CASE Dropped(m)
      <3>1. PICK i \in DOMAIN jobs : WrittenBy(i, m) /\ ~IsRunning(i)
        BY <2>4 DEF Dropped
      <3>2. /\ i \in DOMAIN jobs' /\ WrittenBy(i, m)'
            /\ jobs'[i] = jobs[i] \/ ~IsRunning(i)'
        BY <2>1, <3>1
      <3>3. ~IsRunning(i)'
        BY <3>1, <3>2 DEF IsRunning
      <3>4. Dropped(m)'
        BY <3>2, <3>3, Zenon DEF Dropped
      <3> QED
        BY <3>4 DEF Accounted
    <2> QED
      BY <1>2, <2>2, <2>3, <2>4 DEF Accounted
  <1> QED
    BY <1>1, <1>2

\* A task that is replaced by one whose draft is known: the history remains.
LEMMA TaskRemembers ==
    ASSUME SInv, NEW h, HistoryOf(h),
           NEW j \in DOMAIN jobs, NEW t \in Tasks, task' = [task EXCEPT ![j] = t],
           jobs' = jobs \/ \E js, status : status \in Ends /\ Finish(js, status),
           UNCHANGED <<overlay, calls, crashes>>,
           pub' = pub \/ InHistory(pub', h),
           DraftKnown(jobs[j], t, overlay, h),
           \A m \in Metrics :
              \/ /\ index'[m] \in {index[m], None}
                 /\ WrittenBy(j, m) =>
                      \/ index'[m] = None
                      \/ t.at \in Written /\ t.out = task[j].out /\ t.over = task[j].over
              \/ Accounted(m, h)'
    PROVE  HistoryOf(h)'
  <1>1. task'[j] = t /\ \A i \in DOMAIN jobs : i # j => task'[i] = task[i]
    BY TaskSet DEF SInv, TInv
  <1>2. GoOn /\ DOMAIN jobs' = DOMAIN jobs
    BY FinishGoesOn DEF SInv
  <1>3. \A i \in DOMAIN jobs : DraftKnown(jobs'[i], task'[i], overlay, h)
    BY <1>1, <1>2, DraftGoesOn DEF HistoryOf, Remembered
  <1>4. Remembered(h)'
    BY <1>2, <1>3 DEF HistoryOf, Remembered, calls
  <1>5. ASSUME crashes = 0, ~clearing, NEW m \in Metrics PROVE Accounted(m, h)'
    <2>1. Accounted(m, h)
      BY <1>5 DEF HistoryOf
    <2>2. CASE /\ index'[m] \in {index[m], None}
               /\ WrittenBy(j, m) =>
                    \/ index'[m] = None
                    \/ t.at \in Written /\ t.out = task[j].out /\ t.over = task[j].over
      <3>1. \A i \in DOMAIN jobs : WrittenBy(i, m) =>
              \/ index'[m] = None
              \/ /\ task'[i].at \in Written
                 /\ task'[i].out = task[i].out /\ task'[i].over = task[i].over
        BY <1>1, <2>2 DEF WrittenBy
      <3> QED
        BY <1>2, <2>1, <2>2, <3>1, StaysAccounted
    <2> QED
      BY <2>2
  <1> QED
    BY <1>4, <1>5 DEF HistoryOf, calls

\* A task that only moves: out of the index only with its points.
LEMMA GotoRemembers ==
    ASSUME SInv, NEW h, HistoryOf(h),
           NEW j \in DOMAIN jobs, NEW where \in Places, Goto(j, where),
           where \notin {"drafted", "indexing", "indexed"},
           where = "publishing" => task[j].at = "indexed",
           where = "profiling" => jobs[j].kind = "build",
           where = "generating" => jobs[j].kind = "generate",
           where = "merging" => task[j].at = "generating",
           jobs' = jobs \/ \E js, status : status \in Ends /\ Finish(js, status),
           UNCHANGED <<overlay, calls, crashes>>,
           pub' = pub \/ InHistory(pub', h),
           \A m \in Metrics : /\ index'[m] \in {index[m], None}
                              /\ WrittenBy(j, m) => index'[m] = None \/ where = "publishing"
    PROVE  HistoryOf(h)'
  <1> DEFINE t == [task[j] EXCEPT !.at = where]
  <1>1. task[j] \in Tasks
    BY TaskFacts DEF SInv
  <1>2. t \in Tasks /\ t.at = where /\ t.out = task[j].out /\ t.over = task[j].over
    BY <1>1 DEF Tasks, Places
  <1>3. task' = [task EXCEPT ![j] = t]
    BY DEF Goto
  <1>4. DraftKnown(jobs[j], task[j], overlay, h)
    BY DEF HistoryOf, Remembered
  <1> HIDE DEF t
  <1>5. DraftKnown(jobs[j], t, overlay, h)
    BY <1>2, <1>4 DEF DraftKnown, Drafted
  <1>6. \A m \in Metrics :
           /\ index'[m] \in {index[m], None}
           /\ WrittenBy(j, m) =>
                \/ index'[m] = None
                \/ t.at \in Written /\ t.out = task[j].out /\ t.over = task[j].over
    BY <1>2 DEF Written
  <1> QED
    BY <1>2, <1>3, <1>5, <1>6, TaskRemembers

\* An overlay of the next version is added to the history.
WithVersion(h, over) == [h EXCEPT ![over.version] = over.metrics]

LEMMA NextVersion ==
    ASSUME SInv, NEW h, Remembered(h), NEW over \in Overlays,
           over.version = overlay.version + 1
    PROVE  /\ WithVersion(h, over) \in [Nat -> SUBSET Metrics]
           /\ WithVersion(h, over)[over.version] = over.metrics
           /\ \A v \in Nat : v <= overlay.version => WithVersion(h, over)[v] = h[v]
           /\ \A c \in Catalogs :
                Sound(c, overlay) /\ InHistory(c, h) => InHistory(c, WithVersion(h, over))
  <1> DEFINE g == WithVersion(h, over)
  <1>1. overlay.version \in Nat /\ over.version \in Nat /\ over.metrics \in SUBSET Metrics
    BY DEF SInv, TInv, TypeOK, Overlays
  <1>2. h \in [Nat -> SUBSET Metrics]
    BY DEF Remembered
  <1>3. g \in [Nat -> SUBSET Metrics] /\ g[over.version] = over.metrics
    BY <1>1, <1>2 DEF WithVersion
  <1>4. \A v \in Nat : v <= overlay.version => g[v] = h[v]
    BY <1>1, <1>2 DEF WithVersion
  <1> HIDE DEF g
  <1>5. \A c \in Catalogs : Sound(c, overlay) /\ InHistory(c, h) => InHistory(c, g)
    BY <1>4 DEF Catalogs, Sound, InHistory
  <1>6. /\ g \in [Nat -> SUBSET Metrics] /\ g[over.version] = over.metrics
        /\ \A v \in Nat : v <= overlay.version => g[v] = h[v]
        /\ \A c \in Catalogs : Sound(c, overlay) /\ InHistory(c, h) => InHistory(c, g)
    BY <1>3, <1>4, <1>5
  <1> QED
    BY <1>6 DEF g

\* A generation that commits makes its version the next of the history.
LEMMA GenerationRemembers ==
    ASSUME SInv, NEW h, HistoryOf(h), NEW j \in DOMAIN jobs,
           task[j].at = "publishing", jobs[j] = NewJob("generate"),
           pub' = task[j].out, overlay' = task[j].over, Goto(j, "committed"),
           UNCHANGED <<jobs, calls, index, crashes>>
    PROVE  \E g : HistoryOf(g)'
  <1>0. /\ task[j] \in Tasks /\ task[j].out \in Catalogs /\ task[j].over \in Overlays
        /\ overlay \in Overlays /\ index \in [Metrics -> Nat \union {None}]
    BY TaskFacts DEF SInv, TInv, TypeOK, Tasks, Drafts
  <1>1. /\ overlay'.version = overlay.version + 1 /\ task[j].out.version = overlay'.version
        /\ task[j].out.metrics \subseteq overlay'.metrics
    BY DEF HistoryOf, Remembered, DraftKnown, Drafted
  <1>o. PICK over : over = overlay'
    OBVIOUS
  <1>g. PICK g : g = WithVersion(h, over)
    OBVIOUS
  <1>2. /\ g \in [Nat -> SUBSET Metrics] /\ g[overlay'.version] = overlay'.metrics
        /\ \A v \in Nat : v <= overlay.version => g[v] = h[v]
    <2>1. Remembered(h) /\ over \in Overlays /\ over.version = overlay.version + 1
      BY <1>0, <1>1, <1>o DEF HistoryOf
    <2> QED
      BY <1>g, <1>o, <2>1, NextVersion, Zenon
  <1>3. IsRunning(j) /\ \A i \in DOMAIN jobs : IsRunning(i) => i = j
    BY DEF SInv, TInv, AtMostOne, IsRunning, NewJob
  <1> DEFINE t == [task[j] EXCEPT !.at = "committed"]
  <1>4. t \in Tasks /\ t.at = "committed"
    BY <1>0 DEF Tasks, Over
  <1>5. task' = [task EXCEPT ![j] = t]
    BY DEF Goto
  <1> HIDE DEF t
  <1>6. task'[j] = t /\ \A i \in DOMAIN jobs : i # j => task'[i] = task[i]
    BY <1>4, <1>5, TaskSet DEF SInv, TInv
  <1>7. ASSUME NEW i \in DOMAIN jobs PROVE DraftKnown(jobs[i], task'[i], overlay', g)
    <2>1. CASE i = j
      BY <1>4, <1>6, <2>1 DEF DraftKnown, Drafted
    <2>2. CASE i # j
      <3>1. jobs[i] # NewJob("build") /\ jobs[i] # NewJob("generate")
        BY <1>3, <2>2 DEF IsRunning, NewJob
      <3>2. DraftKnown(jobs[i], task[i], overlay, h)
        BY DEF HistoryOf, Remembered
      <3> QED
        BY <1>6, <2>2, <3>1, <3>2 DEF DraftKnown
    <2> QED
      BY <2>1, <2>2
  <1>8. InHistory(pub', g)
    <2>1. Fits(task[j].out, task[j].over)
      BY DEF SInv, TaskSound, TaskFits, NewJob
    <2> QED
      BY <1>2, <2>1 DEF Fits, InHistory
  <1>9. edit.at = "idle"
    <2>1. Drafting
      BY <1>3 DEF Drafting, Generates, NewJob, Drafted
    <2> QED
      BY <2>1 DEF SInv, EditSound
  <1>10. Remembered(g)'
    BY <1>2, <1>7, <1>8, <1>9 DEF Remembered, calls
  <1>11. ASSUME crashes = 0, ~clearing, NEW m \in Metrics PROVE Accounted(m, g)'
    <2>1. Accounted(m, h) /\ index'[m] = index[m] /\ index[m] \in Nat \union {None}
      BY <1>0, <1>11 DEF HistoryOf
    <2>2. CASE index[m] = None
      BY <2>1, <2>2 DEF Accounted
    <2>3. CASE index[m] \in Nat /\ Clean(m, h)
      <3>1. index[m] <= overlay.version /\ g[index[m]] = h[index[m]]
        BY <1>2, <2>3 DEF Clean
      <3>2. index[m] <= overlay'.version
        BY <1>0, <1>1, <2>3, <3>1 DEF Overlays
      <3>3. Clean(m, g)'
        BY <2>1, <2>3, <3>1, <3>2 DEF Clean
      <3> QED
        BY <3>3 DEF Accounted
    <2>4. CASE Pending(m)
      <3>1. PICK i \in DOMAIN jobs : /\ WrittenBy(i, m) /\ jobs[i] = NewJob("generate")
                                     /\ m \in task[i].over.metrics
        BY <2>4 DEF Pending
      <3>2. i = j
        BY <1>3, <3>1 DEF IsRunning, NewJob
      <3>3. index[m] = overlay'.version /\ m \in overlay'.metrics
        BY <1>1, <3>1, <3>2 DEF WrittenBy
      <3>4. overlay'.version \in Nat
        BY <1>0 DEF Overlays
      <3>5. Clean(m, g)'
        BY <1>2, <2>1, <3>3, <3>4 DEF Clean
      <3> QED
        BY <3>5 DEF Accounted
    <2>5. CASE Dropped(m)
      <3>1. PICK i \in DOMAIN jobs : WrittenBy(i, m) /\ ~IsRunning(i)
        BY <2>5 DEF Dropped
      <3>2. i # j
        BY <1>3, <3>1
      <3>3. WrittenBy(i, m)' /\ ~IsRunning(i)' /\ i \in DOMAIN jobs'
        BY <1>6, <2>1, <3>1, <3>2 DEF WrittenBy, IsRunning
      <3>4. Dropped(m)'
        BY <3>3, Zenon DEF Dropped
      <3> QED
        BY <3>4 DEF Accounted
    <2> QED
      BY <2>1, <2>2, <2>3, <2>4, <2>5 DEF Accounted
  <1> QED
    BY <1>10, <1>11 DEF HistoryOf, calls

\* What indexing a draft writes is accounted for until the task goes on.
LEMMA IndexDraftRemembers ==
    ASSUME SInv, NEW h, HistoryOf(h), NEW j \in DOMAIN jobs, IndexDraft(j)
    PROVE  HistoryOf(h)'
  <1> DEFINE t == [task[j] EXCEPT !.at = "indexed"]
             out == task[j].out
  <1>1. /\ task[j] \in Tasks /\ out \in Catalogs /\ task[j].over \in Overlays /\ jobs[j] \in Jobs
        /\ overlay \in Overlays /\ index \in [Metrics -> Nat \union {None}]
        /\ task[j].at = "indexing"
    BY TaskFacts DEF SInv, TInv, TypeOK, Tasks, Drafts, IndexDraft
  <1>2. t \in Tasks /\ t.at = "indexed" /\ t.out = out /\ t.over = task[j].over
    BY <1>1 DEF Tasks
  <1>3. task' = [task EXCEPT ![j] = t]
    BY DEF IndexDraft, Goto
  <1> HIDE DEF t
  <1>4. /\ DraftKnown(jobs[j], task[j], overlay, h) /\ TaskFits(jobs[j], task[j], overlay)
        /\ h \in [Nat -> SUBSET Metrics]
    BY DEF HistoryOf, Remembered, SInv, TaskSound
  <1>5. DraftKnown(jobs[j], t, overlay, h)
    BY <1>1, <1>2, <1>4 DEF DraftKnown, Drafted
  <1>6. UNCHANGED <<pub, overlay, jobs, calls, crashes>> /\ Reindex(out)
    BY DEF IndexDraft, docs, bounds
  <1>7. task'[j] = t /\ DOMAIN task = DOMAIN jobs
    BY <1>2, <1>3, TaskSet DEF SInv, TInv
  <1>8. ASSUME NEW m \in Metrics
        PROVE  \/ /\ index'[m] \in {index[m], None}
                  /\ WrittenBy(j, m) =>
                       \/ index'[m] = None
                       \/ t.at \in Written /\ t.out = task[j].out /\ t.over = task[j].over
               \/ Accounted(m, h)'
    <2>1. CASE index'[m] = index[m]
      BY <1>2, <2>1 DEF Written
    <2>2. CASE index'[m] # index[m]
      <3>1. m \in out.metrics /\ index'[m] = out.version
        BY <1>1, <1>6, <2>2 DEF Reindex
      <3>2. WrittenBy(j, m)'
        BY <1>2, <1>7, <3>1 DEF WrittenBy, Written
      <3>3. CASE ~IsRunning(j)
        <4>1. Dropped(m)'
          BY <1>6, <3>2, <3>3 DEF Dropped, IsRunning
        <4> QED
          BY <4>1 DEF Accounted
      <3>4. CASE jobs[j] = NewJob("build")
        <4>1. InHistory(out, h) /\ HasTables(out.doc) /\ Sound(out, overlay)
          BY <1>1, <1>4, <3>1, <3>4 DEF DraftKnown, Drafted, TaskFits
        <4>2. out.version <= overlay.version /\ m \in h[out.version]
          BY <3>1, <4>1 DEF InHistory, Sound
        <4>3. Clean(m, h)'
          BY <1>6, <3>1, <4>2 DEF Clean
        <4> QED
          BY <4>3 DEF Accounted
      <3>5. CASE jobs[j] = NewJob("generate")
        <4>1. m \in task[j].over.metrics
          BY <1>1, <1>4, <3>1, <3>5 DEF DraftKnown, Drafted
        <4>2. Pending(m)'
          BY <1>2, <1>6, <1>7, <3>2, <3>5, <4>1 DEF Pending
        <4> QED
          BY <4>2 DEF Accounted
      <3>6. IsRunning(j) => jobs[j] = NewJob("build") \/ jobs[j] = NewJob("generate")
        BY <1>1 DEF Jobs, NewJob, IsRunning
      <3> QED
        BY <3>3, <3>4, <3>5, <3>6
    <2> QED
      BY <2>1, <2>2
  <1> QED
    BY <1>2, <1>3, <1>5, <1>6, <1>8, TaskRemembers

\* Steps of a task leave a history that accounts for the index.
LEMMA StepRemembers ==
    ASSUME SInv, Blank, NEW h, HistoryOf(h), NEW j \in DOMAIN jobs, Step(j)
    PROVE  \E g : HistoryOf(g)'
  <1> USE DEF Places, Over
  <1>0. /\ task[j] \in Tasks /\ jobs[j] \in Jobs /\ j \in 1..MaxJobs
        /\ task[j].at \in Drafts => task[j].out \in Catalogs
    BY TaskFacts DEF SInv
  <1>d. pub \in Catalogs \union {None} /\ gen \in Docs /\ overlay \in Overlays
    BY DEF SInv, TInv, TypeOK
  <1>k. DraftKnown(jobs[j], task[j], overlay, h)
    BY DEF HistoryOf, Remembered
  <1>h. h[overlay.version] = overlay.metrics /\ (pub # None => InHistory(pub, h))
    BY DEF HistoryOf, Remembered
  <1>1. CASE Begin(j)
    <2>1. /\ task[j].at = "queued" /\ UNCHANGED <<pub, overlay, jobs, calls, index, crashes>>
          /\ \E where \in {"profiling", "generating", "failing"} :
                /\ Goto(j, where)
                /\ where = "profiling" => jobs[j].kind = "build"
                /\ where = "generating" => jobs[j].kind = "generate"
      BY <1>0, <1>1 DEF Begin, Advance, docs, bounds, Jobs
    <2>2. HistoryOf(h)'
      BY <2>1, GotoRemembers DEF WrittenBy, Written
    <2> QED
      BY <2>2
  <1>2. CASE Profile(j)
    <2>1. PICK failed \in BOOLEAN :
            task' = [task EXCEPT ![j].at   = "drafted",
                                 ![j].over = overlay,
                                 ![j].out  = Published([profile |-> j, failed |-> failed], overlay)]
      BY <1>2 DEF Profile
    <2> DEFINE out == Published([profile |-> j, failed |-> failed], overlay)
               t   == [task[j] EXCEPT !.at = "drafted", !.over = overlay, !.out = out]
    <2>2. [profile |-> j, failed |-> failed] \in Docs
      BY <1>0 DEF Docs
    <2>3. /\ out \in Catalogs /\ InHistory(out, h)
          /\ ~HasTables(out.doc) => out.metrics = {}
      <3>1. out \in Catalogs /\ Fits(out, overlay)
        BY <1>d, <2>2, PublishedType
      <3>2. ~HasTables(out.doc) => out.metrics = {}
        BY DEF Published
      <3> HIDE DEF out
      <3> QED
        BY <1>h, <3>1, <3>2 DEF Fits, InHistory
    <2>4. task' = [task EXCEPT ![j] = t]
      BY <2>1
    <2> HIDE DEF out
    <2>5. t \in Tasks /\ t.out = out /\ t.at = "drafted"
      BY <1>0, <1>d, <2>3 DEF Tasks
    <2>7. UNCHANGED <<pub, overlay, jobs, calls, index, crashes>> /\ task[j].at = "profiling"
      BY <1>2 DEF Profile, docs, bounds
    <2> HIDE DEF t
    <2>6. DraftKnown(jobs[j], t, overlay, h)
      BY <1>k, <2>3, <2>5, <2>7 DEF DraftKnown, Drafted, NewJob
    <2>8. HistoryOf(h)'
      BY <2>4, <2>5, <2>6, <2>7, TaskRemembers DEF WrittenBy, Written
    <2> QED
      BY <2>8
  <1>3. CASE Raise(j)
    <2>1. /\ task[j].at \notin Written /\ UNCHANGED <<pub, overlay, jobs, calls, index, crashes>>
          /\ Goto(j, "failing")
      BY <1>3 DEF Raise, docs, bounds, Written
    <2>2. HistoryOf(h)'
      BY <2>1, GotoRemembers DEF WrittenBy
    <2> QED
      BY <2>2
  <1>4. CASE EndGenerating(j)
    <2>1. /\ task[j].at = "generating" /\ UNCHANGED <<pub, overlay, jobs, calls, index, crashes>>
          /\ \E where \in {"merging", "failing"} : Goto(j, where)
      BY <1>4 DEF EndGenerating, Advance, docs, bounds
    <2>2. HistoryOf(h)'
      BY <2>1, GotoRemembers DEF WrittenBy, Written
    <2> QED
      BY <2>2
  <1>5. CASE Merge(j)
    <2> DEFINE rebuilt == [profile |-> j, failed |-> FALSE]
               catalog == IF pub = None THEN Published(rebuilt, overlay) ELSE pub
    <2>1. PICK new \in SUBSET Metrics :
            task' = [task EXCEPT ![j].at   = "drafted",
                                 ![j].over = [version |-> overlay.version + 1,
                                              metrics |-> overlay.metrics \union new],
                                 ![j].out  = catalog]
      BY <1>5 DEF Merge
    <2> DEFINE over == [version |-> overlay.version + 1, metrics |-> overlay.metrics \union new]
               t    == [task[j] EXCEPT !.at = "drafted", !.over = over, !.out = catalog]
    <2>2. rebuilt \in Docs
      BY <1>0 DEF Docs
    <2>3. catalog \in Catalogs /\ InHistory(catalog, h)
      <3>1. CASE pub = None
        <4>1. Published(rebuilt, overlay) \in Catalogs /\ Fits(Published(rebuilt, overlay), overlay)
          BY <1>d, <2>2, PublishedType
        <4>2. InHistory(Published(rebuilt, overlay), h)
          BY <1>h, <4>1 DEF Fits, InHistory
        <4> QED
          BY <3>1, <4>1, <4>2
      <3>2. CASE pub # None
        BY <1>d, <1>h, <3>2
      <3> QED
        BY <3>1, <3>2
    <2>4. over \in Overlays /\ over.version = overlay.version + 1
      BY <1>d DEF Overlays
    <2>5. task' = [task EXCEPT ![j] = t]
      BY <2>1
    <2>6. /\ pub' = catalog /\ UNCHANGED <<overlay, jobs, calls, crashes>> /\ task[j].at = "merging"
      BY <1>5 DEF Merge, bounds
    <2>7. index' = index
      <3>1. CASE pub # None
        BY <1>5, <3>1 DEF Merge
      <3>2. CASE pub = None
        <4>1. overlay = NoOverlay /\ Reindex(catalog)
          BY <1>5, <3>2 DEF Merge, Blank
        <4>2. catalog.metrics = {}
          BY <3>2, <4>1 DEF Published, NoOverlay
        <4>3. index' = [m \in Metrics |-> index[m]] \/ index' = index
          BY <4>1, <4>2 DEF Reindex
        <4> QED
          BY <4>3 DEF SInv, TInv, TypeOK
      <3> QED
        BY <3>1, <3>2
    <2> HIDE DEF catalog, over
    <2>8. t \in Tasks /\ t.out = catalog /\ t.at = "drafted" /\ t.over = over
      BY <1>0, <2>3, <2>4 DEF Tasks
    <2> HIDE DEF t
    <2>9. DraftKnown(jobs[j], t, overlay, h)
      BY <1>k, <2>4, <2>6, <2>8 DEF DraftKnown, Drafted, NewJob
    <2>10. HistoryOf(h)'
      BY <2>3, <2>5, <2>6, <2>7, <2>8, <2>9, TaskRemembers DEF WrittenBy, Written
    <2> QED
      BY <2>10
  <1>6. CASE Draft(j)
    <2>0. UNCHANGED <<pub, overlay, jobs, calls, index, crashes>> /\ task[j].at = "drafted"
      BY <1>6 DEF Draft, docs, bounds
    <2>1. CASE ~IsRunning(j)
      <3>1. Goto(j, "failing")
        BY <1>6, <2>1 DEF Draft
      <3>2. HistoryOf(h)'
        BY <2>0, <3>1, GotoRemembers DEF WrittenBy, Written
      <3> QED
        BY <3>2
    <2>2. CASE IsRunning(j)
      <3> DEFINE out == IF jobs[j].kind = "build" THEN task[j].out
                        ELSE Published(Generated(task[j].out), task[j].over)
                 t   == [task[j] EXCEPT !.at = "indexing", !.out = out]
      <3>1. task[j].out \in Catalogs /\ task[j].over \in Overlays
        BY <1>0, <2>0 DEF Drafts, Tasks
      <3>2. /\ out \in Catalogs
            /\ jobs[j].kind = "build" => out = task[j].out
            /\ jobs[j].kind = "generate" =>
                 out.version = task[j].over.version /\ out.metrics \subseteq task[j].over.metrics
        <4>1. Generated(task[j].out) \in Docs
          BY <3>1, GeneratedType DEF SInv, TInv
        <4>2. Published(Generated(task[j].out), task[j].over) \in Catalogs
          BY <3>1, <4>1, PublishedType
        <4>3. /\ Published(Generated(task[j].out), task[j].over).version = task[j].over.version
              /\ Published(Generated(task[j].out), task[j].over).metrics
                   \subseteq task[j].over.metrics
          BY DEF Published
        <4> QED
          BY <3>1, <4>2, <4>3
      <3>3. task' = [task EXCEPT ![j] = t]
        BY <1>6, <2>2 DEF Draft
      <3> HIDE DEF out
      <3>4. t \in Tasks /\ t.out = out /\ t.over = task[j].over /\ t.at = "indexing"
        BY <1>0, <3>2 DEF Tasks
      <3> HIDE DEF t
      <3>5. DraftKnown(jobs[j], t, overlay, h)
        BY <1>k, <2>0, <3>2, <3>4 DEF DraftKnown, Drafted, NewJob
      <3>6. HistoryOf(h)'
        BY <2>0, <3>3, <3>4, <3>5, TaskRemembers DEF WrittenBy, Written
      <3> QED
        BY <3>6
    <2> QED
      BY <2>1, <2>2
  <1>7. CASE IndexDraft(j)
    <2>1. HistoryOf(h)'
      BY <1>7, IndexDraftRemembers
    <2> QED
      BY <2>1
  <1>8. CASE AfterIndex(j)
    <2>1. UNCHANGED <<pub, overlay, jobs, calls, crashes>> /\ task[j].at = "indexed"
      BY <1>8 DEF AfterIndex, docs, bounds
    <2>2. \E where \in {"publishing", "failing"} :
            /\ Goto(j, where)
            /\ \A m \in Metrics : /\ index'[m] \in {index[m], None}
                                  /\ WrittenBy(j, m) => index'[m] = None \/ where = "publishing"
      BY <1>8 DEF AfterIndex, DropVersion, WrittenBy
    <2>3. HistoryOf(h)'
      BY <2>1, <2>2, GotoRemembers
    <2> QED
      BY <2>3
  <1>9. CASE Commit(j)
    <2>0. /\ task[j].at = "publishing" /\ task[j].out \in Catalogs
          /\ UNCHANGED <<jobs, calls, crashes>>
      BY <1>0, <1>9 DEF Commit, Drafts, bounds
    <2>1. CASE ~IsRunning(j)
      <3>1. UNCHANGED <<pub, overlay>> /\ Goto(j, "failing")
        BY <1>9, <2>1 DEF Commit, docs
      <3>2. \A m \in Metrics : /\ index'[m] \in {index[m], None}
                               /\ WrittenBy(j, m) => index'[m] = None
        BY <1>9, <2>1 DEF Commit, DropVersion, DropIndex, WrittenBy
      <3>3. HistoryOf(h)'
        BY <2>0, <3>1, <3>2, GotoRemembers
      <3> QED
        BY <3>3
    <2>2. CASE jobs[j] = NewJob("build")
      <3>1. /\ pub' = task[j].out /\ UNCHANGED <<overlay, index>> /\ Goto(j, "committed")
        BY <1>9, <2>2 DEF Commit, CommitBuild, IsRunning, NewJob
      <3>2. InHistory(pub', h)
        BY <1>k, <2>0, <2>2, <3>1 DEF DraftKnown, Drafted
      <3> DEFINE t == [task[j] EXCEPT !.at = "committed"]
      <3>3. t \in Tasks /\ t.at = "committed"
        BY <1>0 DEF Tasks
      <3>4. task' = [task EXCEPT ![j] = t]
        BY <3>1 DEF Goto
      <3> HIDE DEF t
      <3>5. DraftKnown(jobs[j], t, overlay, h)
        BY <3>3 DEF DraftKnown, Drafted
      <3>6. ASSUME crashes = 0, ~clearing, NEW m \in Metrics PROVE Accounted(m, h)'
        <4>1. Accounted(m, h)
          BY <3>6 DEF HistoryOf
        <4>2. task'[j] = t /\ \A i \in DOMAIN jobs : i # j => task'[i] = task[i]
          BY <3>3, <3>4, TaskSet DEF SInv, TInv
        <4>3. CASE index[m] = None
          BY <3>1, <4>3 DEF Accounted
        <4>4. CASE Clean(m, h)
          <5>1. Clean(m, h)'
            BY <3>1, <4>4 DEF Clean
          <5> QED
            BY <5>1 DEF Accounted
        <4>5. CASE Pending(m)
          <5>1. PICK i \in DOMAIN jobs : jobs[i] = NewJob("generate")
            BY <4>5 DEF Pending
          <5> QED
            BY <2>2, <5>1 DEF SInv, TInv, AtMostOne, IsRunning, NewJob
        <4>6. CASE Dropped(m)
          <5>1. PICK i \in DOMAIN jobs : WrittenBy(i, m) /\ ~IsRunning(i)
            BY <4>6 DEF Dropped
          <5>2. i # j
            BY <2>2, <5>1 DEF IsRunning, NewJob
          <5>3. WrittenBy(i, m)' /\ ~IsRunning(i)' /\ i \in DOMAIN jobs'
            BY <2>0, <3>1, <4>2, <5>1, <5>2 DEF WrittenBy, IsRunning
          <5>4. Dropped(m)'
            BY <5>3, Zenon DEF Dropped
          <5> QED
            BY <5>4 DEF Accounted
        <4> QED
          BY <4>1, <4>3, <4>4, <4>5, <4>6 DEF Accounted
      <3>7. Remembered(h)'
        <4>1. task'[j] = t /\ \A i \in DOMAIN jobs : i # j => task'[i] = task[i]
          BY <3>3, <3>4, TaskSet DEF SInv, TInv
        <4>2. \A i \in DOMAIN jobs : DraftKnown(jobs[i], task'[i], overlay, h)
          BY <3>5, <4>1 DEF HistoryOf, Remembered
        <4> QED
          BY <2>0, <3>1, <3>2, <4>2 DEF HistoryOf, Remembered, calls
      <3>8. HistoryOf(h)'
        BY <2>0, <3>6, <3>7 DEF HistoryOf, calls
      <3> QED
        BY <3>8
    <2>3. CASE jobs[j] = NewJob("generate")
      <3>1. /\ pub' = task[j].out /\ overlay' = task[j].over /\ UNCHANGED index
            /\ Goto(j, "committed")
        BY <1>9, <2>3 DEF Commit, CommitGeneration, IsRunning, NewJob
      <3> QED
        BY <2>0, <2>3, <3>1, GenerationRemembers
    <2>4. IsRunning(j) => jobs[j] = NewJob("build") \/ jobs[j] = NewJob("generate")
      BY <1>0 DEF Jobs, NewJob, IsRunning
    <2> QED
      BY <2>1, <2>2, <2>3, <2>4
  <1>10. CASE Complete(j)
    <2>1. /\ UNCHANGED <<pub, overlay, calls, index, crashes>> /\ task[j].at = "committed"
          /\ \E where \in {"done", "failing"} : Goto(j, where)
          /\ jobs' = jobs \/ \E js, status : status \in Ends /\ Finish(js, status)
      BY <1>10 DEF Complete, docs, bounds, Ends
    <2>2. HistoryOf(h)'
      BY <2>1, GotoRemembers DEF WrittenBy, Written
    <2> QED
      BY <2>2
  <1>11. CASE Fail(j)
    <2> DEFINE marks == IF jobs[j].kind = "build" THEN task[j].marks + 1 ELSE Handlers
    <2>1. /\ Finish({j}, "failed") /\ "failed" \in Ends /\ task[j].at = "failing"
          /\ UNCHANGED <<pub, overlay, calls, index, crashes>>
      BY <1>11 DEF Fail, Ends, docs, bounds
    <2>2. marks \in Nat
      BY <1>0 DEF Tasks, Handlers
    <2>3. \E t \in Tasks : task' = [task EXCEPT ![j] = t] /\ t.at \in {"marking", "done", "failing"}
      <3>1. CASE jobs[j].kind = "build" /\ pub # None /\ Unbuilt(pub)
        <4> DEFINE t == [task[j] EXCEPT !.at = "marking", !.marks = marks, !.out = pub]
        <4>1. task' = [task EXCEPT ![j] = t]
          BY <1>11, <3>1 DEF Fail
        <4> HIDE DEF marks
        <4>2. t \in Tasks /\ t.at = "marking"
          BY <1>0, <1>d, <2>2, <3>1 DEF Tasks
        <4> QED
          BY <4>1, <4>2
      <3>2. CASE ~(jobs[j].kind = "build" /\ pub # None /\ Unbuilt(pub))
        <4> DEFINE at == IF marks = Handlers THEN "done" ELSE task[j].at
                   t  == [task[j] EXCEPT !.at = at, !.marks = marks]
        <4>1. task' = [task EXCEPT ![j] = t]
          BY <1>11, <3>2 DEF Fail
        <4>2. at \in {"done", "failing"}
          BY <2>1
        <4> HIDE DEF marks, at
        <4>3. t \in Tasks /\ t.at = at
          BY <1>0, <2>2, <4>2 DEF Tasks
        <4> QED
          BY <4>1, <4>2, <4>3
      <3> QED
        BY <3>1, <3>2
    <2>4. PICK t \in Tasks : /\ task' = [task EXCEPT ![j] = t]
                             /\ t.at \in {"marking", "done", "failing"}
      BY <2>3
    <2>5. DraftKnown(jobs[j], t, overlay, h)
      BY <2>4 DEF DraftKnown, Drafted
    <2>6. HistoryOf(h)'
      BY <2>1, <2>4, <2>5, TaskRemembers DEF WrittenBy, Written
    <2> QED
      BY <2>6
  <1>12. CASE MarkFailed(j)
    <2>1. task[j].out \in Catalogs /\ task[j].at = "marking"
      BY <1>0, <1>12 DEF MarkFailed, Drafts
    <2>2. ~HasTables(task[j].out.doc)
      BY <2>1 DEF SInv, TaskSound, TaskFits
    <2>3. pub'.doc = task[j].out.doc
      BY <1>12, <2>1 DEF MarkFailed, Catalogs
    <2>4. InHistory(pub', h)
      BY <2>2, <2>3 DEF InHistory
    <2>5. UNCHANGED <<overlay, jobs, calls, index, crashes>>
          /\ \E where \in {"done", "failing"} : Goto(j, where)
      BY <1>12 DEF MarkFailed, bounds
    <2>6. HistoryOf(h)'
      BY <2>1, <2>4, <2>5, GotoRemembers DEF WrittenBy, Written
    <2> QED
      BY <2>6
  <1> QED
    BY <1>1, <1>2, <1>3, <1>4, <1>5, <1>6, <1>7, <1>8, <1>9, <1>10, <1>11, <1>12 DEF Step

\* A step that lets operations and tasks go on, keeps the overlay, and touches
\* the index only with points of the history, leaves the history.
LEMMA OthersRemember ==
    ASSUME SInv, NEW h, HistoryOf(h), GoOn, UNCHANGED overlay,
           \A i \in DOMAIN jobs : task'[i] = task[i],
           \A i \in DOMAIN jobs' \ DOMAIN jobs : task'[i] = Queued,
           pub' # None => InHistory(pub', h),
           edit'.at = "indexed" => InHistory(edit'.catalog, h),
           crashes' = 0 /\ ~clearing' => \A m \in Metrics :
              \/ crashes = 0 /\ ~clearing /\ index'[m] \in {index[m], None}
              \/ Accounted(m, h)'
    PROVE  HistoryOf(h)'
  <1>1. ASSUME NEW i \in DOMAIN jobs' PROVE DraftKnown(jobs'[i], task'[i], overlay, h)
    <2>1. CASE i \in DOMAIN jobs
      BY <2>1, DraftGoesOn DEF HistoryOf, Remembered
    <2>2. CASE i \notin DOMAIN jobs
      BY <2>2 DEF DraftKnown, Drafted, Queued
    <2> QED
      BY <2>1, <2>2
  <1>2. Remembered(h)'
    BY <1>1 DEF HistoryOf, Remembered
  <1>3. ASSUME crashes' = 0, ~clearing', NEW m \in Metrics PROVE Accounted(m, h)'
    <2>1. CASE crashes = 0 /\ ~clearing /\ index'[m] \in {index[m], None}
      <3>1. Accounted(m, h)
        BY <2>1 DEF HistoryOf
      <3>2. \A i \in DOMAIN jobs : WrittenBy(i, m) =>
              \/ index'[m] = None
              \/ /\ task'[i].at \in Written
                 /\ task'[i].out = task[i].out /\ task'[i].over = task[i].over
        BY DEF WrittenBy
      <3> QED
        BY <2>1, <3>1, <3>2, StaysAccounted
    <2> QED
      BY <1>3, <2>1
  <1> QED
    BY <1>2, <1>3 DEF HistoryOf

\* An edit that is stored makes its version the next of the history.
LEMMA EditRemembers ==
    ASSUME SInv, NEW h, HistoryOf(h), SaveOverlay
    PROVE  \E g : HistoryOf(g)'
  <1>0. /\ pub \in Catalogs \union {None} /\ overlay \in Overlays /\ edit \in Edits
        /\ index \in [Metrics -> Nat \union {None}]
    BY DEF SInv, TInv, TypeOK
  <1>1. /\ overlay' = edit.over /\ edit.at = "loaded" /\ edit'.at = "saved"
        /\ UNCHANGED <<pub, jobs, task, clearing, index, crashes>>
    BY <1>0 DEF SaveOverlay, Edits, bounds
  <1>2. overlay'.version = overlay.version + 1 /\ overlay' \in Overlays
    BY <1>0, <1>1 DEF SInv, EditSound, Edits
  <1>o. PICK over : over = overlay'
    OBVIOUS
  <1>g. PICK g : g = WithVersion(h, over)
    OBVIOUS
  <1>3. /\ g \in [Nat -> SUBSET Metrics] /\ g[overlay'.version] = overlay'.metrics
        /\ \A v \in Nat : v <= overlay.version => g[v] = h[v]
        /\ \A c \in Catalogs : Sound(c, overlay) /\ InHistory(c, h) => InHistory(c, g)
    <2>1. Remembered(h) /\ over \in Overlays /\ over.version = overlay.version + 1
      BY <1>2, <1>o DEF HistoryOf
    <2> QED
      BY <1>g, <1>o, <2>1, NextVersion, Zenon
  <1>4. pub # None => InHistory(pub, g)
    BY <1>0, <1>3 DEF SInv, PubSound, HistoryOf, Remembered
  <1>5. \A i \in DOMAIN jobs : jobs[i] = NewJob("generate") => task[i].at \notin Drafted
    BY <1>1 DEF SInv, EditSound, Drafting, Generates, IsRunning, NewJob
  <1>6. ASSUME NEW i \in DOMAIN jobs PROVE DraftKnown(jobs[i], task[i], overlay', g)
    <2>1. DraftKnown(jobs[i], task[i], overlay, h) /\ TaskFits(jobs[i], task[i], overlay)
      BY DEF HistoryOf, Remembered, SInv, TaskSound
    <2>2. task[i].at \in Drafted => task[i].out \in Catalogs
      BY TaskFacts DEF SInv, Drafts, Drafted
    <2>3. jobs[i] = NewJob("build") /\ task[i].at \in Drafted => InHistory(task[i].out, g)
      BY <1>3, <2>1, <2>2 DEF DraftKnown, TaskFits, Drafted
    <2>4. ~(jobs[i] = NewJob("generate") /\ task[i].at \in Drafted)
      BY <1>5
    <2> QED
      BY <2>1, <2>3, <2>4 DEF DraftKnown
  <1>7. Remembered(g)'
    BY <1>1, <1>3, <1>4, <1>6 DEF Remembered
  <1>8. ASSUME crashes = 0, ~clearing, NEW m \in Metrics PROVE Accounted(m, g)'
    <2>1. Accounted(m, h) /\ index'[m] = index[m] /\ index[m] \in Nat \union {None}
      BY <1>0, <1>1, <1>8 DEF HistoryOf
    <2>2. CASE index[m] = None
      BY <2>1, <2>2 DEF Accounted
    <2>3. CASE index[m] \in Nat /\ Clean(m, h)
      <3>1. index[m] <= overlay.version /\ g[index[m]] = h[index[m]]
        BY <1>3, <2>3 DEF Clean
      <3>2. index[m] <= overlay'.version
        BY <1>0, <1>2, <2>3, <3>1 DEF Overlays
      <3>3. Clean(m, g)'
        BY <2>1, <2>3, <3>1, <3>2 DEF Clean
      <3> QED
        BY <3>3 DEF Accounted
    <2>4. ~Pending(m)
      BY <1>5 DEF Pending, WrittenBy, Written, Drafted
    <2>5. CASE Dropped(m)
      <3>1. PICK i \in DOMAIN jobs : WrittenBy(i, m) /\ ~IsRunning(i)
        BY <2>5 DEF Dropped
      <3>2. WrittenBy(i, m)' /\ ~IsRunning(i)' /\ i \in DOMAIN jobs'
        BY <1>1, <2>1, <3>1 DEF WrittenBy, IsRunning
      <3>3. Dropped(m)'
        BY <3>2, Zenon DEF Dropped
      <3> QED
        BY <3>3 DEF Accounted
    <2> QED
      BY <2>1, <2>2, <2>3, <2>4, <2>5 DEF Accounted
  <1>9. HistoryOf(g)'
    BY <1>1, <1>7, <1>8 DEF HistoryOf
  <1> QED
    BY <1>9

\* Steps that leave operations, tasks and the overlay alone.
Around == UNCHANGED <<overlay, jobs, task>>

\* Around them operations go on, and there are no new ones.
LEMMA AroundGoesOn ==
    ASSUME Around
    PROVE  /\ GoOn /\ UNCHANGED overlay
           /\ \A i \in DOMAIN jobs : task'[i] = task[i]
           /\ \A i \in DOMAIN jobs' \ DOMAIN jobs : task'[i] = Queued
  BY DEF Around, GoOn

\* The other steps leave a history that accounts for the index.
LEMMA OtherRemembers ==
    ASSUME SInv, Blank, crashes \in Nat, NEW h, HistoryOf(h), ~crossed', Next,
           ~\E j \in DOMAIN jobs : Step(j)
    PROVE  \E g : HistoryOf(g)'
  <1>d. /\ pub \in Catalogs \union {None} /\ gen \in Docs /\ overlay \in Overlays
        /\ edit \in Edits /\ (edit.at # "idle" => edit.catalog \in Catalogs)
        /\ index \in [Metrics -> Nat \union {None}]
    BY DEF SInv, TInv, TypeOK, EditLoaded
  <1>h. /\ h \in [Nat -> SUBSET Metrics] /\ h[overlay.version] = overlay.metrics
        /\ pub # None => InHistory(pub, h)
        /\ edit.at = "indexed" => InHistory(edit.catalog, h)
    BY DEF HistoryOf, Remembered
  <1>p. InHistory(Placeholder, h)
    BY DEF InHistory, Placeholder, HasTables, NoDoc
  <1>i. \A m \in Metrics : index'[m] = index[m] => index'[m] \in {index[m], None}
    OBVIOUS
  <1>1. ASSUME NEW force \in BOOLEAN, ClaimBuild(force) PROVE \E g : HistoryOf(g)'
    <2>1. /\ Around /\ UNCHANGED <<edit, clearing, index, crashes>> /\ pub' \in {pub, Placeholder}
      BY <1>1 DEF ClaimBuild, Around, bounds
    <2>2. HistoryOf(h)'
      BY <1>h, <1>p, <2>1, AroundGoesOn, OthersRemember
    <2> QED
      BY <2>2
  <1>2. CASE ClaimGeneration
    <2>1. Around /\ UNCHANGED <<pub, edit, clearing, index, crashes>>
      BY <1>2 DEF ClaimGeneration, Around, docs, bounds
    <2>2. HistoryOf(h)'
      BY <1>h, <2>1, AroundGoesOn, OthersRemember
    <2> QED
      BY <2>2
  <1>3. CASE ClaimOperation
    <2>1. UNCHANGED <<overlay, edit, clearing, index, crashes>> /\ pub' \in {pub, Placeholder}
      BY <1>3 DEF ClaimOperation, bounds
    <2>2. CASE UNCHANGED <<jobs, task>>
      <3>1. Around
        BY <2>1, <2>2 DEF Around
      <3>2. HistoryOf(h)'
        BY <1>h, <1>p, <2>1, <3>1, AroundGoesOn, OthersRemember
      <3> QED
        BY <3>2
    <2>3. CASE ~UNCHANGED <<jobs, task>>
      <3>1. /\ Supersede /\ task' = Append(task, Queued) /\ claim.kind \in {"build", "generate"}
            /\ Len(jobs) < MaxJobs
        BY <1>3, <2>3 DEF ClaimOperation, SInv, TInv, TypeOK, ClaimReady, Claims
      <3>2. /\ DOMAIN jobs' = 1..(Len(jobs) + 1)
            /\ \A j \in DOMAIN jobs : jobs'[j].kind = jobs[j].kind /\ ~IsRunning(j)'
        BY <3>1, SupersedeAdds DEF SInv
      <3>3. /\ DOMAIN jobs = 1..Len(jobs) /\ Len(task) = Len(jobs) /\ Len(jobs) \in Nat
            /\ task \in Seq(Tasks)
        BY LenProperties DEF SInv, TInv, TypeOK
      <3>4. task'[Len(jobs) + 1] = Queued /\ \A j \in DOMAIN jobs : task'[j] = task[j]
        <4>1. Queued \in Tasks
          BY CatalogAssumption DEF Queued, Tasks, Overlays, NoOverlay
        <4> QED
          BY <3>1, <3>3, <4>1
      <3>5. GoOn
        BY <3>2, <3>3 DEF GoOn
      <3>6. \A i \in DOMAIN jobs' \ DOMAIN jobs : task'[i] = Queued
        BY <3>2, <3>3, <3>4
      <3>7. HistoryOf(h)'
        BY <1>h, <1>p, <2>1, <3>4, <3>5, <3>6, OthersRemember
      <3> QED
        BY <3>7
    <2> QED
      BY <2>2, <2>3
  <1>4. ASSUME NEW metrics \in SUBSET Metrics, LoadOverlay(metrics)
        PROVE  \E g : HistoryOf(g)'
    <2>1. Around /\ UNCHANGED <<pub, clearing, index, crashes>> /\ edit'.at = "loaded"
      BY <1>4 DEF LoadOverlay, BeginEdit, Around, docs
    <2>2. HistoryOf(h)'
      BY <1>h, <2>1, AroundGoesOn, OthersRemember
    <2> QED
      BY <2>2
  <1>5. CASE ChangeConnection
    <2> DEFINE stale == [pub EXCEPT !.status = "stale"]
    <2>1. Around /\ UNCHANGED <<pub, clearing, index, crashes>> /\ pub # None
      BY <1>5 DEF ChangeConnection, BeginEdit, Around, docs
    <2>2. edit' = [NoEdit EXCEPT !.at = "indexed", !.catalog = stale]
      BY <1>5 DEF ChangeConnection
    <2>3. stale.doc = pub.doc /\ stale.version = pub.version /\ stale.metrics = pub.metrics
      BY <1>d, <2>1 DEF Catalogs
    <2> HIDE DEF stale
    <2>4. edit'.catalog = stale
      BY <2>2 DEF NoEdit
    <2>5. InHistory(stale, h)
      BY <1>h, <2>1, <2>3 DEF InHistory
    <2>6. HistoryOf(h)'
      BY <1>h, <2>1, <2>4, <2>5, AroundGoesOn, OthersRemember
    <2> QED
      BY <2>6
  <1>6. CASE SaveOverlay
    BY <1>6, EditRemembers
  <1>7. CASE Republish
    <2> DEFINE out == Published(Generated(edit.catalog), edit.over)
    <2>1. Around /\ UNCHANGED <<pub, clearing, crashes>> /\ edit.at = "saved"
      BY <1>7 DEF Republish, Around, docs, bounds
    <2>2. edit.over = overlay
      BY <2>1 DEF SInv, EditSound
    <2>3. Generated(edit.catalog) \in Docs
      BY <1>d, <2>1, GeneratedType DEF SInv, TInv
    <2>4. out \in Catalogs /\ Fits(out, overlay)
      BY <1>d, <2>2, <2>3, PublishedType
    <2>5. ~HasTables(out.doc) => out.metrics = {}
      BY DEF Published
    <2>6. edit' = [edit EXCEPT !.at = "indexed", !.catalog = out] /\ Reindex(out)
      BY <1>7 DEF Republish
    <2> HIDE DEF out
    <2>7. edit'.catalog = out /\ InHistory(out, h)
      BY <1>d, <1>h, <2>4, <2>6 DEF Edits, Fits, InHistory
    <2>8. ASSUME NEW m \in Metrics PROVE index'[m] = index[m] \/ Accounted(m, h)'
      <3>1. CASE index'[m] # index[m]
        <4>1. m \in out.metrics /\ index'[m] = out.version
          BY <2>6, <3>1 DEF Reindex
        <4>2. out.version = overlay.version /\ out.metrics = overlay.metrics
          BY <2>4, <2>5, <4>1 DEF Fits
        <4>3. Clean(m, h)'
          BY <1>d, <1>h, <2>1, <4>1, <4>2 DEF Clean, Around, Overlays
        <4> QED
          BY <4>3 DEF Accounted
      <3> QED
        BY <3>1
    <2>9. HistoryOf(h)'
      BY <1>h, <1>i, <2>1, <2>7, <2>8, AroundGoesOn, OthersRemember
    <2> QED
      BY <2>9
  <1>8. CASE SavePublished
    <2>1. /\ Around /\ UNCHANGED <<clearing, index, crashes>> /\ pub' = edit.catalog
          /\ edit.at = "indexed" /\ edit'.at = "idle"
      BY <1>8 DEF SavePublished, Around, NoEdit, bounds
    <2>2. HistoryOf(h)'
      BY <1>h, <2>1, AroundGoesOn, OthersRemember
    <2> QED
      BY <2>2
  <1>9. CASE Clear
    <2>1. /\ pub' = None /\ overlay' = NoOverlay /\ UNCHANGED <<task, edit, index, crashes>>
          /\ ~clearing /\ clearing' = (pub # None) /\ edit.at = "idle"
          /\ Finish(DOMAIN jobs, "cancelled") /\ "cancelled" \in Ends
      BY <1>9, Uncrossed DEF Clear, NoEdit, Ends
    <2>2. /\ DOMAIN jobs' = DOMAIN jobs
          /\ \A j \in DOMAIN jobs : jobs'[j].kind = jobs[j].kind /\ ~IsRunning(j)'
      BY <2>1, FinishKeeps DEF SInv, TInv
    <2>3. CASE pub = None
      <3>1. GoOn
        BY <2>2 DEF GoOn
      <3>2. UNCHANGED <<overlay, clearing>>
        BY <2>1, <2>3 DEF Blank, SInv, TInv, TypeOK
      <3>3. HistoryOf(h)'
        BY <1>i, <2>1, <2>2, <3>1, <3>2, OthersRemember
      <3> QED
        BY <3>3
    <2>4. CASE pub # None
      <3>1. PICK g : g = [v \in Nat |-> {}]
        OBVIOUS
      <3>2. g \in [Nat -> SUBSET Metrics] /\ g[overlay'.version] = overlay'.metrics
        BY <2>1, <3>1 DEF NoOverlay
      <3>3. ASSUME NEW i \in DOMAIN jobs PROVE DraftKnown(jobs'[i], task[i], overlay', g)
        <4>1. DraftKnown(jobs[i], task[i], overlay, h)
          BY DEF HistoryOf, Remembered
        <4>2. jobs'[i] # NewJob("build") /\ jobs'[i] # NewJob("generate")
          BY <2>2 DEF NewJob, IsRunning
        <4> QED
          BY <2>2, <4>1, <4>2 DEF DraftKnown
      <3>4. Remembered(g)'
        BY <2>1, <2>2, <3>2, <3>3 DEF Remembered
      <3>5. HistoryOf(g)'
        BY <2>1, <2>4, <3>4 DEF HistoryOf
      <3> QED
        BY <3>5
    <2> QED
      BY <2>3, <2>4
  <1>10. CASE ClearIndex
    <2>1. Around /\ UNCHANGED <<pub, edit, crashes>> /\ DropIndex
      BY <1>10 DEF ClearIndex, Around, docs, bounds
    <2>2. \A m \in Metrics : Accounted(m, h)'
      BY <2>1 DEF DropIndex, Accounted
    <2>3. HistoryOf(h)'
      BY <1>h, <2>1, <2>2, AroundGoesOn, OthersRemember
    <2> QED
      BY <2>3
  <1>11. CASE Interrupt
    <2>1. UNCHANGED <<pub, overlay, task, edit, clearing, index, crashes>>
      BY <1>11 DEF Interrupt, docs, calls, bounds
    <2>2. Finish({Len(jobs)}, "interrupted") /\ "interrupted" \in Ends
      BY <1>11 DEF Interrupt, Ends
    <2>3. GoOn /\ DOMAIN jobs' = DOMAIN jobs
      BY <2>2, FinishGoesOn DEF SInv
    <2>4. HistoryOf(h)'
      BY <1>h, <2>1, <2>3, OthersRemember
    <2> QED
      BY <2>4
  <1>12. CASE Crash
    <2>1. UNCHANGED <<pub, overlay, jobs>> /\ edit'.at = "idle" /\ crashes' # 0
      <3>1. crashes' = crashes + 1
        BY <1>12 DEF Crash
      <3> QED
        BY <1>12, <3>1 DEF Crash, docs, NoEdit
    <2>2. DOMAIN task = DOMAIN jobs
      BY LenProperties DEF SInv, TInv, TypeOK
    <2>3. \A j \in DOMAIN jobs : task'[j].at \in Over
      BY <1>12, <2>2 DEF Crash, Queued, Over
    <2>4. Remembered(h)'
      BY <1>h, <2>1, <2>3 DEF Remembered, DraftKnown, Drafted, Over
    <2>5. HistoryOf(h)'
      BY <2>1, <2>4 DEF HistoryOf
    <2> QED
      BY <2>5
  <1>e. \/ \E m \in Metrics, added \in BOOLEAN : EditMetric(m, added)
        \/ \E new \in SUBSET Metrics : GenerateAtOnce(new)
        => \E g : HistoryOf(g)'
    BY <1>4, EditsLoad DEF SInv, TInv
  <1> QED
    BY <1>1, <1>2, <1>3, <1>e, <1>5, <1>6, <1>7, <1>8, <1>9, <1>10, <1>11, <1>12 DEF Next, Editing

\* Steps of a task leave a catalog published, and start no generation.
LEMMA StepBlank ==
    ASSUME SInv, Blank, NEW j \in DOMAIN jobs, Step(j)
    PROVE  Blank'
  <1>0. /\ task[j].at \in Drafts => task[j].out \in Catalogs
        /\ j \in 1..MaxJobs /\ overlay \in Overlays
    BY TaskFacts DEF SInv, TInv, TypeOK
  <1>1. edit' = edit
    BY DEF Step, Begin, Advance, Profile, Raise, EndGenerating, Merge, Draft, IndexDraft,
           AfterIndex, Commit, Complete, Fail, MarkFailed, calls
  <1>2. jobs' = jobs \/ \E js, status : status \in Ends /\ Finish(js, status)
    BY DEF Step, Begin, Advance, Profile, Raise, EndGenerating, Merge, Draft, IndexDraft,
           AfterIndex, Commit, Complete, Fail, MarkFailed, Ends
  <1>3. pub' \in Catalogs \/ UNCHANGED <<pub, overlay>>
    <2>1. CASE Merge(j)
      <3>1. [profile |-> j, failed |-> FALSE] \in Docs
        BY <1>0 DEF Docs
      <3>2. Published([profile |-> j, failed |-> FALSE], overlay) \in Catalogs
        BY <1>0, <3>1, PublishedType
      <3> QED
        BY <2>1, <3>2 DEF Merge
    <2>2. CASE Commit(j)
      BY <1>0, <2>2 DEF Commit, CommitBuild, CommitGeneration, Drafts, docs
    <2>3. CASE MarkFailed(j)
      BY <1>0, <2>3 DEF MarkFailed, Drafts, Catalogs
    <2>4. CASE ~(Merge(j) \/ Commit(j) \/ MarkFailed(j))
      BY <2>4 DEF Step, Begin, Advance, Profile, Raise, EndGenerating, Draft, IndexDraft,
                  AfterIndex, Complete, Fail, docs
    <2> QED
      BY <2>1, <2>2, <2>3, <2>4
  <1>4. GoOn /\ DOMAIN jobs' = DOMAIN jobs
    BY <1>2, FinishGoesOn DEF SInv
  <1>5. ASSUME pub = None PROVE \A i \in DOMAIN jobs' : jobs'[i] # NewJob("generate")
    BY <1>4, <1>5 DEF Blank, GoOn, IsRunning, NewJob
  <1> QED
    BY <1>1, <1>3, <1>5, NoneAssumption DEF Blank

\* So do the other steps, except that clearing leaves nothing at all.
LEMMA OtherBlank ==
    ASSUME SInv, Blank, ~crossed', Next, ~\E j \in DOMAIN jobs : Step(j)
    PROVE  Blank'
  <1>d. /\ pub \in Catalogs \union {None} /\ (edit.at # "idle" => edit.catalog \in Catalogs)
        /\ None \notin Catalogs
    BY NoneAssumption DEF SInv, TInv, TypeOK, EditLoaded
  <1>p. Placeholder # None
    <2>1. Placeholder \in Catalogs
      BY CatalogAssumption DEF Placeholder, Catalogs, Docs, NoDoc
    <2> QED
      BY <1>d, <2>1
  <1>1. ASSUME NEW force \in BOOLEAN, ClaimBuild(force) PROVE Blank'
    BY <1>1, <1>p DEF ClaimBuild, Blank
  <1>2. CASE ClaimGeneration
    BY <1>2 DEF ClaimGeneration, Available, Blank, docs
  <1>3. CASE ClaimOperation
    <2>1. CASE UNCHANGED <<jobs, task>>
      BY <1>3, <1>p, <2>1 DEF ClaimOperation, Blank
    <2>2. CASE ~UNCHANGED <<jobs, task>>
      <3>1. Supersede /\ claim.kind \in {"build", "generate"} /\ Len(jobs) < MaxJobs
        BY <1>3, <2>2 DEF ClaimOperation, SInv, TInv, TypeOK, ClaimReady, Claims
      <3>2. /\ DOMAIN jobs' = 1..(Len(jobs) + 1)
            /\ jobs'[Len(jobs) + 1] = NewJob(claim.kind)
            /\ \A j \in DOMAIN jobs : ~IsRunning(j)'
        BY <3>1, SupersedeAdds DEF SInv
      <3>3. DOMAIN jobs = 1..Len(jobs) /\ Len(jobs) \in Nat
        BY LenProperties DEF SInv, TInv, TypeOK
      <3>4. ASSUME pub' = None PROVE claim.kind = "build"
        BY <1>3, <1>p, <3>1, <3>4 DEF ClaimOperation
      <3>5. ASSUME pub' = None PROVE \A j \in DOMAIN jobs' : jobs'[j] # NewJob("generate")
        BY <3>2, <3>3, <3>4, <3>5 DEF NewJob, IsRunning
      <3> QED
        BY <1>3, <1>p, <3>5 DEF ClaimOperation, Blank
    <2> QED
      BY <2>1, <2>2
  <1>4. ASSUME NEW metrics \in SUBSET Metrics, LoadOverlay(metrics) PROVE Blank'
    BY <1>4 DEF LoadOverlay, BeginEdit, Blank, docs
  <1>5. CASE ChangeConnection
    BY <1>5 DEF ChangeConnection, BeginEdit, Blank, docs
  <1>6. CASE Editing
    BY <1>6, <1>d DEF Editing, SaveOverlay, Republish, SavePublished, Blank, docs
  <1>7. CASE Clear
    <2>1. Finish(DOMAIN jobs, "cancelled") /\ "cancelled" \in Ends
      BY <1>7 DEF Clear, Ends
    <2>2. DOMAIN jobs' = DOMAIN jobs /\ \A j \in DOMAIN jobs : ~IsRunning(j)'
      BY <2>1, FinishKeeps DEF SInv, TInv
    <2> QED
      BY <1>7, <2>2, Uncrossed DEF Clear, Blank, NoEdit, NewJob, IsRunning
  <1>8. CASE ClearIndex
    BY <1>8 DEF ClearIndex, Blank, docs
  <1>9. CASE Interrupt
    <2>1. Finish({Len(jobs)}, "interrupted") /\ "interrupted" \in Ends
      BY <1>9 DEF Interrupt, Ends
    <2>2. GoOn /\ DOMAIN jobs' = DOMAIN jobs
      BY <2>1, FinishGoesOn DEF SInv
    <2> QED
      BY <1>9, <2>2 DEF Interrupt, Blank, GoOn, IsRunning, NewJob, docs, calls
  <1>10. CASE Crash
    BY <1>10 DEF Crash, Blank, NoEdit, docs
  <1>e. \/ \E m \in Metrics, added \in BOOLEAN : EditMetric(m, added)
        \/ \E new \in SUBSET Metrics : GenerateAtOnce(new)
        => Blank'
    BY <1>4, EditsLoad DEF SInv, TInv
  <1> QED
    BY <1>1, <1>2, <1>3, <1>e, <1>5, <1>6, <1>7, <1>8, <1>9, <1>10 DEF Next

\* The history starts with the empty overlay.
LEMMA HInvInit == Init => HInv
  <1> SUFFICES ASSUME Init PROVE HInv
    OBVIOUS
  <1>1. /\ pub = None /\ jobs = <<>> /\ edit.at = "idle" /\ overlay = NoOverlay /\ crashes = 0
        /\ index = [m \in Metrics |-> None]
    BY DEF Init, NoEdit
  <1>2. PICK h : h = [v \in Nat |-> {}]
    OBVIOUS
  <1>3. Remembered(h)
    BY <1>1, <1>2 DEF Remembered, NoOverlay
  <1>4. HistoryOf(h)
    BY <1>1, <1>3 DEF HistoryOf, Accounted
  <1> QED
    BY <1>1, <1>4, SInvInit DEF HInv, Blank

\* Crashes are counted.
LEMMA CrashesCount ==
    ASSUME crashes \in Nat, [Next]_vars
    PROVE  crashes' \in Nat
  <1>1. ASSUME NEW j \in DOMAIN jobs, Step(j) PROVE crashes' = crashes
    BY <1>1 DEF Step, Begin, Advance, Profile, Raise, EndGenerating, Merge, Draft, IndexDraft,
                AfterIndex, Commit, Complete, Fail, MarkFailed, bounds
  <1>2. CASE Next /\ ~\E j \in DOMAIN jobs : Step(j)
    BY <1>2 DEF Next, Editing, ClaimBuild, ClaimGeneration, ClaimOperation, EditMetric,
                GenerateAtOnce, LoadOverlay, ChangeConnection, BeginEdit, SaveOverlay, Republish,
                SavePublished, Clear, ClearIndex, Interrupt, Crash, bounds
  <1>3. CASE UNCHANGED vars
    BY <1>3 DEF vars, bounds
  <1> QED
    BY <1>1, <1>2, <1>3

\* Every step leaves a history, unless something crosses.
LEMMA HInvNext ==
    ASSUME HInv, ~crossed', [Next]_vars
    PROVE  HInv'
  <1>0. SInv /\ Blank /\ crashes \in Nat
    BY DEF HInv
  <1>h. PICK h : HistoryOf(h)
    BY DEF HInv
  <1>1. SInv'
    BY <1>0, SInvNext
  <1>2. crashes' \in Nat
    BY <1>0, CrashesCount
  <1>3. CASE \E j \in DOMAIN jobs : Step(j)
    <2>1. PICK j \in DOMAIN jobs : Step(j)
      BY <1>3
    <2>2. \E g : HistoryOf(g)'
      BY <1>0, <1>h, <2>1, StepRemembers
    <2>3. Blank'
      BY <1>0, <2>1, StepBlank
    <2> QED
      BY <1>1, <1>2, <2>2, <2>3 DEF HInv
  <1>4. CASE Next /\ ~\E j \in DOMAIN jobs : Step(j)
    <2>1. \E g : HistoryOf(g)'
      BY <1>0, <1>h, <1>4, OtherRemembers
    <2>2. Blank'
      BY <1>0, <1>4, OtherBlank
    <2> QED
      BY <1>1, <1>2, <2>1, <2>2 DEF HInv
  <1>5. CASE UNCHANGED vars
    <2>1. Around /\ UNCHANGED <<pub, edit, clearing, index, crashes>>
      BY <1>5 DEF vars, docs, calls, bounds, Around
    <2>2. HistoryOf(h)'
      BY <1>0, <1>h, <2>1, AroundGoesOn, OthersRemember DEF HistoryOf, Remembered
    <2>3. Blank'
      BY <1>0, <2>1 DEF Blank, Around
    <2> QED
      BY <1>1, <1>2, <2>2, <2>3 DEF HInv
  <1> QED
    BY <1>3, <1>4, <1>5

\* A catalog that is started anew has no history and an index to be cleared.
LEMMA AnewRemembers ==
    ASSUME TInv, TInv', crashes \in Nat, Clear, edit = NoEdit, Anew
    PROVE  HInv'
  <1>1. /\ pub' = None /\ overlay' = NoOverlay /\ clearing' /\ UNCHANGED <<task, edit, crashes>>
        /\ Finish(DOMAIN jobs, "cancelled") /\ "cancelled" \in Ends /\ edit.at = "idle"
    BY DEF Clear, NoEdit, Ends, Anew
  <1>2. /\ DOMAIN jobs' = DOMAIN jobs /\ DOMAIN task = DOMAIN jobs
        /\ \A j \in DOMAIN jobs : ~IsRunning(j)'
    BY <1>1, FinishKeeps, LenProperties DEF TInv, TypeOK
  <1>3. \A j \in DOMAIN jobs' : task'[j].at \in Over
    BY <1>1, <1>2 DEF Anew
  <1>4. Blank'
    BY <1>1, <1>2 DEF Blank, IsRunning, NewJob
  <1>5. PICK g : g = [v \in Nat |-> {}]
    OBVIOUS
  <1>6. g \in [Nat -> SUBSET Metrics] /\ g[overlay'.version] = overlay'.metrics
    BY <1>1, <1>5 DEF NoOverlay
  <1>7. \A j \in DOMAIN jobs' : DraftKnown(jobs'[j], task'[j], overlay', g)
    BY <1>3 DEF DraftKnown, Drafted, Over
  <1>8. Remembered(g)'
    BY <1>1, <1>6, <1>7 DEF Remembered
  <1>9. HistoryOf(g)'
    BY <1>1, <1>8 DEF HistoryOf
  <1> QED
    BY <1>1, <1>4, <1>9, AnewSound DEF HInv

\* As long as nothing has crossed, there is a history.
KInv == TInv /\ crashes \in Nat /\ (~crossed => HInv)

LEMMA KInvNext == KInv /\ [Next]_vars => KInv'
  <1> SUFFICES ASSUME KInv, [Next]_vars PROVE KInv'
    OBVIOUS
  <1>1. TInv' /\ crashes' \in Nat
    BY TInvNext, CrashesCount DEF KInv
  <1>2. ASSUME ~crossed' PROVE HInv'
    <2>1. CASE ~crossed
      BY <1>2, <2>1, HInvNext DEF KInv
    <2>2. CASE crossed
      BY <1>1, <1>2, <2>2, OverWhenAnew, AnewRemembers DEF KInv
    <2> QED
      BY <2>1, <2>2
  <1> QED
    BY <1>1, <1>2 DEF KInv

\* Unless an edit and a generation, or a clearing, have crossed since the catalog
\* was started anew, no search of a quiet catalog finds a metric that the catalog
\* does not have: what a late task put into the index it has published or taken
\* out again.
THEOREM HitsStayReal == Spec => []HitsAreReal
  <1>1. HInv => HitsAreReal
    <2> SUFFICES ASSUME HInv, crashes = 0, Quiet, pub # None, HasTables(pub.doc),
                        NEW m \in Metrics, index[m] = pub.version
                 PROVE  m \in pub.metrics
      BY DEF HitsAreReal
    <2>1. PICK h : HistoryOf(h)
      BY DEF HInv
    <2>2. Accounted(m, h) /\ InHistory(pub, h)
      BY <2>1 DEF HistoryOf, Remembered, Quiet
    <2>3. index[m] # None
      <3>1. pub \in Catalogs
        BY DEF HInv, SInv, TInv, TypeOK
      <3> QED
        BY <3>1, NoneAssumption DEF Catalogs
    <2>4. \A j \in DOMAIN jobs : task[j].at \notin Written
      <3>1. DOMAIN task = DOMAIN jobs
        BY LenProperties DEF HInv, SInv, TInv, TypeOK
      <3> QED
        BY <3>1 DEF Quiet, Written, Over
    <2>5. Clean(m, h)
      BY <2>2, <2>3, <2>4 DEF Accounted, Pending, Dropped, WrittenBy
    <2> QED
      BY <2>2, <2>5 DEF Clean, InHistory
  <1>2. KInv => HitsAreReal
    BY <1>1 DEF KInv, HitsAreReal
  <1>3. Init => KInv
    BY HInvInit DEF KInv, HInv, SInv
  <1> QED
    BY <1>2, <1>3, KInvNext, PTL DEF Spec

=============================================================================
