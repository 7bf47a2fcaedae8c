------------------------------- MODULE Sandbox -------------------------------
(***************************************************************************)
(* The Python sandbox of one chat session.  The manager gives it to a run   *)
(* for the data source the run was started with; the run's tools read and   *)
(* set its variables; routes and a sweep take it away.  The query lease     *)
(* admits one run at a time, but the thread of a run that was abandoned at  *)
(* its deadline goes on with the sandbox it was given.                      *)
(***************************************************************************)
EXTENDS Naturals, Sequences, FiniteSets

CONSTANTS
    Runs,         \* agent runs of the session
    Sources,      \* source identities
    Names,        \* variables that tools set
    JobsOf,       \* what the calls of each run load and what they make
    Removers,     \* threads that take the sandbox away: routes, the sweep
    None,
    CallsOf,      \* bound on the tool calls of each run
    MaxRemovals   \* bound on the removals

ASSUME SandboxAssumption ==
    /\ None \notin Runs \union Removers \union Sources
    /\ None \notin [by : Runs, call : Nat]
    /\ Runs \intersect Removers = {}
    /\ JobsOf \in [Runs -> SUBSET [inputs : SUBSET Names, items : (SUBSET Names) \ {{}}]]
    /\ CallsOf \in [Runs -> Nat] /\ MaxRemovals \in Nat

VARIABLES
    source,    \* the source in the session's state
    lease,     \* the run that holds the query lease
    boxes,     \* every sandbox made: its variables, executions, lock holder
    current,   \* the manager's sandbox of the session, 0 if there is none
    identity,  \* the source it was made for
    aged,      \* whether it was last asked for longer ago than the TTL
    manager,   \* the thread inside the manager's lock
    remover,   \* what each remover is about to do
    removals,
    pc,        \* where a run is
    saw,       \* the source a run was started with
    box,       \* the sandbox it was given
    calls,     \* its number of calls so far
    job,       \* its current call: inputs, items, those not yet put, cache key
    copy,      \* the variables its code reads
    told,      \* what its successful calls have reported
    cache      \* the results its tool has cached

session == <<source, lease>>
pool    == <<boxes, current, identity, aged, manager>>
removal == <<remover, removals>>
run     == <<pc, saw, box, calls, job, copy, told, cache>>
vars    == <<session, pool, removal, run>>

\* What a call sets: the run that set it and the number of its call.
Values == [by : Runs, call : Nat]
Empty  == [n \in Names |-> None]

Box(scope, count, lock) == [scope |-> scope, count |-> count, lock |-> lock]

Doing(inputs, items, left, key) ==
    [inputs |-> inputs, items |-> items, left |-> left, key |-> key]

NoJob  == Doing({}, {}, {}, None)
NewBox == Box(Empty, 0, None)

\* clear: the variables go and the executions are counted from zero.
Cleared(b) == [boxes EXCEPT ![b] = Box(Empty, 0, @.lock)]

\* The lock of a sandbox passes to holder.
Locked(b, holder) == [boxes EXCEPT ![b] = Box(@.scope, @.count, holder)]

Free(b) == boxes[b].lock = None

Value(r) == [by |-> r, call |-> calls[r]]

Init ==
    /\ source \in Sources
    /\ lease = None
    /\ boxes = <<>> /\ current = 0 /\ identity = None /\ aged = FALSE
    /\ manager = None
    /\ remover = [x \in Removers |-> "idle"] /\ removals = 0
    /\ pc = [r \in Runs |-> "idle"]
    /\ saw = [r \in Runs |-> None]
    /\ box = [r \in Runs |-> 0]
    /\ calls = [r \in Runs |-> 0]
    /\ job = [r \in Runs |-> NoJob]
    /\ copy = [r \in Runs |-> Empty]
    /\ told = [r \in Runs |-> Empty]
    /\ cache = [r \in Runs |-> {}]

-----------------------------------------------------------------------------
(* A run gets its sandbox                                                   *)

Goto(r, place) == pc' = [pc EXCEPT ![r] = place]

\* The request takes the lease and loads the session with its source.
Load(r) ==
    /\ pc[r] = "idle" /\ lease = None
    /\ lease' = r
    /\ saw' = [saw EXCEPT ![r] = source]
    /\ Goto(r, "loaded")
    /\ UNCHANGED <<source, pool, removal, box, calls, job, copy, told, cache>>

\* What get_or_create_for_source notes before it returns sandbox b.
Given(r, b) ==
    /\ current' = b /\ identity' = saw[r] /\ aged' = FALSE
    /\ manager' = None
    /\ box' = [box EXCEPT ![r] = b]
    /\ Goto(r, "binding")

Outdated(r) == current # 0 /\ identity # saw[r]

Reuse(r) ==
    /\ pc[r] = "loaded" /\ manager = None
    /\ current # 0 /\ ~Outdated(r)
    /\ Given(r, current)
    /\ UNCHANGED <<session, boxes, removal, saw, calls, job, copy, told, cache>>

Create(r) ==
    /\ pc[r] = "loaded" /\ manager = None
    /\ current = 0
    /\ boxes' = Append(boxes, NewBox)
    /\ Given(r, Len(boxes) + 1)
    /\ UNCHANGED <<session, removal, saw, calls, job, copy, told, cache>>

\* The sandbox was made for another source: clear waits for its lock while
\* the manager's lock is held.
AwaitReplacing(r) ==
    /\ pc[r] = "loaded" /\ manager = None
    /\ Outdated(r)
    /\ manager' = r
    /\ Goto(r, "replacing")
    /\ UNCHANGED <<session, boxes, current, identity, aged, removal, saw, box,
                   calls, job, copy, told, cache>>

EmptiedBox(r) == boxes' = Cleared(current) /\ Given(r, current)
FreshBox(r)   == boxes' = Append(Cleared(current), NewBox) /\ Given(r, Len(boxes) + 1)

Replace(r) ==
    /\ pc[r] = "replacing" /\ Free(current)
    /\ FreshBox(r)
    /\ UNCHANGED <<session, removal, saw, calls, job, copy, told, cache>>

\* bind_dataframe takes the lock of the sandbox to set df, which is not one of
\* Names.
Bind(r) ==
    /\ pc[r] = "binding" /\ Free(box[r])
    /\ Goto(r, "ready")
    /\ UNCHANGED <<session, pool, removal, saw, box, calls, job, copy, told, cache>>

-----------------------------------------------------------------------------
(* The calls of its tools                                                   *)

\* A tool that runs code puts its inputs first; one that fetches its data goes
\* on to what it makes.
Call(r, j) ==
    /\ pc[r] = "ready" /\ calls[r] < CallsOf[r]
    /\ calls' = [calls EXCEPT ![r] = @ + 1]
    /\ job' = [job EXCEPT ![r] = Doing(j.inputs, j.items, j.inputs, None)]
    /\ Goto(r, "loading")
    /\ UNCHANGED <<session, pool, removal, saw, box, copy, told, cache>>

Fetch(r, j) ==
    /\ pc[r] = "ready" /\ calls[r] < CallsOf[r]
    /\ calls' = [calls EXCEPT ![r] = @ + 1]
    /\ job' = [job EXCEPT ![r] = Doing({}, j.items, j.items, None)]
    /\ Goto(r, "publishing")
    /\ UNCHANGED <<session, pool, removal, saw, box, copy, told, cache>>

\* SessionSandbox.put.
Put(r, n) ==
    /\ n \in job[r].left /\ Free(box[r])
    /\ boxes' = [boxes EXCEPT ![box[r]] =
                     Box([@.scope EXCEPT ![n] = Value(r)], @.count, @.lock)]
    /\ job' = [job EXCEPT ![r] = Doing(@.inputs, @.items, @.left \ {n}, @.key)]

\* An artifact of the session under an alias; what the run reported under
\* that name is no longer there.
Materialize(r, n) ==
    /\ pc[r] = "loading"
    /\ Put(r, n)
    /\ told' = [told EXCEPT ![r] = [@ EXCEPT ![n] = None]]
    /\ UNCHANGED <<session, current, identity, aged, manager, removal, pc, saw,
                   box, calls, copy, cache>>

\* The cache of the tool knows a result by code and executions so far.
Hits(r) == { c \in cache[r] : c.key = boxes[box[r]].count
                              /\ c.inputs = job[r].inputs /\ c.items = job[r].items }

\* What a call that succeeds says of its items, here with the value v.
Report(r, v) ==
    told' = [told EXCEPT ![r] = [n \in Names |-> IF n \in job[r].items THEN v ELSE @[n]]]

\* A call is over, well or not.
EndCall(r) ==
    /\ Goto(r, "ready")
    /\ job' = [job EXCEPT ![r] = NoJob]
    /\ copy' = [copy EXCEPT ![r] = Empty]

Hit(r) ==
    /\ pc[r] = "loading" /\ job[r].left = {}
    /\ \E c \in Hits(r) : Report(r, c.value)
    /\ EndCall(r)
    /\ UNCHANGED <<session, pool, removal, saw, box, calls, cache>>

Miss(r) ==
    /\ pc[r] = "loading" /\ job[r].left = {} /\ Hits(r) = {}
    /\ job' = [job EXCEPT ![r] = Doing(@.inputs, @.items, @.left, boxes[box[r]].count)]
    /\ Goto(r, "checking")
    /\ UNCHANGED <<session, pool, removal, saw, box, calls, copy, told, cache>>

\* The call ends with an error: an artifact is not found, preflight refuses the
\* code, another thread changes the dictionary of variables while execute
\* iterates over it, or what comes before, between or after the puts of the
\* items raises.  What the call has put by then stays.
Raise(r) ==
    /\ pc[r] \in {"loading", "checking", "publishing"}
    /\ EndCall(r)
    /\ UNCHANGED <<session, pool, removal, saw, box, calls, told, cache>>

\* execute copies the variables before it takes the lock.
Copy(r) ==
    /\ pc[r] = "checking"
    /\ copy' = [copy EXCEPT ![r] = boxes[box[r]].scope]
    /\ Goto(r, "waiting")
    /\ UNCHANGED <<session, pool, removal, saw, box, calls, job, told, cache>>

Execute(r) ==
    /\ pc[r] = "waiting" /\ Free(box[r])
    /\ boxes' = Locked(box[r], r)
    /\ Goto(r, "executing")
    /\ UNCHANGED <<session, current, identity, aged, manager, removal, saw, box,
                   calls, job, copy, told, cache>>

\* execute without isolated takes over what the process has.
ExecutedInPlace(r) ==
    [boxes EXCEPT ![box[r]] =
        Box([n \in Names |-> IF copy[r][n] = None THEN @.scope[n] ELSE copy[r][n]],
            @.count + 1, None)]

\* The worker process has sent its result: the execution counts, and nothing
\* of the process's namespace is taken over.
Executed(r) == [boxes EXCEPT ![box[r]] = Box(@.scope, @.count + 1, None)]

Return(r) ==
    /\ pc[r] = "executing"
    /\ boxes' = Executed(r)
    /\ \/ /\ Goto(r, "publishing")
          /\ job' = [job EXCEPT ![r] = Doing(@.inputs, @.items, @.items, @.key)]
          /\ UNCHANGED copy
       \/ EndCall(r)   \* the result is not what the tool may return
    /\ UNCHANGED <<session, current, identity, aged, manager, removal, saw, box,
                   calls, told, cache>>

\* An error of the code, the death of the process, or the time is up: then the
\* process is terminated, and killed if that does not help.
Hangs(r)      == UNCHANGED boxes
Terminated(r) == boxes' = Locked(box[r], None)

Fail(r) ==
    /\ pc[r] = "executing"
    /\ Terminated(r)
    /\ EndCall(r)
    /\ UNCHANGED <<session, current, identity, aged, manager, removal, saw, box,
                   calls, told, cache>>

Publish(r, n) ==
    /\ pc[r] = "publishing"
    /\ Put(r, n)
    /\ UNCHANGED <<session, current, identity, aged, manager, removal, pc, saw,
                   box, calls, copy, told, cache>>

\* Only tools that run code have a cache.
Result(r) ==
    IF job[r].key = None THEN {}
    ELSE {[key |-> job[r].key, inputs |-> job[r].inputs, items |-> job[r].items,
           value |-> Value(r)]}

Succeed(r) ==
    /\ pc[r] = "publishing" /\ job[r].left = {}
    /\ Report(r, Value(r))
    /\ cache' = [cache EXCEPT ![r] = @ \union Result(r)]
    /\ EndCall(r)
    /\ UNCHANGED <<session, pool, removal, saw, box, calls>>

\* The run is over and its tools are gone.
Answer(r) ==
    /\ pc[r] = "ready"
    /\ Goto(r, "over")
    /\ lease' = IF lease = r THEN None ELSE lease
    /\ box' = [box EXCEPT ![r] = 0]
    /\ told' = [told EXCEPT ![r] = Empty]
    /\ cache' = [cache EXCEPT ![r] = {}]
    /\ UNCHANGED <<source, pool, removal, saw, calls, job, copy>>

\* The request returns at its deadline; its thread goes on.
Deadline(r) ==
    /\ lease = r /\ pc[r] # "over"
    /\ lease' = None
    /\ UNCHANGED <<source, pool, removal, run>>

-----------------------------------------------------------------------------
(* Removals                                                                 *)

Begin(x) ==
    /\ remover[x] = "idle" /\ removals < MaxRemovals
    /\ removals' = removals + 1
    /\ remover' = [remover EXCEPT ![x] = "asking"]

\* set_source, which takes no lease; the sandbox goes only if it has changed.
ChangeSource(x, s) ==
    /\ s # source
    /\ source' = s
    /\ Begin(x)
    /\ UNCHANGED <<lease, pool, run>>

\* delete_messages_from_id.
DeleteMessages(x) ==
    /\ Begin(x)
    /\ UNCHANGED <<session, pool, run>>

Age ==
    /\ lease = None /\ current # 0 /\ ~aged
    /\ aged' = TRUE
    /\ UNCHANGED <<session, boxes, current, identity, manager, removal, run>>

NothingToRemove(x) ==
    /\ remover[x] = "asking" /\ manager = None /\ current = 0
    /\ remover' = [remover EXCEPT ![x] = "idle"]
    /\ UNCHANGED <<session, pool, removals, run>>

Pop(x) ==
    /\ remover[x] = "asking" /\ manager = None /\ current # 0
    /\ manager' = x
    /\ remover' = [remover EXCEPT ![x] = "clearing"]
    /\ UNCHANGED <<session, boxes, current, identity, aged, removals, run>>

\* cleanup_expired, which looks and removes inside the manager's lock.
Sweep(x) ==
    /\ remover[x] = "idle" /\ removals < MaxRemovals
    /\ manager = None /\ aged
    /\ manager' = x
    /\ removals' = removals + 1
    /\ remover' = [remover EXCEPT ![x] = "clearing"]
    /\ UNCHANGED <<session, boxes, current, identity, aged, run>>

Clear(x) ==
    /\ remover[x] = "clearing" /\ Free(current)
    /\ boxes' = Cleared(current)
    /\ current' = 0 /\ identity' = None /\ aged' = FALSE
    /\ manager' = None
    /\ remover' = [remover EXCEPT ![x] = "idle"]
    /\ UNCHANGED <<session, removals, run>>

-----------------------------------------------------------------------------
Prepare(r) == Reuse(r) \/ Create(r) \/ AwaitReplacing(r) \/ Replace(r) \/ Bind(r)

Tool(r) ==
    \/ \E n \in Names : Materialize(r, n) \/ Publish(r, n)
    \/ Hit(r) \/ Miss(r) \/ Copy(r) \/ Execute(r) \/ Fail(r) \/ Succeed(r)

Thread(r) == Prepare(r) \/ Tool(r) \/ Answer(r)

Remove(x) == NothingToRemove(x) \/ Pop(x) \/ Clear(x)

Next ==
    \/ \E r \in Runs :
         \/ Load(r) \/ Thread(r) \/ Raise(r) \/ Return(r) \/ Deadline(r)
         \/ \E j \in JobsOf[r] : Call(r, j) \/ Fetch(r, j)
    \/ \E x \in Removers :
         \/ \E s \in Sources : ChangeSource(x, s)
         \/ DeleteMessages(x) \/ Sweep(x) \/ Remove(x)
    \/ Age

Spec == Init /\ [][Next]_vars

\* Threads run.  A worker process may never return: then the time is up.
Fairness ==
    /\ \A r \in Runs : WF_vars(Thread(r))
    /\ \A x \in Removers : WF_vars(Remove(x))

FairSpec == Spec /\ Fairness

-----------------------------------------------------------------------------
(* Properties                                                               *)

Places == {"idle", "loaded", "replacing", "binding", "ready", "loading",
           "checking", "waiting", "executing", "publishing", "over"}

Scopes  == [Names -> Values \union {None}]
Boxes   == [scope : Scopes, count : Nat, lock : Runs \union {None}]
Doings  == [inputs : SUBSET Names, items : SUBSET Names, left : SUBSET Names,
            key : Nat \union {None}]
Results == [key : Nat, inputs : SUBSET Names, items : SUBSET Names, value : Values]

\* The values the variables may take.
TypeOK ==
    /\ source \in Sources /\ lease \in Runs \union {None}
    /\ boxes \in Seq(Boxes)
    /\ current \in 0..Len(boxes) /\ identity \in Sources \union {None}
    /\ aged \in BOOLEAN /\ manager \in Runs \union Removers \union {None}
    /\ remover \in [Removers -> {"idle", "asking", "clearing"}]
    /\ removals \in Nat
    /\ pc \in [Runs -> Places]
    /\ saw \in [Runs -> Sources \union {None}]
    /\ box \in [Runs -> 0..Len(boxes)]
    /\ calls \in [Runs -> Nat]
    /\ job \in [Runs -> Doings]
    /\ copy \in [Runs -> Scopes] /\ told \in [Runs -> Scopes]
    /\ cache \in [Runs -> SUBSET Results]

\* What a run finds in its sandbox, and what its code reads, was set by runs
\* of the same source, whatever is left over of earlier runs and whoever
\* changes the source meanwhile (get_or_create_for_source and remove).
SourcesDoNotMix ==
    \A r \in Runs, n \in Names :
        LET found == (IF box[r] = 0 THEN {} ELSE {boxes[box[r]].scope[n]}) \union {copy[r][n]}
        IN  \A v \in found \ {None} : saw[v.by] = saw[r]

\* Until a run's sandbox is cleared (it is then no longer the session's), what
\* its calls have reported is in it, or another run that shares it has set the
\* variable since, or a later call of the run, which may have failed after it:
\* no execution brings back an older value (execute with isolated).
ReportedIsThere ==
    \A r \in Runs, n \in Names :
        box[r] # 0 /\ box[r] = current /\ told[r][n] # None
          => LET v == boxes[current].scope[n]
             IN  v # None /\ (v.by = r => told[r][n].call <= v.call)

\* A run that has loaded its session gets its sandbox and comes to its end,
\* although clear waits for a worker inside the manager's lock and a worker
\* may hang.
RunsGetThrough == \A r \in Runs : pc[r] = "loaded" ~> pc[r] = "over"
=============================================================================
