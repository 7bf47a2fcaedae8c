---------------------------- MODULE SandboxProofs ----------------------------
(***************************************************************************)
(* Theorems about Sandbox, for any number of runs, sources, names, calls    *)
(* and removals.                                                            *)
(***************************************************************************)
EXTENDS Sandbox, SequenceTheorems, TLAPS

-----------------------------------------------------------------------------
(* Sandboxes                                                                *)

\* Changing one sandbox of the sequence keeps its length and the others.
LEMMA ChangeOne ==
    ASSUME NEW seq \in Seq(Boxes), NEW b \in 1..Len(seq), NEW new \in Boxes
    PROVE  /\ [seq EXCEPT ![b] = new] \in Seq(Boxes)
           /\ Len([seq EXCEPT ![b] = new]) = Len(seq)
           /\ \A c \in 1..Len(seq) :
                [seq EXCEPT ![b] = new][c] = IF c = b THEN new ELSE seq[c]
  BY SMT

\* Adding one keeps those there are.
LEMMA AddOne ==
    ASSUME NEW seq \in Seq(Boxes), NEW new \in Boxes
    PROVE  /\ Append(seq, new) \in Seq(Boxes)
           /\ Len(Append(seq, new)) = Len(seq) + 1
           /\ Append(seq, new)[Len(seq) + 1] = new
           /\ \A c \in 1..Len(seq) : Append(seq, new)[c] = seq[c]
  BY SMT

\* A new sandbox is typed.
LEMMA NewBoxType == NewBox \in Boxes
  BY DEF NewBox, Box, Boxes, Scopes, Empty

\* What clear leaves of one sandbox.
LEMMA ClearedType ==
    ASSUME boxes \in Seq(Boxes), NEW b \in 1..Len(boxes)
    PROVE  /\ Cleared(b) \in Seq(Boxes) /\ Len(Cleared(b)) = Len(boxes)
           /\ Cleared(b)[b].scope = Empty
           /\ \A c \in 1..Len(boxes) : c # b => Cleared(b)[c] = boxes[c]
  <1> DEFINE new == Box(Empty, 0, boxes[b].lock)
  <1>. boxes[b] \in Boxes
    OBVIOUS
  <1>1. new \in Boxes /\ new.scope = Empty
    BY DEF Boxes, Scopes, Empty, Box
  <1>2. Cleared(b) = [boxes EXCEPT ![b] = new]
    BY DEF Cleared
  <1> HIDE DEF new
  <1> QED
    BY <1>1, <1>2, ChangeOne

\* What a put changes: one variable of the run's sandbox.
OneVariable(r, n) ==
    \A c \in 1..Len(boxes) : \A k \in Names :
      boxes'[c].scope[k] = IF c = box[r] /\ k = n THEN Value(r) ELSE boxes[c].scope[k]

LEMMA PutType ==
    ASSUME TypeOK, NEW r \in Runs, NEW n \in Names, box[r] # 0, Put(r, n)
    PROVE  /\ boxes' \in Seq(Boxes) /\ Len(boxes') = Len(boxes)
           /\ \A c \in 1..Len(boxes) : boxes'[c].count = boxes[c].count
           /\ OneVariable(r, n)
           /\ job' \in [Runs -> Doings]
           /\ job'[r] = Doing(job[r].inputs, job[r].items, job[r].left \ {n}, job[r].key)
           /\ \A q \in Runs : q # r => job'[q] = job[q]
  <1> DEFINE b == box[r]
             new == Box([boxes[b].scope EXCEPT ![n] = Value(r)], boxes[b].count, boxes[b].lock)
  <1>1. b \in 1..Len(boxes) /\ boxes \in Seq(Boxes) /\ boxes[b] \in Boxes
    BY DEF TypeOK
  <1>2. Value(r) \in Values
    BY DEF TypeOK, Value, Values
  <1>3. new \in Boxes
    BY <1>1, <1>2 DEF Boxes, Scopes, Box
  <1>4. boxes' = [boxes EXCEPT ![b] = new]
    BY <1>1 DEF Put
  <1>5. /\ new.count = boxes[b].count
        /\ \A k \in Names : new.scope[k] = IF k = n THEN Value(r) ELSE boxes[b].scope[k]
    BY <1>1 DEF Boxes, Scopes, Box
  <1>6. /\ job' \in [Runs -> Doings]
        /\ job'[r] = Doing(job[r].inputs, job[r].items, job[r].left \ {n}, job[r].key)
        /\ \A q \in Runs : q # r => job'[q] = job[q]
    BY DEF TypeOK, Put, Doing, Doings
  <1> HIDE DEF new, b
  <1>7. /\ boxes' \in Seq(Boxes) /\ Len(boxes') = Len(boxes)
        /\ \A c \in 1..Len(boxes) : boxes'[c] = IF c = b THEN new ELSE boxes[c]
    BY <1>1, <1>3, <1>4, ChangeOne
  <1> QED
    BY <1>5, <1>6, <1>7 DEF b, OneVariable

\* Taking and leaving the lock changes no variable and no count.
LEMMA LockType ==
    ASSUME boxes \in Seq(Boxes), NEW b \in 1..Len(boxes), NEW h \in Runs \union {None}
    PROVE  /\ Locked(b, h) \in Seq(Boxes) /\ Len(Locked(b, h)) = Len(boxes)
           /\ \A c \in 1..Len(boxes) :
                /\ Locked(b, h)[c].scope = boxes[c].scope
                /\ Locked(b, h)[c].count = boxes[c].count
  <1>. boxes[b] \in Boxes
    OBVIOUS
  <1> DEFINE new == Box(boxes[b].scope, boxes[b].count, h)
  <1>1. /\ new \in Boxes
        /\ new.scope = boxes[b].scope /\ new.count = boxes[b].count
    BY DEF Boxes, Box
  <1>2. Locked(b, h) = [boxes EXCEPT ![b] = new]
    BY DEF Locked
  <1> HIDE DEF new
  <1> QED
    BY <1>1, <1>2, ChangeOne

\* An execution changes no variable, and counts.
LEMMA ExecutedType ==
    ASSUME boxes \in Seq(Boxes), NEW r \in Runs, box[r] \in 1..Len(boxes)
    PROVE  /\ Executed(r) \in Seq(Boxes) /\ Len(Executed(r)) = Len(boxes)
           /\ \A c \in 1..Len(boxes) :
                /\ Executed(r)[c].scope = boxes[c].scope
                /\ Executed(r)[c].count = IF c = box[r] THEN boxes[c].count + 1
                                          ELSE boxes[c].count
  <1> DEFINE b == box[r]
             new == Box(boxes[b].scope, boxes[b].count + 1, None)
  <1>. boxes[b] \in Boxes
    OBVIOUS
  <1>1. /\ new \in Boxes
        /\ new.scope = boxes[b].scope /\ new.count = boxes[b].count + 1
    BY DEF Boxes, Box
  <1>2. Executed(r) = [boxes EXCEPT ![b] = new]
    BY DEF Executed
  <1> HIDE DEF new
  <1> QED
    BY <1>1, <1>2, ChangeOne

-----------------------------------------------------------------------------
(* Types                                                                    *)

\* The places of a run between get_or_create_for_source and its end.
Using == {"binding", "ready", "loading", "checking", "waiting", "executing", "publishing"}

\* Who has a sandbox, and who is inside the manager's lock.
Held ==
    /\ \A r \in Runs :
         /\ pc[r] \in Using <=> box[r] # 0
         /\ pc[r] # "idle" => saw[r] \in Sources
         /\ pc[r] = "replacing" => manager = r /\ current # 0
    /\ \A x \in Removers : remover[x] = "clearing" => manager = x /\ current # 0
    /\ current # 0 => identity \in Sources
    /\ aged => current # 0

HInv == TypeOK /\ Held

LEMMA HeldInitially == Init => HInv
  <1> SUFFICES ASSUME Init PROVE HInv
    OBVIOUS
  <1>1. boxes \in Seq(Boxes) /\ current \in 0..Len(boxes)
    BY DEF Init
  <1>2. NoJob \in Doings /\ Empty \in Scopes
    BY DEF NoJob, Doing, Doings, Empty, Scopes
  <1>3. TypeOK
    BY <1>1, <1>2, SandboxAssumption DEF Init, TypeOK, Places
  <1>4. Held
    BY DEF Init, Held, Using
  <1> QED
    BY <1>3, <1>4 DEF HInv

\* The calls that a run may make are typed.
LEMMA JobTypes ==
    ASSUME NEW r \in Runs, NEW j \in JobsOf[r]
    PROVE  j.inputs \in SUBSET Names /\ j.items \in SUBSET Names
  BY SandboxAssumption

\* The sandbox of a run that has one.
LEMMA OwnBox ==
    ASSUME HInv, NEW r \in Runs, pc[r] \in Using
    PROVE  box[r] \in 1..Len(boxes) /\ boxes \in Seq(Boxes) /\ boxes[box[r]] \in Boxes
  BY DEF HInv, TypeOK, Held

\* The end of a call is typed.
LEMMA EndType ==
    ASSUME HInv, NEW r \in Runs, pc[r] \in Using, EndCall(r)
    PROVE  /\ pc' = [pc EXCEPT ![r] = "ready"] /\ pc' \in [Runs -> Places]
           /\ \A q \in Runs : /\ pc'[q] \in Using <=> pc[q] \in Using
                              /\ pc'[q] # "idle" <=> pc[q] # "idle"
                              /\ pc'[q] = "replacing" <=> pc[q] = "replacing"
           /\ job' \in [Runs -> Doings] /\ copy' \in [Runs -> Scopes]
  <1>1. NoJob \in Doings /\ Empty \in Scopes
    BY DEF NoJob, Doing, Doings, Empty, Scopes
  <1> QED
    BY <1>1 DEF EndCall, Goto, HInv, TypeOK, Places, Using

\* What a report makes of told is typed.
LEMMA ReportType ==
    ASSUME HInv, NEW r \in Runs, NEW v \in Values, Report(r, v)
    PROVE  /\ told' \in [Runs -> Scopes]
           /\ \A n \in Names : told'[r][n] = IF n \in job[r].items THEN v ELSE told[r][n]
           /\ \A q \in Runs : q # r => told'[q] = told[q]
  BY DEF Report, HInv, TypeOK, Scopes

\* What the current call may cache is typed.
LEMMA ResultType ==
    ASSUME HInv, NEW r \in Runs
    PROVE  Value(r) \in Values /\ Result(r) \in SUBSET Results
  BY DEF Value, Values, Result, Results, HInv, TypeOK, Doings

LEMMA HeldStep == HInv /\ [Next]_vars => HInv'
  <1> SUFFICES ASSUME HInv, [Next]_vars PROVE HInv'
    OBVIOUS
  <1> USE SandboxAssumption DEF HInv
  <1> USE DEF Goto, Using, session, pool, removal, run
  <1>1. ASSUME NEW r \in Runs, Load(r) PROVE HInv'
    BY <1>1 DEF TypeOK, Held, Places, Load
  <1>2. ASSUME NEW r \in Runs, Reuse(r) PROVE HInv'
    BY <1>2 DEF TypeOK, Held, Places, Reuse, Given, Outdated
  <1>3. ASSUME NEW r \in Runs, Create(r) PROVE HInv'
    <2>1. /\ boxes' \in Seq(Boxes) /\ Len(boxes') = Len(boxes) + 1
          /\ current' = Len(boxes) + 1
      BY <1>3, AddOne, NewBoxType DEF TypeOK, Create, Given
    <2>2. box' \in [Runs -> 0..Len(boxes')] /\ current' \in 0..Len(boxes')
      BY <1>3, <2>1, LenProperties DEF TypeOK, Create, Given
    <2>3. TypeOK'
      BY <1>3, <2>1, <2>2 DEF TypeOK, Places, Create, Given
    <2> QED
      BY <1>3, <2>1, <2>3, LenProperties DEF TypeOK, Held, Create, Given
  <1>4. ASSUME NEW r \in Runs, AwaitReplacing(r) PROVE HInv'
    BY <1>4 DEF TypeOK, Held, Places, AwaitReplacing, Outdated
  <1>5. ASSUME NEW r \in Runs, Replace(r) PROVE HInv'
    <2>1. current \in 1..Len(boxes)
      BY <1>5 DEF TypeOK, Held, Replace
    <2>2. /\ boxes' \in Seq(Boxes) /\ Len(boxes') = Len(boxes) + 1
          /\ current' = Len(boxes) + 1
      <3>1. Cleared(current) \in Seq(Boxes) /\ Len(Cleared(current)) = Len(boxes)
        BY <2>1, ClearedType DEF TypeOK
      <3> QED
        BY <1>5, <3>1, AddOne, NewBoxType DEF Replace, FreshBox, Given
    <2>3. pc[r] = "replacing" /\ manager = r
      BY <1>5 DEF Held, Replace
    <2>5. box' \in [Runs -> 0..Len(boxes')] /\ current' \in 0..Len(boxes')
      BY <1>5, <2>2, LenProperties DEF TypeOK, Replace, FreshBox, Given
    <2>4. TypeOK'
      BY <1>5, <2>2, <2>5 DEF TypeOK, Places, Replace, FreshBox, Given
    <2> QED
      BY <1>5, <2>2, <2>3, <2>4 DEF TypeOK, Held, Replace, FreshBox, Given
  <1>6. ASSUME NEW r \in Runs, Bind(r) PROVE HInv'
    BY <1>6 DEF TypeOK, Held, Places, Bind
  <1>7. ASSUME NEW r \in Runs, NEW n \in Names, Materialize(r, n) PROVE HInv'
    BY <1>7, PutType DEF TypeOK, Held, Places, Materialize, Scopes
  <1>8. ASSUME NEW r \in Runs, NEW n \in Names, Publish(r, n) PROVE HInv'
    BY <1>8, PutType DEF TypeOK, Held, Places, Publish
  <1>9. ASSUME NEW r \in Runs, Hit(r) PROVE HInv'
    <2>1. pc[r] \in Using /\ EndCall(r)
      BY <1>9 DEF Hit
    <2>2. PICK c \in Hits(r) : Report(r, c.value)
      BY <1>9 DEF Hit
    <2>3. c.value \in Values
      BY <2>2 DEF TypeOK, Hits, Results
    <2> QED
      BY <1>9, <2>1, <2>2, <2>3, EndType, ReportType DEF TypeOK, Held, Hit
  <1>10. ASSUME NEW r \in Runs, Miss(r) PROVE HInv'
    <2>1. boxes[box[r]].count \in Nat
      BY <1>10, OwnBox DEF Miss, Boxes
    <2> QED
      BY <1>10, <2>1 DEF TypeOK, Held, Places, Miss, Doing, Doings
  <1>11. ASSUME NEW r \in Runs, Copy(r) PROVE HInv'
    <2>1. boxes[box[r]].scope \in Scopes
      BY <1>11, OwnBox DEF Copy, Boxes
    <2> QED
      BY <1>11, <2>1 DEF TypeOK, Held, Places, Copy
  <1>12. ASSUME NEW r \in Runs, Execute(r) PROVE HInv'
    <2>1. boxes' \in Seq(Boxes) /\ Len(boxes') = Len(boxes)
      BY <1>12, OwnBox, LockType DEF Execute
    <2> QED
      BY <1>12, <2>1 DEF TypeOK, Held, Places, Execute
  <1>13. ASSUME NEW r \in Runs, Fail(r) PROVE HInv'
    <2>1. boxes' \in Seq(Boxes) /\ Len(boxes') = Len(boxes)
      BY <1>13, OwnBox, LockType DEF Fail, Terminated
    <2>2. pc[r] \in Using /\ EndCall(r)
      BY <1>13 DEF Fail
    <2> QED
      BY <1>13, <2>1, <2>2, EndType DEF TypeOK, Held, Fail
  <1>14. ASSUME NEW r \in Runs, Succeed(r) PROVE HInv'
    <2>1. pc[r] \in Using /\ EndCall(r) /\ Report(r, Value(r))
      BY <1>14 DEF Succeed
    <2>2. cache' \in [Runs -> SUBSET Results]
      BY <1>14, ResultType DEF TypeOK, Succeed
    <2> QED
      BY <1>14, <2>1, <2>2, EndType, ReportType, ResultType DEF TypeOK, Held, Succeed
  <1>15. ASSUME NEW r \in Runs, Answer(r) PROVE HInv'
    BY <1>15 DEF TypeOK, Held, Places, Answer, Scopes, Empty
  <1>16. ASSUME NEW r \in Runs, Raise(r) PROVE HInv'
    <2>1. pc[r] \in Using /\ EndCall(r)
      BY <1>16 DEF Raise
    <2> QED
      BY <1>16, <2>1, EndType DEF TypeOK, Held, Raise
  <1>17. ASSUME NEW r \in Runs, Return(r) PROVE HInv'
    <2>1. boxes' \in Seq(Boxes) /\ Len(boxes') = Len(boxes)
      BY <1>17, OwnBox, ExecutedType DEF Return
    <2>2. CASE EndCall(r)
      <3>1. pc[r] \in Using
        BY <1>17 DEF Return
      <3> QED
        BY <1>17, <2>1, <2>2, <3>1, EndType DEF TypeOK, Held, Return
    <2>3. CASE /\ Goto(r, "publishing") /\ UNCHANGED copy
               /\ job' = [job EXCEPT ![r] = Doing(@.inputs, @.items, @.items, @.key)]
      <3>1. Doing(job[r].inputs, job[r].items, job[r].items, job[r].key) \in Doings
        BY DEF TypeOK, Doing, Doings
      <3>2. job' \in [Runs -> Doings]
        BY <2>3, <3>1 DEF TypeOK
      <3> QED
        BY <1>17, <2>1, <2>3, <3>2 DEF TypeOK, Held, Places, Return
    <2> QED
      BY <1>17, <2>2, <2>3 DEF Return
  <1>18. ASSUME NEW r \in Runs, Deadline(r) PROVE HInv'
    BY <1>18 DEF TypeOK, Held, Places, Deadline
  <1>19. ASSUME NEW r \in Runs, NEW j \in JobsOf[r], Call(r, j) PROVE HInv'
    <2>1. Doing(j.inputs, j.items, j.inputs, None) \in Doings
      BY <1>19, JobTypes DEF Doing, Doings
    <2> QED
      BY <1>19, <2>1 DEF TypeOK, Held, Places, Call
  <1>20. ASSUME NEW r \in Runs, NEW j \in JobsOf[r], Fetch(r, j) PROVE HInv'
    <2>1. Doing({}, j.items, j.items, None) \in Doings
      BY <1>20, JobTypes DEF Doing, Doings
    <2> QED
      BY <1>20, <2>1 DEF TypeOK, Held, Places, Fetch
  <1>21. ASSUME NEW x \in Removers, NEW s \in Sources, ChangeSource(x, s) PROVE HInv'
    BY <1>21 DEF TypeOK, Held, Places, ChangeSource, Begin
  <1>22. ASSUME NEW x \in Removers, DeleteMessages(x) PROVE HInv'
    BY <1>22 DEF TypeOK, Held, Places, DeleteMessages, Begin
  <1>23. ASSUME NEW x \in Removers, Sweep(x) PROVE HInv'
    BY <1>23 DEF TypeOK, Held, Places, Sweep
  <1>24. ASSUME NEW x \in Removers, NothingToRemove(x) PROVE HInv'
    BY <1>24 DEF TypeOK, Held, Places, NothingToRemove
  <1>25. ASSUME NEW x \in Removers, Pop(x) PROVE HInv'
    BY <1>25 DEF TypeOK, Held, Places, Pop
  <1>26. ASSUME NEW x \in Removers, Clear(x) PROVE HInv'
    <2>1. current \in 1..Len(boxes) /\ manager = x
      BY <1>26 DEF TypeOK, Held, Clear
    <2>2. boxes' \in Seq(Boxes) /\ Len(boxes') = Len(boxes)
      BY <1>26, <2>1, ClearedType DEF TypeOK, Clear
    <2>3. \A y \in Removers : y # x => remover[y] # "clearing"
      BY <2>1 DEF Held
    <2>4. \A r \in Runs : pc[r] # "replacing"
      BY <2>1 DEF Held
    <2>5. TypeOK'
      <3>1. current' \in 0..Len(boxes') /\ box' \in [Runs -> 0..Len(boxes')]
        BY <1>26, <2>2, LenProperties DEF TypeOK, Clear
      <3>2. remover' \in [Removers -> {"idle", "asking", "clearing"}]
        BY <1>26 DEF TypeOK, Clear
      <3> QED
        BY <1>26, <2>2, <3>1, <3>2 DEF TypeOK, Clear
    <2> QED
      BY <1>26, <2>1, <2>3, <2>4, <2>5 DEF TypeOK, Held, Clear
  <1>27. ASSUME Age PROVE HInv'
    BY <1>27 DEF TypeOK, Held, Places, Age
  <1>28. ASSUME UNCHANGED vars PROVE HInv'
    BY <1>28 DEF TypeOK, Held, Places, vars
  <1> QED
    BY <1>1, <1>2, <1>3, <1>4, <1>5, <1>6, <1>7, <1>8, <1>9, <1>10, <1>11, <1>12, <1>13, <1>14, <1>15, <1>16, <1>17, <1>18, <1>19, <1>20, <1>21, <1>22, <1>23, <1>24, <1>25, <1>26, <1>27, <1>28
    DEF Next, Thread, Prepare, Tool, Remove

\* The variables of Sandbox keep to their types: in particular every run works
\* with a sandbox that exists, and only one thread is inside the manager's lock
\* (SandboxManager, SessionSandbox).
THEOREM SandboxTypes == Spec => []TypeOK
  <1>1. HInv => TypeOK
    BY DEF HInv
  <1> QED
    BY HeldInitially, HeldStep, <1>1, PTL DEF Spec

-----------------------------------------------------------------------------
(* Sources                                                                  *)

\* v was set by a run of source s, if it is set at all.
SetFor(v, s) == v # None => pc[v.by] # "idle" /\ saw[v.by] = s

\* What keeps the sources apart: the session's sandbox holds what runs of its
\* identity have set, and so does one that was given up and is still in use.
Kept ==
    /\ \A r \in Runs : box[r] # 0 => \A n \in Names : SetFor(boxes[box[r]].scope[n], saw[r])
    /\ \A r \in Runs, n \in Names : SetFor(copy[r][n], saw[r])
    /\ \A r \in Runs : pc[r] = "idle" => \A n \in Names : copy[r][n] = None
    /\ \A r, q \in Runs : box[r] = box[q] /\ box[r] # 0 => saw[r] = saw[q]
    /\ current # 0 => \A n \in Names : SetFor(boxes[current].scope[n], identity)
    /\ current # 0 => \A r \in Runs : box[r] = current => saw[r] = identity

KInv == HInv /\ Kept

\* A value in a sandbox that exists, or in a copy.
LEMMA ValueType ==
    ASSUME HInv, NEW n \in Names
    PROVE  /\ \A b \in 1..Len(boxes) : boxes[b].scope[n] \in Values \union {None}
           /\ \A r \in Runs : copy[r][n] \in Values \union {None}
  <1>1. \A b \in 1..Len(boxes) : boxes[b] \in Boxes
    BY DEF HInv, TypeOK
  <1> QED
    BY <1>1 DEF HInv, TypeOK, Boxes, Scopes

\* A run that has started stays started, with its source.
Onward ==
    \A q \in Runs : /\ pc[q] # "idle" => pc'[q] # "idle" /\ saw'[q] = saw[q]
                    /\ pc[q] = "idle" => box[q] = 0

Still(v, s) == v # None => pc'[v.by] # "idle" /\ saw'[v.by] = s

LEMMA StillSetFor ==
    ASSUME Onward, NEW v \in Values \union {None}, NEW s, SetFor(v, s)
    PROVE  Still(v, s)
  BY DEF SetFor, Still, Values, Onward

\* What the invariant says of the next state, with Still for SetFor.
KeptNext ==
    /\ \A r \in Runs : box'[r] # 0 => \A n \in Names : Still(boxes'[box'[r]].scope[n], saw'[r])
    /\ \A r \in Runs, n \in Names : Still(copy'[r][n], saw'[r])
    /\ \A r \in Runs : pc'[r] = "idle" => \A n \in Names : copy'[r][n] = None
    /\ \A r, q \in Runs : box'[r] = box'[q] /\ box'[r] # 0 => saw'[r] = saw'[q]
    /\ current' # 0 => \A n \in Names : Still(boxes'[current'].scope[n], identity')
    /\ current' # 0 => \A r \in Runs : box'[r] = current' => saw'[r] = identity'

LEMMA KeptFromNext == KeptNext => Kept'
  BY DEF KeptNext, Kept, Still, SetFor

\* Steps that set no variable and give no sandbox.
LEMMA KeptFrame ==
    ASSUME KInv, Onward,
           \A c \in 1..Len(boxes), n \in Names :
              boxes'[c].scope[n] \in {boxes[c].scope[n], None},
           \A q \in Runs : box'[q] \in {box[q], 0},
           \A q \in Runs, n \in Names : copy'[q][n] \in {copy[q][n], None},
           current' = 0 \/ (current' = current /\ identity' = identity),
           \A q \in Runs : pc'[q] = "idle" => pc[q] = "idle"
    PROVE  Kept'
  <1>1. \A q \in Runs : box[q] # 0 => box[q] \in 1..Len(boxes) /\ saw'[q] = saw[q]
    BY DEF KInv, HInv, TypeOK, Onward
  <1>2. current # 0 => current \in 1..Len(boxes)
    BY DEF KInv, HInv, TypeOK
  <1>3. ASSUME NEW r \in Runs, NEW n \in Names, box'[r] # 0
        PROVE  Still(boxes'[box'[r]].scope[n], saw'[r])
    <2>1. SetFor(boxes[box[r]].scope[n], saw[r]) /\ boxes[box[r]].scope[n] \in Values \union {None}
      BY <1>1, <1>3, ValueType DEF KInv, Kept
    <2>2. Still(boxes[box[r]].scope[n], saw[r])
      BY <2>1, StillSetFor
    <2> QED
      BY <1>1, <1>3, <2>2 DEF Still
  <1>4. ASSUME NEW r \in Runs, NEW n \in Names
        PROVE  Still(copy'[r][n], saw'[r])
    <2>1. SetFor(copy[r][n], saw[r]) /\ copy[r][n] \in Values \union {None}
      BY ValueType DEF KInv, Kept
    <2>2. Still(copy[r][n], saw[r])
      BY <2>1, StillSetFor
    <2>3. copy[r][n] # None => saw'[r] = saw[r]
      BY DEF KInv, Kept, Onward
    <2> QED
      BY <2>2, <2>3 DEF Still
  <1>5. ASSUME NEW n \in Names, current' # 0
        PROVE  Still(boxes'[current'].scope[n], identity')
    <2>1. /\ SetFor(boxes[current].scope[n], identity)
          /\ boxes[current].scope[n] \in Values \union {None}
      BY <1>2, <1>5, ValueType DEF KInv, Kept
    <2>2. Still(boxes[current].scope[n], identity)
      BY <2>1, StillSetFor
    <2> QED
      BY <1>2, <1>5, <2>2 DEF Still
  <1>6. \A r \in Runs : pc'[r] = "idle" => \A n \in Names : copy'[r][n] = None
    BY DEF KInv, Kept
  <1>7. \A r, q \in Runs : box'[r] = box'[q] /\ box'[r] # 0 => saw'[r] = saw'[q]
    BY <1>1 DEF KInv, Kept
  <1>8. current' # 0 => \A r \in Runs : box'[r] = current' => saw'[r] = identity'
    BY <1>1 DEF KInv, Kept
  <1> QED
    BY <1>3, <1>4, <1>5, <1>6, <1>7, <1>8, KeptFromNext DEF KeptNext

\* Steps that give run r sandbox b: a new one, or the session's, made for the
\* same source.
LEMMA KeptGiven ==
    ASSUME KInv, Onward, NEW r \in Runs, pc[r] # "idle", NEW b \in Nat, Given(r, b),
           \A c \in 1..Len(boxes), n \in Names :
              boxes'[c].scope[n] \in {boxes[c].scope[n], None},
           UNCHANGED <<saw, copy>>,
           \/ b = Len(boxes) + 1 /\ \A n \in Names : boxes'[b].scope[n] = None
           \/ b = current /\ current # 0 /\ identity = saw[r]
    PROVE  Kept'
  <1>1. \A q \in Runs : box[q] # 0 => box[q] \in 1..Len(boxes)
    BY DEF KInv, HInv, TypeOK
  <1>2. current # 0 => current \in 1..Len(boxes)
    BY DEF KInv, HInv, TypeOK
  <1>3. /\ current' = b /\ identity' = saw[r] /\ box'[r] = b
        /\ \A q \in Runs : q # r => box'[q] = box[q] /\ pc'[q] = pc[q]
        /\ pc'[r] # "idle"
    BY DEF Given, Goto, KInv, HInv, TypeOK
  <1>4. ASSUME NEW n \in Names PROVE Still(boxes'[b].scope[n], saw[r])
    <2>1. CASE b = Len(boxes) + 1 /\ boxes'[b].scope[n] = None
      BY <2>1 DEF Still
    <2>2. CASE b = current /\ current # 0 /\ identity = saw[r]
      <3>1. /\ SetFor(boxes[b].scope[n], saw[r])
            /\ boxes[b].scope[n] \in Values \union {None}
        BY <1>2, <2>2, ValueType DEF KInv, Kept
      <3>2. Still(boxes[b].scope[n], saw[r])
        BY <3>1, StillSetFor
      <3> QED
        BY <1>2, <2>2, <3>2 DEF Still
    <2> QED
      BY <2>1, <2>2
  <1>5. ASSUME NEW q \in Runs, NEW n \in Names, q # r, box[q] # 0
        PROVE  Still(boxes'[box[q]].scope[n], saw[q])
    <2>1. SetFor(boxes[box[q]].scope[n], saw[q]) /\ boxes[box[q]].scope[n] \in Values \union {None}
      BY <1>1, <1>5, ValueType DEF KInv, Kept
    <2>2. Still(boxes[box[q]].scope[n], saw[q])
      BY <2>1, StillSetFor
    <2> QED
      BY <1>1, <1>5, <2>2 DEF Still
  <1>6. ASSUME NEW q \in Runs, NEW n \in Names PROVE Still(copy[q][n], saw[q])
    BY ValueType, StillSetFor DEF KInv, Kept
  <1>7. \A q \in Runs : q # r /\ box[q] = b => saw[q] = saw[r]
    BY <1>1, LenProperties DEF KInv, Kept, HInv, TypeOK
  <1>8. \A q, s \in Runs : box'[q] = box'[s] /\ box'[q] # 0 => saw[q] = saw[s]
    BY <1>3, <1>7 DEF KInv, Kept
  <1> QED
    BY <1>3, <1>4, <1>5, <1>6, <1>7, <1>8, KeptFromNext DEF KeptNext, KInv, Kept

\* Steps that set one variable of a run's sandbox.
LEMMA KeptPut ==
    ASSUME KInv, Onward, NEW r \in Runs, NEW n \in Names, pc[r] \in Using, Put(r, n),
           UNCHANGED <<pc, saw, box, copy, current, identity>>
    PROVE  Kept'
  <1>1. /\ box[r] # 0
        /\ \A c \in 1..Len(boxes) : \A k \in Names :
              boxes'[c].scope[k] = IF c = box[r] /\ k = n THEN Value(r)
                                   ELSE boxes[c].scope[k]
    <2>1. TypeOK /\ box[r] # 0
      BY DEF KInv, HInv, Held
    <2>2. OneVariable(r, n)
      BY <2>1, PutType
    <2> QED
      BY <2>1, <2>2 DEF OneVariable
  <1>2. /\ \A q \in Runs : box[q] # 0 => box[q] \in 1..Len(boxes)
        /\ current # 0 => current \in 1..Len(boxes)
    BY DEF KInv, HInv, TypeOK
  <1>3. Still(Value(r), saw[r])
    BY DEF Still, Value, Using
  <1>4. ASSUME NEW b \in 1..Len(boxes), NEW k \in Names, NEW s,
               SetFor(boxes[b].scope[k], s), b = box[r] => s = saw[r]
        PROVE  Still(boxes'[b].scope[k], s)
    <2>1. Still(boxes[b].scope[k], s)
      BY <1>4, ValueType, StillSetFor DEF KInv
    <2> QED
      BY <1>1, <1>3, <1>4, <2>1
  <1>5. ASSUME NEW q \in Runs, NEW k \in Names, box[q] # 0
        PROVE  Still(boxes'[box[q]].scope[k], saw[q])
    BY <1>1, <1>2, <1>4, <1>5 DEF KInv, Kept
  <1>6. ASSUME NEW k \in Names, current # 0
        PROVE  Still(boxes'[current].scope[k], identity)
    BY <1>1, <1>2, <1>4, <1>6 DEF KInv, Kept
  <1>7. ASSUME NEW q \in Runs, NEW k \in Names PROVE Still(copy[q][k], saw[q])
    BY ValueType, StillSetFor DEF KInv, Kept
  <1> QED
    BY <1>5, <1>6, <1>7, KeptFromNext DEF KeptNext, KInv, Kept

LEMMA KeptInitially == Init => Kept
  BY DEF Init, Kept, SetFor, Empty

\* A step that leaves the started runs as they are.
LEMMA OnwardStep == HInv /\ [Next]_vars => Onward
  <1> SUFFICES ASSUME HInv, [Next]_vars PROVE Onward
    OBVIOUS
  <1>0. \A q \in Runs : pc[q] = "idle" => box[q] = 0
    BY DEF HInv, Held, Using
  <1> USE DEF HInv, Onward, Goto, session, pool, removal, run
  <1>1. ASSUME NEW r \in Runs, Load(r) PROVE Onward
    BY <1>0, <1>1 DEF TypeOK, Load
  <1>2. ASSUME NEW r \in Runs, Reuse(r) PROVE Onward
    BY <1>0, <1>2 DEF TypeOK, Reuse, Given
  <1>3. ASSUME NEW r \in Runs, Create(r) PROVE Onward
    BY <1>0, <1>3 DEF TypeOK, Create, Given
  <1>4. ASSUME NEW r \in Runs, AwaitReplacing(r) PROVE Onward
    BY <1>0, <1>4 DEF TypeOK, AwaitReplacing
  <1>5. ASSUME NEW r \in Runs, Replace(r) PROVE Onward
    BY <1>0, <1>5 DEF TypeOK, Replace, FreshBox, Given
  <1>6. ASSUME NEW r \in Runs, Bind(r) PROVE Onward
    BY <1>0, <1>6 DEF TypeOK, Bind
  <1>7. ASSUME NEW r \in Runs, NEW n \in Names, Materialize(r, n) PROVE Onward
    BY <1>0, <1>7 DEF TypeOK, Materialize
  <1>8. ASSUME NEW r \in Runs, NEW n \in Names, Publish(r, n) PROVE Onward
    BY <1>0, <1>8 DEF TypeOK, Publish
  <1>9. ASSUME NEW r \in Runs, Hit(r) PROVE Onward
    BY <1>0, <1>9 DEF TypeOK, Hit, EndCall
  <1>10. ASSUME NEW r \in Runs, Miss(r) PROVE Onward
    BY <1>0, <1>10 DEF TypeOK, Miss
  <1>11. ASSUME NEW r \in Runs, Copy(r) PROVE Onward
    BY <1>0, <1>11 DEF TypeOK, Copy
  <1>12. ASSUME NEW r \in Runs, Execute(r) PROVE Onward
    BY <1>0, <1>12 DEF TypeOK, Execute
  <1>13. ASSUME NEW r \in Runs, Fail(r) PROVE Onward
    BY <1>0, <1>13 DEF TypeOK, Fail, EndCall
  <1>14. ASSUME NEW r \in Runs, Succeed(r) PROVE Onward
    BY <1>0, <1>14 DEF TypeOK, Succeed, EndCall
  <1>15. ASSUME NEW r \in Runs, Answer(r) PROVE Onward
    BY <1>0, <1>15 DEF TypeOK, Answer
  <1>16. ASSUME NEW r \in Runs, Raise(r) PROVE Onward
    BY <1>0, <1>16 DEF TypeOK, Raise, EndCall
  <1>17. ASSUME NEW r \in Runs, Return(r) PROVE Onward
    BY <1>0, <1>17 DEF TypeOK, Return, EndCall
  <1>18. ASSUME NEW r \in Runs, Deadline(r) PROVE Onward
    BY <1>0, <1>18 DEF TypeOK, Deadline
  <1>19. ASSUME NEW r \in Runs, NEW j \in JobsOf[r], Call(r, j) PROVE Onward
    BY <1>0, <1>19 DEF TypeOK, Call
  <1>20. ASSUME NEW r \in Runs, NEW j \in JobsOf[r], Fetch(r, j) PROVE Onward
    BY <1>0, <1>20 DEF TypeOK, Fetch
  <1>21. ASSUME NEW x \in Removers, NEW s \in Sources, ChangeSource(x, s) PROVE Onward
    BY <1>0, <1>21 DEF TypeOK, ChangeSource
  <1>22. ASSUME NEW x \in Removers, DeleteMessages(x) PROVE Onward
    BY <1>0, <1>22 DEF TypeOK, DeleteMessages
  <1>23. ASSUME NEW x \in Removers, Sweep(x) PROVE Onward
    BY <1>0, <1>23 DEF TypeOK, Sweep
  <1>24. ASSUME NEW x \in Removers, NothingToRemove(x) PROVE Onward
    BY <1>0, <1>24 DEF TypeOK, NothingToRemove
  <1>25. ASSUME NEW x \in Removers, Pop(x) PROVE Onward
    BY <1>0, <1>25 DEF TypeOK, Pop
  <1>26. ASSUME NEW x \in Removers, Clear(x) PROVE Onward
    BY <1>0, <1>26 DEF TypeOK, Clear
  <1>27. ASSUME Age PROVE Onward
    BY <1>0, <1>27 DEF TypeOK, Age
  <1>28. ASSUME UNCHANGED vars PROVE Onward
    BY <1>0, <1>28 DEF TypeOK, vars
  <1> QED
    BY <1>1, <1>2, <1>3, <1>4, <1>5, <1>6, <1>7, <1>8, <1>9, <1>10, <1>11, <1>12, <1>13, <1>14, <1>15, <1>16, <1>17, <1>18, <1>19, <1>20, <1>21, <1>22, <1>23, <1>24, <1>25, <1>26, <1>27, <1>28
    DEF Next, Thread, Prepare, Tool, Remove

LEMMA KeptStep == KInv /\ [Next]_vars => Kept'
  <1> SUFFICES ASSUME KInv, [Next]_vars PROVE Kept'
    OBVIOUS
  <1>0. Onward /\ HInv
    BY OnwardStep DEF KInv
  <1> USE DEF Goto, session, pool, removal, run
  <1>1. ASSUME NEW r \in Runs, Load(r) PROVE Kept'
    BY <1>0, <1>1, KeptFrame DEF HInv, TypeOK, Load
  <1>2. ASSUME NEW r \in Runs, Reuse(r) PROVE Kept'
    <2>1. /\ Given(r, current) /\ current \in Nat /\ current # 0 /\ identity = saw[r]
          /\ pc[r] # "idle" /\ UNCHANGED <<boxes, saw, copy>>
      BY <1>0, <1>2 DEF HInv, TypeOK, Reuse, Outdated
    <2> QED
      BY <1>0, <2>1, KeptGiven
  <1>3. ASSUME NEW r \in Runs, Create(r) PROVE Kept'
    <2>1. /\ Given(r, Len(boxes) + 1) /\ Len(boxes) + 1 \in Nat /\ pc[r] # "idle"
          /\ UNCHANGED <<saw, copy>>
      BY <1>0, <1>3, LenProperties DEF HInv, TypeOK, Create
    <2>2. /\ \A c \in 1..Len(boxes) : boxes'[c] = boxes[c]
          /\ boxes'[Len(boxes) + 1].scope = Empty
      BY <1>0, <1>3, AddOne, NewBoxType DEF HInv, TypeOK, Create, NewBox, Box
    <2>3. \A n \in Names : boxes'[Len(boxes) + 1].scope[n] = None
      BY <2>2 DEF Empty
    <2> QED
      BY <1>0, <2>1, <2>2, <2>3, KeptGiven
  <1>4. ASSUME NEW r \in Runs, AwaitReplacing(r) PROVE Kept'
    BY <1>0, <1>4, KeptFrame DEF HInv, TypeOK, AwaitReplacing
  <1>5. ASSUME NEW r \in Runs, Replace(r) PROVE Kept'
    <2>1. /\ Given(r, Len(boxes) + 1) /\ Len(boxes) + 1 \in Nat /\ pc[r] # "idle"
          /\ UNCHANGED <<saw, copy>>
      BY <1>0, <1>5, LenProperties DEF HInv, TypeOK, Replace, FreshBox
    <2>2. current \in 1..Len(boxes)
      BY <1>0, <1>5 DEF HInv, TypeOK, Held, Replace
    <2>3. /\ Cleared(current) \in Seq(Boxes) /\ Len(Cleared(current)) = Len(boxes)
          /\ Cleared(current)[current].scope = Empty
          /\ \A c \in 1..Len(boxes) : c # current => Cleared(current)[c] = boxes[c]
      BY <1>0, <2>2, ClearedType DEF HInv, TypeOK
    <2>4. /\ \A c \in 1..Len(boxes) : boxes'[c] = Cleared(current)[c]
          /\ boxes'[Len(boxes) + 1].scope = Empty
      BY <1>5, <2>3, AddOne, NewBoxType DEF Replace, FreshBox, NewBox, Box
    <2>5. /\ \A c \in 1..Len(boxes), n \in Names :
                boxes'[c].scope[n] \in {boxes[c].scope[n], None}
          /\ \A n \in Names : boxes'[Len(boxes) + 1].scope[n] = None
      BY <2>3, <2>4 DEF Empty
    <2> QED
      BY <1>0, <2>1, <2>5, KeptGiven
  <1>6. ASSUME NEW r \in Runs, Bind(r) PROVE Kept'
    BY <1>0, <1>6, KeptFrame DEF HInv, TypeOK, Bind
  <1>7. ASSUME NEW r \in Runs, NEW n \in Names, Materialize(r, n) PROVE Kept'
    <2>1. pc[r] \in Using
      BY <1>7 DEF Materialize, Using
    <2> QED
      BY <1>0, <1>7, <2>1, KeptPut DEF Materialize
  <1>8. ASSUME NEW r \in Runs, NEW n \in Names, Publish(r, n) PROVE Kept'
    <2>1. pc[r] \in Using
      BY <1>8 DEF Publish, Using
    <2> QED
      BY <1>0, <1>8, <2>1, KeptPut DEF Publish
  <1>9. ASSUME NEW r \in Runs, Hit(r) PROVE Kept'
    BY <1>0, <1>9, KeptFrame DEF HInv, TypeOK, EndCall, Empty, Hit
  <1>10. ASSUME NEW r \in Runs, Miss(r) PROVE Kept'
    BY <1>0, <1>10, KeptFrame DEF HInv, TypeOK, Miss
  <1>11. ASSUME NEW r \in Runs, Copy(r) PROVE Kept'
    <2>1. /\ box[r] # 0 /\ box[r] \in 1..Len(boxes)
      BY <1>0, <1>11 DEF HInv, TypeOK, Held, Using, Copy
    <2>2. ASSUME NEW q \in Runs, NEW n \in Names PROVE Still(copy'[q][n], saw[q])
      <3>1. CASE q = r
        <4>1. copy'[q][n] = boxes[box[r]].scope[n]
          BY <1>0, <1>11, <3>1 DEF HInv, TypeOK, Copy
        <4> QED
          BY <1>0, <2>1, <3>1, <4>1, ValueType, StillSetFor DEF KInv, Kept
      <3>2. CASE q # r
        <4>1. copy'[q][n] = copy[q][n]
          BY <1>0, <1>11, <3>2 DEF HInv, TypeOK, Copy
        <4> QED
          BY <1>0, <4>1, ValueType, StillSetFor DEF KInv, Kept
      <3> QED
        BY <3>1, <3>2
    <2>3. /\ UNCHANGED <<boxes, current, identity, box, saw>>
          /\ \A q \in Runs : pc'[q] = "idle" => q # r /\ pc[q] = "idle"
          /\ \A q \in Runs : q # r => copy'[q] = copy[q]
      BY <1>0, <1>11 DEF HInv, TypeOK, Copy
    <2>4. ASSUME NEW q \in Runs, NEW n \in Names, box[q] # 0
          PROVE  Still(boxes[box[q]].scope[n], saw[q])
      <3>1. box[q] \in 1..Len(boxes)
        BY <1>0, <2>4 DEF HInv, TypeOK
      <3> QED
        BY <1>0, <2>4, <3>1, ValueType, StillSetFor DEF KInv, Kept
    <2>5. ASSUME NEW n \in Names, current # 0
          PROVE  Still(boxes[current].scope[n], identity)
      <3>1. current \in 1..Len(boxes)
        BY <1>0, <2>5 DEF HInv, TypeOK
      <3> QED
        BY <1>0, <2>5, <3>1, ValueType, StillSetFor DEF KInv, Kept
    <2> QED
      BY <2>2, <2>3, <2>4, <2>5, KeptFromNext DEF KeptNext, KInv, Kept
  <1>12. ASSUME NEW r \in Runs, Execute(r) PROVE Kept'
    <2>1. \A c \in 1..Len(boxes) : boxes'[c].scope = boxes[c].scope
      BY <1>0, <1>12, OwnBox, LockType DEF Execute, Using
    <2> QED
      BY <1>0, <1>12, <2>1, KeptFrame DEF HInv, TypeOK, Execute
  <1>13. ASSUME NEW r \in Runs, Fail(r) PROVE Kept'
    <2>1. \A c \in 1..Len(boxes) : boxes'[c].scope = boxes[c].scope
      BY <1>0, <1>13, OwnBox, LockType DEF Fail, Terminated, Using
    <2> QED
      BY <1>0, <1>13, <2>1, KeptFrame DEF HInv, TypeOK, Fail, EndCall, Empty
  <1>14. ASSUME NEW r \in Runs, Succeed(r) PROVE Kept'
    BY <1>0, <1>14, KeptFrame DEF HInv, TypeOK, EndCall, Empty, Succeed
  <1>15. ASSUME NEW r \in Runs, Answer(r) PROVE Kept'
    BY <1>0, <1>15, KeptFrame DEF HInv, TypeOK, Answer
  <1>16. ASSUME NEW r \in Runs, Raise(r) PROVE Kept'
    BY <1>0, <1>16, KeptFrame DEF HInv, TypeOK, EndCall, Empty, Raise
  <1>17. ASSUME NEW r \in Runs, Return(r) PROVE Kept'
    <2>1. \A c \in 1..Len(boxes) : boxes'[c].scope = boxes[c].scope
      BY <1>0, <1>17, OwnBox, ExecutedType DEF Return, Using
    <2>2. \/ copy' = copy
          \/ copy' = [copy EXCEPT ![r] = Empty]
      BY <1>17 DEF Return, EndCall
    <2>3. \A q \in Runs, n \in Names : copy'[q][n] \in {copy[q][n], None}
      <3>1. ASSUME NEW q \in Runs, NEW n \in Names PROVE copy'[q][n] \in {copy[q][n], None}
        <4>1. copy \in [Runs -> Scopes]
          BY <1>0 DEF HInv, TypeOK
        <4>2. copy'[q] = copy[q] \/ copy'[q] = Empty
          BY <2>2, <4>1
        <4> QED
          BY <4>2 DEF Empty
      <3> QED
        BY <3>1
    <2>4. /\ \A q \in Runs : pc'[q] = "idle" => pc[q] = "idle"
          /\ UNCHANGED <<box, current, identity>>
      BY <1>0, <1>17 DEF HInv, TypeOK, Return, EndCall
    <2> QED
      BY <1>0, <2>1, <2>3, <2>4, KeptFrame
  <1>18. ASSUME NEW r \in Runs, Deadline(r) PROVE Kept'
    BY <1>0, <1>18, KeptFrame DEF HInv, TypeOK, Deadline
  <1>19. ASSUME NEW r \in Runs, NEW j \in JobsOf[r], Call(r, j) PROVE Kept'
    BY <1>0, <1>19, KeptFrame DEF HInv, TypeOK, Call
  <1>20. ASSUME NEW r \in Runs, NEW j \in JobsOf[r], Fetch(r, j) PROVE Kept'
    BY <1>0, <1>20, KeptFrame DEF HInv, TypeOK, Fetch
  <1>21. ASSUME NEW x \in Removers, NEW s \in Sources, ChangeSource(x, s) PROVE Kept'
    BY <1>0, <1>21, KeptFrame DEF HInv, TypeOK, ChangeSource, Begin
  <1>22. ASSUME NEW x \in Removers, DeleteMessages(x) PROVE Kept'
    BY <1>0, <1>22, KeptFrame DEF HInv, TypeOK, DeleteMessages, Begin
  <1>23. ASSUME NEW x \in Removers, Sweep(x) PROVE Kept'
    BY <1>0, <1>23, KeptFrame DEF HInv, TypeOK, Sweep
  <1>24. ASSUME NEW x \in Removers, NothingToRemove(x) PROVE Kept'
    BY <1>0, <1>24, KeptFrame DEF HInv, TypeOK, NothingToRemove
  <1>25. ASSUME NEW x \in Removers, Pop(x) PROVE Kept'
    BY <1>0, <1>25, KeptFrame DEF HInv, TypeOK, Pop
  <1>26. ASSUME NEW x \in Removers, Clear(x) PROVE Kept'
    <2>1. current \in 1..Len(boxes)
      BY <1>0, <1>26 DEF HInv, TypeOK, Held, Clear
    <2>2. \A c \in 1..Len(boxes), n \in Names :
             boxes'[c].scope[n] \in {boxes[c].scope[n], None}
      <3>1. /\ Cleared(current)[current].scope = Empty
            /\ \A c \in 1..Len(boxes) : c # current => Cleared(current)[c] = boxes[c]
        BY <1>0, <2>1, ClearedType DEF HInv, TypeOK
      <3>2. boxes' = Cleared(current)
        BY <1>26 DEF Clear
      <3> QED
        BY <3>1, <3>2 DEF Empty
    <2> QED
      BY <1>0, <1>26, <2>2, KeptFrame DEF HInv, TypeOK, Clear
  <1>27. ASSUME Age PROVE Kept'
    BY <1>0, <1>27, KeptFrame DEF HInv, TypeOK, Age
  <1>28. ASSUME UNCHANGED vars PROVE Kept'
    BY <1>0, <1>28, KeptFrame DEF HInv, TypeOK, vars
  <1> QED
    BY <1>1, <1>2, <1>3, <1>4, <1>5, <1>6, <1>7, <1>8, <1>9, <1>10, <1>11, <1>12, <1>13, <1>14, <1>15, <1>16, <1>17, <1>18, <1>19, <1>20, <1>21, <1>22, <1>23, <1>24, <1>25, <1>26, <1>27, <1>28
    DEF Next, Thread, Prepare, Tool, Remove

\* Whatever the removers do and however runs overlap, a run's sandbox and what
\* its code reads hold only what runs of the same source have set
\* (get_or_create_for_source, remove, execute).
THEOREM SourcesStayApart == Spec => []SourcesDoNotMix
  <1>1. Init => KInv
    BY HeldInitially, KeptInitially DEF KInv
  <1>2. KInv /\ [Next]_vars => KInv'
    BY HeldStep, KeptStep DEF KInv
  <1>3. KInv => SourcesDoNotMix
    BY DEF KInv, Kept, SetFor, SourcesDoNotMix
  <1> QED
    BY <1>1, <1>2, <1>3, PTL DEF Spec

-----------------------------------------------------------------------------
(* Reports                                                                  *)

At(n) == boxes[current].scope[n]

\* The value under n is there, and r's only if its latest call has set it.
Published(r, n) == At(n) # None /\ (At(n).by = r => At(n) = Value(r))

\* The value under n is there, and r's only if it is the one reported or one
\* of a later call.
Reported(r, n) ==
    /\ At(n) # None
    /\ told[r][n].call <= calls[r]
    /\ At(n).by = r => told[r][n].call <= At(n).call

Own(r) == current # 0 /\ box[r] = current

Fresh(r) == (\A n \in Names : told[r][n] = None) /\ cache[r] = {}

\* Why a report of run r stays true of its sandbox: what it has cached is from
\* before the latest execution, so that no cached result is ever reported again.
PutsOf(r) ==
    /\ pc[r] \in {"idle", "loaded", "replacing"} => Fresh(r)
    /\ pc[r] = "publishing" => job[r].left \subseteq job[r].items
    /\ Own(r) =>
         /\ \A c \in cache[r] : c.key < boxes[current].count
         /\ pc[r] \in {"checking", "waiting", "executing"} =>
              job[r].key \in Nat /\ job[r].key <= boxes[current].count
         /\ pc[r] = "publishing" =>
              job[r].key = None \/ job[r].key < boxes[current].count
         /\ pc[r] = "publishing" => \A n \in job[r].items \ job[r].left : Published(r, n)
         /\ \A n \in Names : told[r][n] # None => Reported(r, n)

Puts == \A r \in Runs : PutsOf(r)

LEMMA PutsInitially == Init => Puts
  BY DEF Init, Puts, PutsOf, Own, Fresh, Empty

\* Nothing of run q itself changes.
Same(q) ==
    /\ told'[q] = told[q] /\ cache'[q] = cache[q] /\ job'[q] = job[q]
    /\ pc'[q] = pc[q] /\ calls'[q] = calls[q]

\* Nothing q has set changes in the session's sandbox, if q has it.
Steady(q) ==
    Own(q)' => /\ Own(q) /\ current' = current
               /\ boxes'[current].count >= boxes[current].count
               /\ boxes'[current].count \in Nat
               /\ \A n \in Names :
                    \/ boxes'[current].scope[n] = boxes[current].scope[n]
                    \/ boxes'[current].scope[n] # None /\ boxes'[current].scope[n].by # q

\* The session's sandbox, if a run has it.
LEMMA OwnType ==
    ASSUME HInv, NEW r \in Runs, Own(r)
    PROVE  /\ current \in 1..Len(boxes) /\ boxes[current] \in Boxes
           /\ boxes[current].count \in Nat
           /\ \A n \in Names : At(n) \in Values \union {None}
  <1>1. current \in 1..Len(boxes) /\ boxes[current] \in Boxes
    BY DEF HInv, TypeOK, Own
  <1> QED
    BY <1>1 DEF Boxes, Scopes, At

\* The steps of others.
LEMMA PutsFrame ==
    ASSUME HInv, NEW q \in Runs, PutsOf(q), Same(q), Steady(q)
    PROVE  PutsOf(q)'
  <1>1. CASE ~Own(q)'
    BY <1>1 DEF PutsOf, Same, Fresh
  <1>2. CASE Own(q)'
    <2>1. Own(q) /\ current' = current /\ boxes[current].count \in Nat
      BY <1>2, OwnType DEF Steady
    <2>2. \A n \in Names : Reported(q, n) => Reported(q, n)'
      BY <1>2, <2>1 DEF Reported, Steady, Same, At
    <2>3. \A n \in Names : Published(q, n) => Published(q, n)'
      BY <1>2, <2>1 DEF Published, Steady, Same, At, Value
    <2>4. job[q] \in Doings /\ cache[q] \in SUBSET Results
      BY DEF HInv, TypeOK
    <2>5. \A c \in cache[q] : c.key < boxes'[current].count
      BY <1>2, <2>1, <2>4 DEF PutsOf, Steady, Results
    <2>6. /\ pc[q] \in {"checking", "waiting", "executing"} =>
                job[q].key \in Nat /\ job[q].key <= boxes'[current].count
          /\ pc[q] = "publishing" => job[q].key = None \/ job[q].key < boxes'[current].count
      BY <1>2, <2>1, <2>4 DEF PutsOf, Steady, Doings
    <2>7. job[q].items \subseteq Names
      BY <2>4 DEF Doings
    <2> QED
      BY <1>2, <2>1, <2>2, <2>3, <2>5, <2>6, <2>7 DEF PutsOf, Same, Fresh
  <1> QED
    BY <1>1, <1>2

\* Steps that leave the sandboxes alone.
LEMMA SteadyUnchanged ==
    ASSUME HInv, NEW q \in Runs, UNCHANGED <<boxes, current>>, box'[q] \in {box[q], 0}
    PROVE  Steady(q)
  <1> SUFFICES ASSUME Own(q)' PROVE Own(q)
    BY OwnType, SMT DEF Steady
  <1> QED
    BY DEF Own

\* Steps of another run in the sandbox.
LEMMA SteadyInUse ==
    ASSUME HInv, NEW q \in Runs, UNCHANGED <<current, box>>,
           \A c \in 1..Len(boxes) :
             /\ boxes'[c].count >= boxes[c].count /\ boxes'[c].count \in Nat
             /\ \A n \in Names :
                  \/ boxes'[c].scope[n] = boxes[c].scope[n]
                  \/ boxes'[c].scope[n] # None /\ boxes'[c].scope[n].by # q
    PROVE  Steady(q)
  <1> SUFFICES ASSUME Own(q)' PROVE /\ Own(q) /\ current \in 1..Len(boxes)
    BY DEF Steady
  <1> QED
    BY OwnType DEF Own

LEMMA CountType ==
    ASSUME HInv
    PROVE  \A c \in 1..Len(boxes) : boxes[c].count \in Nat
  <1>1. \A c \in 1..Len(boxes) : boxes[c] \in Boxes
    BY DEF HInv, TypeOK
  <1> QED
    BY <1>1 DEF Boxes

\* Steps of a run that neither publish nor report.
Quiet(r) ==
    /\ pc'[r] # "publishing"
    /\ calls[r] \in Nat /\ calls'[r] \in Nat /\ calls'[r] >= calls[r]
    /\ cache'[r] = cache[r]
    /\ boxes'[current].count \in Nat /\ boxes'[current].count >= boxes[current].count
    /\ \A n \in Names : told'[r][n] # None =>
          told'[r][n] = told[r][n] /\ boxes'[current].scope[n] = boxes[current].scope[n]
    /\ pc'[r] \in {"checking", "waiting", "executing"} =>
          job'[r].key \in Nat /\ job'[r].key <= boxes'[current].count

LEMMA OwnQuiet ==
    ASSUME HInv, NEW r \in Runs, PutsOf(r), UNCHANGED current, box'[r] = box[r],
           pc'[r] \notin {"idle", "loaded", "replacing", "publishing"}, Own(r) => Quiet(r)
    PROVE  PutsOf(r)'
  <1>1. CASE ~Own(r)
    BY <1>1 DEF PutsOf, Own
  <1>2. CASE Own(r)
    <2>1. /\ Own(r)' /\ boxes[current].count \in Nat
          /\ \A c \in cache[r] : c.key \in Nat /\ c.key < boxes[current].count
      <3>1. cache[r] \in SUBSET Results
        BY DEF HInv, TypeOK
      <3> QED
        BY <1>2, <3>1, OwnType DEF Own, PutsOf, Results
    <2>2. ASSUME NEW n \in Names, told'[r][n] # None PROVE Reported(r, n)'
      <3>1. Reported(r, n) /\ told'[r][n] = told[r][n] /\ told[r][n].call \in Nat
        BY <1>2, <2>2 DEF PutsOf, Quiet, HInv, TypeOK, Scopes, Values
      <3> QED
        BY <1>2, <2>2, <3>1 DEF Quiet, Reported, At, Own
    <2> QED
      BY <1>2, <2>1, <2>2 DEF PutsOf, Quiet
  <1> QED
    BY <1>1, <1>2

LEMMA PutsStep == HInv /\ Puts /\ [Next]_vars => Puts'
  <1> SUFFICES ASSUME HInv, Puts, [Next]_vars PROVE Puts'
    OBVIOUS
  <1> USE DEF Goto, session, pool, removal, run
  <1>0. ASSUME NEW r \in Runs, PutsOf(r)',
               \A q \in Runs : q # r => Same(q) /\ Steady(q)
        PROVE  Puts'
    BY <1>0, PutsFrame DEF Puts
  <1>00. ASSUME \A q \in Runs : Same(q) /\ Steady(q) PROVE Puts'
    BY <1>00, PutsFrame DEF Puts
  <1>1. ASSUME NEW r \in Runs, Load(r) PROVE Puts'
    <2>1. ASSUME NEW q \in Runs, q # r PROVE Same(q) /\ Steady(q)
      BY <1>1, <2>1, SteadyUnchanged DEF HInv, TypeOK, Same, Load
    <2>2. PutsOf(r)'
      BY <1>1 DEF HInv, TypeOK, Held, Using, Puts, PutsOf, Own, Fresh, Load
    <2> QED
      BY <1>0, <2>1, <2>2
  <1>2. ASSUME NEW r \in Runs, Reuse(r) PROVE Puts'
    <2>1. ASSUME NEW q \in Runs, q # r PROVE Same(q) /\ Steady(q)
      BY <1>2, <2>1, SteadyUnchanged DEF HInv, TypeOK, Same, Reuse, Given
    <2>2. PutsOf(r)'
      BY <1>2 DEF HInv, TypeOK, Puts, PutsOf, Own, Fresh, Reported, Reuse, Given
    <2> QED
      BY <1>0, <2>1, <2>2
  <1>3. ASSUME NEW r \in Runs, Create(r) PROVE Puts'
    <2>1. ASSUME NEW q \in Runs, q # r PROVE Same(q) /\ Steady(q)
      <3>1. Same(q) /\ box'[q] \in 0..Len(boxes) /\ current' = Len(boxes) + 1
        BY <1>3, <2>1 DEF HInv, TypeOK, Same, Create, Given
      <3>2. ~Own(q)'
        BY <3>1, LenProperties DEF Own, HInv, TypeOK
      <3> QED
        BY <3>1, <3>2 DEF Steady
    <2>2. PutsOf(r)'
      BY <1>3 DEF HInv, TypeOK, Puts, PutsOf, Own, Fresh, Reported, Create, Given
    <2> QED
      BY <1>0, <2>1, <2>2
  <1>4. ASSUME NEW r \in Runs, AwaitReplacing(r) PROVE Puts'
    <2>1. ASSUME NEW q \in Runs, q # r PROVE Same(q) /\ Steady(q)
      BY <1>4, <2>1, SteadyUnchanged DEF HInv, TypeOK, Same, AwaitReplacing
    <2>2. PutsOf(r)'
      BY <1>4 DEF HInv, TypeOK, Held, Using, Puts, PutsOf, Own, Fresh, AwaitReplacing
    <2> QED
      BY <1>0, <2>1, <2>2
  <1>5. ASSUME NEW r \in Runs, Replace(r) PROVE Puts'
    <2>1. ASSUME NEW q \in Runs, q # r PROVE Same(q) /\ Steady(q)
      <3>1. Same(q) /\ box'[q] \in 0..Len(boxes) /\ current' = Len(boxes) + 1
        BY <1>5, <2>1 DEF HInv, TypeOK, Same, Replace, FreshBox, Given
      <3>2. ~Own(q)'
        BY <3>1, LenProperties DEF Own, HInv, TypeOK
      <3> QED
        BY <3>1, <3>2 DEF Steady
    <2>2. PutsOf(r)'
      BY <1>5 DEF HInv, TypeOK, Puts, PutsOf, Own, Fresh, Reported, Replace, FreshBox, Given
    <2> QED
      BY <1>0, <2>1, <2>2
  <1>6. ASSUME NEW r \in Runs, Bind(r) PROVE Puts'
    <2>1. ASSUME NEW q \in Runs, q # r PROVE Same(q) /\ Steady(q)
      BY <1>6, <2>1, SteadyUnchanged DEF HInv, TypeOK, Same, Bind
    <2>2. PutsOf(r)'
      <3>1. /\ PutsOf(r) /\ UNCHANGED current /\ box'[r] = box[r]
            /\ pc'[r] \notin {"idle", "loaded", "replacing", "publishing"}
        BY <1>6 DEF Puts, HInv, TypeOK, Bind, Doing
      <3>2. ASSUME Own(r) PROVE Quiet(r)
        BY <1>6, <3>1, <3>2, OwnType DEF HInv, TypeOK, Quiet, PutsOf, Own, Bind, Doing
      <3> QED
        BY <3>1, <3>2, OwnQuiet
    <2> QED
      BY <1>0, <2>1, <2>2
  <1>7. ASSUME NEW r \in Runs, NEW n \in Names, Materialize(r, n) PROVE Puts'
    <2>0. /\ OneVariable(r, n) /\ \A c \in 1..Len(boxes) : boxes'[c].count = boxes[c].count
          /\ job'[r] = Doing(job[r].inputs, job[r].items, job[r].left \ {n}, job[r].key)
          /\ \A q \in Runs : q # r => job'[q] = job[q]
      <3>1. TypeOK /\ box[r] # 0 /\ Put(r, n)
        BY <1>7 DEF HInv, Held, Using, Materialize
      <3> QED
        BY <3>1, PutType
    <2>1. ASSUME NEW q \in Runs, q # r PROVE Same(q) /\ Steady(q)
      <3>1. Same(q) /\ UNCHANGED <<current, box>>
        BY <1>7, <2>0, <2>1 DEF HInv, TypeOK, Same, Materialize
      <3>2. \A c \in 1..Len(boxes) : boxes[c].count \in Nat
        BY CountType
      <3>3. Value(r) # None /\ Value(r).by = r
        BY SandboxAssumption DEF HInv, TypeOK, Value
      <3> QED
        BY <2>0, <2>1, <3>1, <3>2, <3>3, SteadyInUse DEF OneVariable
    <2>2. PutsOf(r)'
      <3>1. /\ PutsOf(r) /\ UNCHANGED current /\ box'[r] = box[r]
            /\ pc'[r] \notin {"idle", "loaded", "replacing", "publishing"}
        BY <1>7 DEF Puts, HInv, TypeOK, Materialize, Doing, OneVariable
      <3>2. ASSUME Own(r) PROVE Quiet(r)
        <4>1. /\ told'[r][n] = None
              /\ \A k \in Names : k # n => told'[r][k] = told[r][k]
          BY <1>7 DEF HInv, TypeOK, Scopes, Materialize
        <4>2. \A k \in Names : k # n => boxes'[current].scope[k] = boxes[current].scope[k]
          BY <2>0, <3>2, OwnType DEF OneVariable
        <4>3. boxes'[current].count = boxes[current].count /\ boxes[current].count \in Nat
          BY <2>0, <3>2, OwnType
        <4>4. /\ pc[r] = "loading" /\ pc'[r] = "loading" /\ cache' = cache
              /\ calls' = calls /\ calls[r] \in Nat
          BY <1>7 DEF Materialize, HInv, TypeOK
        <4> QED
          BY <4>1, <4>2, <4>3, <4>4 DEF Quiet
      <3> QED
        BY <3>1, <3>2, OwnQuiet
    <2> QED
      BY <1>0, <2>1, <2>2
  <1>8. ASSUME NEW r \in Runs, NEW n \in Names, Publish(r, n) PROVE Puts'
    <2>0. /\ OneVariable(r, n) /\ \A c \in 1..Len(boxes) : boxes'[c].count = boxes[c].count
          /\ job'[r] = Doing(job[r].inputs, job[r].items, job[r].left \ {n}, job[r].key)
          /\ \A q \in Runs : q # r => job'[q] = job[q]
      <3>1. TypeOK /\ box[r] # 0 /\ Put(r, n)
        BY <1>8 DEF HInv, Held, Using, Publish
      <3> QED
        BY <3>1, PutType
    <2>1. ASSUME NEW q \in Runs, q # r PROVE Same(q) /\ Steady(q)
      <3>1. Same(q) /\ UNCHANGED <<current, box>>
        BY <1>8, <2>0, <2>1 DEF HInv, TypeOK, Same, Publish
      <3>2. \A c \in 1..Len(boxes) : boxes[c].count \in Nat
        BY CountType
      <3>3. Value(r) # None /\ Value(r).by = r
        BY SandboxAssumption DEF HInv, TypeOK, Value
      <3> QED
        BY <2>0, <2>1, <3>1, <3>2, <3>3, SteadyInUse DEF OneVariable
    <2>2. PutsOf(r)'
      <3>1. /\ PutsOf(r) /\ pc[r] = "publishing"
            /\ UNCHANGED <<pc, told, cache, current, box, calls>>
        BY <1>8 DEF Puts, Publish
      <3>2. /\ job'[r].left = job[r].left \ {n}
            /\ job'[r].items = job[r].items /\ job'[r].key = job[r].key
        BY <2>0 DEF Doing
      <3>3. CASE ~Own(r)
        BY <3>1, <3>2, <3>3 DEF PutsOf, Own
      <3>4. CASE Own(r)
        <4>1. /\ boxes'[current].count = boxes[current].count
              /\ \A k \in Names : boxes'[current].scope[k] =
                                    IF k = n THEN Value(r) ELSE boxes[current].scope[k]
          BY <2>0, <3>4, OwnType DEF OneVariable, Own
        <4>2. Value(r) # None /\ Value(r)' = Value(r) /\ job[r].items \subseteq Names
          BY <3>1, SandboxAssumption DEF HInv, TypeOK, Value, Doings
        <4>3. ASSUME NEW k \in job[r].items \ (job[r].left \ {n}) PROVE Published(r, k)'
          <5>1. k # n => Published(r, k)
            BY <3>1, <3>4, <4>3 DEF PutsOf
          <5> QED
            BY <3>1, <4>1, <4>2, <5>1 DEF Published, At
        <4>4. ASSUME NEW k \in Names, told[r][k] # None PROVE Reported(r, k)'
          <5>1. Reported(r, k)
            BY <3>1, <3>4, <4>4 DEF PutsOf
          <5>2. n \in job[r].left /\ job[r].left \subseteq job[r].items
            BY <1>8, <3>1 DEF Publish, Put, PutsOf
          <5>3. Value(r).call = calls[r] /\ told[r][k].call \in Nat
            BY <4>4 DEF Value, HInv, TypeOK, Scopes, Values
          <5> QED
            BY <3>1, <3>2, <4>1, <4>2, <5>1, <5>2, <5>3 DEF Reported, At
        <4> QED
          BY <3>1, <3>2, <3>4, <4>1, <4>3, <4>4 DEF PutsOf, Own
      <3> QED
        BY <3>3, <3>4
    <2> QED
      BY <1>0, <2>1, <2>2
  <1>9. ASSUME NEW r \in Runs, Hit(r) PROVE Puts'
    <2>1. ASSUME NEW q \in Runs, q # r PROVE Same(q) /\ Steady(q)
      BY <1>9, <2>1, SteadyUnchanged DEF HInv, TypeOK, Same, Hit, EndCall, Report
    <2>2. PutsOf(r)'
      <3>1. /\ PutsOf(r) /\ UNCHANGED current /\ box'[r] = box[r]
            /\ pc'[r] \notin {"idle", "loaded", "replacing", "publishing"}
        BY <1>9 DEF Puts, HInv, TypeOK, Hit, EndCall, Report
      <3>3. ~Own(r)
        <4>1. PICK c \in cache[r] : c.key = boxes[box[r]].count
          BY <1>9 DEF Hit, Hits
        <4>2. cache[r] \in SUBSET Results
          BY DEF HInv, TypeOK
        <4> QED
          BY <3>1, <4>1, <4>2, OwnType DEF PutsOf, Own, Results
      <3>2. ASSUME Own(r) PROVE Quiet(r)
        BY <1>9, <3>3, <3>1, <3>2, OwnType DEF HInv, TypeOK, Quiet, PutsOf, Own, Hit, EndCall, Report
      <3> QED
        BY <3>1, <3>2, OwnQuiet
    <2> QED
      BY <1>0, <2>1, <2>2
  <1>10. ASSUME NEW r \in Runs, Miss(r) PROVE Puts'
    <2>1. ASSUME NEW q \in Runs, q # r PROVE Same(q) /\ Steady(q)
      BY <1>10, <2>1, SteadyUnchanged DEF HInv, TypeOK, Same, Miss
    <2>2. PutsOf(r)'
      <3>1. /\ PutsOf(r) /\ UNCHANGED current /\ box'[r] = box[r]
            /\ pc'[r] \notin {"idle", "loaded", "replacing", "publishing"}
        BY <1>10 DEF Puts, HInv, TypeOK, Miss, Doing
      <3>2. ASSUME Own(r) PROVE Quiet(r)
        BY <1>10, <3>1, <3>2, OwnType DEF HInv, TypeOK, Quiet, PutsOf, Own, Miss, Doing
      <3> QED
        BY <3>1, <3>2, OwnQuiet
    <2> QED
      BY <1>0, <2>1, <2>2
  <1>11. ASSUME NEW r \in Runs, Copy(r) PROVE Puts'
    <2>1. ASSUME NEW q \in Runs, q # r PROVE Same(q) /\ Steady(q)
      BY <1>11, <2>1, SteadyUnchanged DEF HInv, TypeOK, Same, Copy
    <2>2. PutsOf(r)'
      <3>1. /\ PutsOf(r) /\ UNCHANGED current /\ box'[r] = box[r]
            /\ pc'[r] \notin {"idle", "loaded", "replacing", "publishing"}
        BY <1>11 DEF Puts, HInv, TypeOK, Copy, Doing
      <3>2. ASSUME Own(r) PROVE Quiet(r)
        BY <1>11, <3>1, <3>2, OwnType DEF HInv, TypeOK, Quiet, PutsOf, Own, Copy, Doing
      <3> QED
        BY <3>1, <3>2, OwnQuiet
    <2> QED
      BY <1>0, <2>1, <2>2
  <1>12. ASSUME NEW r \in Runs, Execute(r) PROVE Puts'
    <2>0. \A c \in 1..Len(boxes) :
             /\ boxes'[c].scope = boxes[c].scope /\ boxes[c].count \in Nat
             /\ boxes'[c].count = boxes[c].count
      <3>1. \A c \in 1..Len(boxes) : boxes[c].count \in Nat
        BY CountType
      <3> QED
        BY <1>12, <3>1, OwnBox, LockType DEF Execute, Using
    <2>1. ASSUME NEW q \in Runs, q # r PROVE Same(q) /\ Steady(q)
      <3>1. Same(q) /\ UNCHANGED <<current, box>>
        BY <1>12, <2>1 DEF HInv, TypeOK, Same, Execute
      <3> QED
        BY <2>0, <3>1, SteadyInUse
    <2>2. PutsOf(r)'
      <3>1. /\ PutsOf(r) /\ UNCHANGED current /\ box'[r] = box[r]
            /\ pc'[r] \notin {"idle", "loaded", "replacing", "publishing"}
        BY <1>12 DEF Puts, HInv, TypeOK, Execute, Doing, OneVariable
      <3>2. ASSUME Own(r) PROVE Quiet(r)
        BY <1>12, <2>0, <3>1, <3>2, OwnType DEF HInv, TypeOK, Quiet, PutsOf, Own, Execute, Doing, OneVariable
      <3> QED
        BY <3>1, <3>2, OwnQuiet
    <2> QED
      BY <1>0, <2>1, <2>2
  <1>13. ASSUME NEW r \in Runs, Fail(r) PROVE Puts'
    <2>0. \A c \in 1..Len(boxes) :
             /\ boxes'[c].scope = boxes[c].scope /\ boxes[c].count \in Nat
             /\ boxes'[c].count = boxes[c].count
      <3>1. \A c \in 1..Len(boxes) : boxes[c].count \in Nat
        BY CountType
      <3> QED
        BY <1>13, <3>1, OwnBox, LockType DEF Fail, Using, Terminated
    <2>1. ASSUME NEW q \in Runs, q # r PROVE Same(q) /\ Steady(q)
      <3>1. Same(q) /\ UNCHANGED <<current, box>>
        BY <1>13, <2>1 DEF HInv, TypeOK, Same, Fail, EndCall
      <3> QED
        BY <2>0, <3>1, SteadyInUse
    <2>2. PutsOf(r)'
      <3>1. /\ PutsOf(r) /\ UNCHANGED current /\ box'[r] = box[r]
            /\ pc'[r] \notin {"idle", "loaded", "replacing", "publishing"}
        BY <1>13 DEF Puts, HInv, TypeOK, Fail, EndCall, Doing, OneVariable
      <3>2. ASSUME Own(r) PROVE Quiet(r)
        BY <1>13, <2>0, <3>1, <3>2, OwnType DEF HInv, TypeOK, Quiet, PutsOf, Own, Fail, EndCall, Doing, OneVariable
      <3> QED
        BY <3>1, <3>2, OwnQuiet
    <2> QED
      BY <1>0, <2>1, <2>2
  <1>14. ASSUME NEW r \in Runs, Succeed(r) PROVE Puts'
    <2>1. ASSUME NEW q \in Runs, q # r PROVE Same(q) /\ Steady(q)
      BY <1>14, <2>1, SteadyUnchanged DEF HInv, TypeOK, Same, Succeed, EndCall, Report
    <2>2. PutsOf(r)'
      <3>1. /\ PutsOf(r) /\ pc[r] = "publishing" /\ job[r].left = {}
            /\ Report(r, Value(r)) /\ cache' = [cache EXCEPT ![r] = @ \union Result(r)]
            /\ pc' = [pc EXCEPT ![r] = "ready"] /\ UNCHANGED <<boxes, current, box, calls>>
        BY <1>14 DEF Puts, Succeed, EndCall
      <3>2. pc'[r] = "ready" /\ cache'[r] = cache[r] \union Result(r)
        BY <3>1 DEF HInv, TypeOK
      <3>3. \A k \in Names : told'[r][k] = IF k \in job[r].items THEN Value(r) ELSE told[r][k]
        BY <3>1, ReportType, ResultType
      <3>4. CASE ~Own(r)
        BY <3>1, <3>2, <3>4 DEF PutsOf, Own
      <3>5. CASE Own(r)
        <4>1. \A c \in cache'[r] : c.key < boxes[current].count
          BY <3>1, <3>2, <3>5 DEF PutsOf, Result
        <4>2. ASSUME NEW k \in Names, told'[r][k] # None PROVE Reported(r, k)'
          <5>1. CASE k \in job[r].items
            <6>1. Published(r, k)
              BY <3>1, <3>5, <5>1 DEF PutsOf
            <6>2. told'[r][k] = Value(r) /\ Value(r).call = calls[r] /\ calls[r] \in Nat
              BY <3>3, <5>1 DEF Value, HInv, TypeOK
            <6> QED
              BY <3>1, <6>1, <6>2 DEF Published, Reported, At
          <5>2. CASE k \notin job[r].items
            <6>1. Reported(r, k)
              BY <3>1, <3>3, <3>5, <4>2, <5>2 DEF PutsOf
            <6> QED
              BY <3>1, <3>3, <5>2, <6>1 DEF Reported, At
          <5> QED
            BY <5>1, <5>2
        <4> QED
          BY <3>1, <3>2, <3>5, <4>1, <4>2 DEF PutsOf, Own
      <3> QED
        BY <3>4, <3>5
    <2> QED
      BY <1>0, <2>1, <2>2
  <1>15. ASSUME NEW r \in Runs, Answer(r) PROVE Puts'
    <2>1. ASSUME NEW q \in Runs, q # r PROVE Same(q) /\ Steady(q)
      BY <1>15, <2>1, SteadyUnchanged DEF HInv, TypeOK, Same, Answer
    <2>2. PutsOf(r)'
      BY <1>15, OwnType DEF HInv, TypeOK, Puts, PutsOf, Own, Fresh, Published, Reported, At, Value, Answer, NoJob, Doing
    <2> QED
      BY <1>0, <2>1, <2>2
  <1>16. ASSUME NEW r \in Runs, Raise(r) PROVE Puts'
    <2>1. ASSUME NEW q \in Runs, q # r PROVE Same(q) /\ Steady(q)
      BY <1>16, <2>1, SteadyUnchanged DEF HInv, TypeOK, Same, Raise, EndCall
    <2>2. PutsOf(r)'
      <3>1. /\ PutsOf(r) /\ UNCHANGED current /\ box'[r] = box[r]
            /\ pc'[r] \notin {"idle", "loaded", "replacing", "publishing"}
        BY <1>16 DEF Puts, HInv, TypeOK, Raise, EndCall, Doing
      <3>2. ASSUME Own(r) PROVE Quiet(r)
        BY <1>16, <3>1, <3>2, OwnType DEF HInv, TypeOK, Quiet, PutsOf, Own, Raise, EndCall, Doing
      <3> QED
        BY <3>1, <3>2, OwnQuiet
    <2> QED
      BY <1>0, <2>1, <2>2
  <1>17. ASSUME NEW r \in Runs, Return(r) PROVE Puts'
    <2>0. \A c \in 1..Len(boxes) :
             /\ boxes'[c].scope = boxes[c].scope /\ boxes[c].count \in Nat
             /\ boxes'[c].count = IF c = box[r] THEN boxes[c].count + 1 ELSE boxes[c].count
      <3>1. \A c \in 1..Len(boxes) : boxes[c].count \in Nat
        BY CountType
      <3> QED
        BY <1>17, <3>1, OwnBox, ExecutedType DEF Return, Using
    <2>1. ASSUME NEW q \in Runs, q # r PROVE Same(q) /\ Steady(q)
      <3>1. Same(q) /\ UNCHANGED <<current, box>>
        BY <1>17, <2>1 DEF HInv, TypeOK, Same, Return, EndCall
      <3> QED
        BY <2>0, <3>1, SteadyInUse
    <2>2. PutsOf(r)'
      <3>1. /\ PutsOf(r) /\ pc[r] = "executing" /\ UNCHANGED <<current, box, told, cache>>
        BY <1>17 DEF Puts, Return
      <3>2. CASE EndCall(r)
        <4>1. pc'[r] = "ready"
          BY <3>2 DEF EndCall, HInv, TypeOK
        <4>2. ASSUME Own(r) PROVE Quiet(r)
          <5>1. calls' = calls /\ calls[r] \in Nat
            BY <1>17 DEF Return, HInv, TypeOK
          <5> QED
            BY <2>0, <3>1, <4>1, <4>2, <5>1, OwnType DEF Quiet, Own
        <4> QED
          BY <3>1, <4>1, <4>2, OwnQuiet
      <3>3. CASE /\ Goto(r, "publishing")
                 /\ job' = [job EXCEPT ![r] = Doing(@.inputs, @.items, @.items, @.key)]
        <4>1. /\ pc'[r] = "publishing" /\ job'[r].left = job[r].items
              /\ job'[r].items = job[r].items /\ job'[r].key = job[r].key
          BY <3>3 DEF HInv, TypeOK, Doing
        <4>2. CASE ~Own(r)
          BY <3>1, <4>1, <4>2 DEF PutsOf, Own
        <4>3. CASE Own(r)
          <5>1. /\ boxes'[current].scope = boxes[current].scope
                /\ boxes'[current].count = boxes[current].count + 1
                /\ boxes[current].count \in Nat
            BY <2>0, <4>3, OwnType DEF Own
          <5>2. ASSUME NEW k \in Names, told[r][k] # None PROVE Reported(r, k)'
            BY <1>17, <3>1, <4>3, <5>1, <5>2 DEF PutsOf, Reported, At, Return
          <5>3. \A c \in cache[r] : c.key < boxes[current].count + 1
            <6>1. cache[r] \in SUBSET Results
              BY DEF HInv, TypeOK
            <6> QED
              BY <3>1, <4>3, <5>1, <6>1 DEF PutsOf, Results
          <5>4. job[r].key < boxes[current].count + 1
            BY <3>1, <4>3, <5>1 DEF PutsOf
          <5> QED
            BY <3>1, <4>1, <4>3, <5>1, <5>2, <5>3, <5>4 DEF PutsOf, Own
        <4> QED
          BY <4>2, <4>3
      <3> QED
        BY <1>17, <3>2, <3>3 DEF Return
    <2> QED
      BY <1>0, <2>1, <2>2
  <1>18. ASSUME NEW r \in Runs, Deadline(r) PROVE Puts'
    <2>1. ASSUME NEW q \in Runs, q # r PROVE Same(q) /\ Steady(q)
      BY <1>18, <2>1, SteadyUnchanged DEF HInv, TypeOK, Same, Deadline
    <2>2. PutsOf(r)'
      BY <1>18, OwnType DEF HInv, TypeOK, Puts, PutsOf, Own, Fresh, Published, Reported, At, Value, Deadline, NoJob, Doing
    <2> QED
      BY <1>0, <2>1, <2>2
  <1>19. ASSUME NEW r \in Runs, NEW j \in JobsOf[r], Call(r, j) PROVE Puts'
    <2>1. ASSUME NEW q \in Runs, q # r PROVE Same(q) /\ Steady(q)
      BY <1>19, <2>1, SteadyUnchanged DEF HInv, TypeOK, Same, Call
    <2>2. PutsOf(r)'
      <3>1. /\ PutsOf(r) /\ UNCHANGED current /\ box'[r] = box[r]
            /\ pc'[r] \notin {"idle", "loaded", "replacing", "publishing"}
        BY <1>19 DEF Puts, HInv, TypeOK, Call, Doing
      <3>2. ASSUME Own(r) PROVE Quiet(r)
        BY <1>19, <3>1, <3>2, OwnType DEF HInv, TypeOK, Quiet, PutsOf, Own, Call, Doing
      <3> QED
        BY <3>1, <3>2, OwnQuiet
    <2> QED
      BY <1>0, <2>1, <2>2
  <1>20. ASSUME NEW r \in Runs, NEW j \in JobsOf[r], Fetch(r, j) PROVE Puts'
    <2>1. ASSUME NEW q \in Runs, q # r PROVE Same(q) /\ Steady(q)
      BY <1>20, <2>1, SteadyUnchanged DEF HInv, TypeOK, Same, Fetch
    <2>2. PutsOf(r)'
      <3>1. /\ PutsOf(r) /\ pc'[r] = "publishing" /\ calls'[r] = calls[r] + 1
            /\ job'[r].left = job'[r].items /\ job'[r].key = None
            /\ UNCHANGED <<boxes, current, box, told, cache>>
        BY <1>20 DEF HInv, TypeOK, Puts, Fetch, Doing
      <3>2. ASSUME Own(r), NEW k \in Names, told[r][k] # None PROVE Reported(r, k)'
        <4>1. Reported(r, k) /\ told[r][k].call \in Nat /\ calls[r] \in Nat
          BY <3>1, <3>2 DEF PutsOf, HInv, TypeOK, Scopes, Values
        <4> QED
          BY <3>1, <4>1 DEF Reported, At
      <3> QED
        BY <3>1, <3>2 DEF PutsOf, Own
    <2> QED
      BY <1>0, <2>1, <2>2
  <1>21. ASSUME NEW x \in Removers, NEW s \in Sources, ChangeSource(x, s) PROVE Puts'
    <2>1. ASSUME NEW q \in Runs PROVE Same(q) /\ Steady(q)
      BY <1>21, SteadyUnchanged DEF HInv, TypeOK, Same, ChangeSource, Begin
    <2> QED
      BY <1>00, <2>1
  <1>22. ASSUME NEW x \in Removers, DeleteMessages(x) PROVE Puts'
    <2>1. ASSUME NEW q \in Runs PROVE Same(q) /\ Steady(q)
      BY <1>22, SteadyUnchanged DEF HInv, TypeOK, Same, DeleteMessages, Begin
    <2> QED
      BY <1>00, <2>1
  <1>23. ASSUME NEW x \in Removers, Sweep(x) PROVE Puts'
    <2>1. ASSUME NEW q \in Runs PROVE Same(q) /\ Steady(q)
      BY <1>23, SteadyUnchanged DEF HInv, TypeOK, Same, Sweep
    <2> QED
      BY <1>00, <2>1
  <1>24. ASSUME NEW x \in Removers, NothingToRemove(x) PROVE Puts'
    <2>1. ASSUME NEW q \in Runs PROVE Same(q) /\ Steady(q)
      BY <1>24, SteadyUnchanged DEF HInv, TypeOK, Same, NothingToRemove
    <2> QED
      BY <1>00, <2>1
  <1>25. ASSUME NEW x \in Removers, Pop(x) PROVE Puts'
    <2>1. ASSUME NEW q \in Runs PROVE Same(q) /\ Steady(q)
      BY <1>25, SteadyUnchanged DEF HInv, TypeOK, Same, Pop
    <2> QED
      BY <1>00, <2>1
  <1>26. ASSUME NEW x \in Removers, Clear(x) PROVE Puts'
    <2>1. ASSUME NEW q \in Runs PROVE Same(q) /\ Steady(q)
      BY <1>26 DEF Same, Steady, Own, Clear
    <2> QED
      BY <1>00, <2>1
  <1>27. ASSUME Age PROVE Puts'
    <2>1. ASSUME NEW q \in Runs PROVE Same(q) /\ Steady(q)
      BY <1>27, SteadyUnchanged DEF HInv, TypeOK, Same, Age
    <2> QED
      BY <1>00, <2>1
  <1>28. ASSUME UNCHANGED vars PROVE Puts'
    <2>1. ASSUME NEW q \in Runs PROVE Same(q) /\ Steady(q)
      BY <1>28, SteadyUnchanged DEF HInv, TypeOK, Same, vars
    <2> QED
      BY <1>00, <2>1
  <1> QED
    BY <1>1, <1>2, <1>3, <1>4, <1>5, <1>6, <1>7, <1>8, <1>9, <1>10, <1>11, <1>12, <1>13, <1>14, <1>15, <1>16, <1>17, <1>18, <1>19, <1>20, <1>21, <1>22, <1>23, <1>24, <1>25, <1>26, <1>27, <1>28
    DEF Next, Thread, Prepare, Tool, Remove

\* Once a call of a run has reported an item, a variable of that name is in the
\* run's sandbox until the sandbox is cleared, and it is not an older one: what
\* was reported, what another run has put there, or what a later call of the run
\* has, even if it failed then (_publish_result_items_to_sandbox, execute with
\* isolated).
THEOREM ReportsAreThere == Spec => []ReportedIsThere
  <1>1. Init => HInv /\ Puts
    BY HeldInitially, PutsInitially
  <1>2. HInv /\ Puts /\ [Next]_vars => (HInv /\ Puts)'
    BY HeldStep, PutsStep
  <1>3. Puts => ReportedIsThere
    BY DEF Puts, PutsOf, Own, Reported, At, ReportedIsThere
  <1> QED
    BY <1>1, <1>2, <1>3, PTL DEF Spec
=============================================================================
