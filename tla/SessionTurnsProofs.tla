------------------------- MODULE SessionTurnsProofs --------------------------
(***************************************************************************)
(* Theorems about SessionTurns, for any number of requests of any kinds.    *)
(***************************************************************************)
EXTENDS SessionTurns, SequenceTheorems, FiniteSetTheorems, TLAPS

-----------------------------------------------------------------------------
(* The session state                                                        *)

Messages == [id : Requests \X {"user", "ai"}, role : {"user", "ai"}, arts : SUBSET Requests]
Records  == [id : Requests, blob : {Inline}, look : {FALSE}]
Sessions == [hist : Seq(Messages), arts : SUBSET Records, memory : Memory, settings : {"new"}]

LEMMA EmptyIsSession == EmptySession \in Sessions
  <1>1. <<>> \in Seq(Messages)
    OBVIOUS
  <1> QED
    BY <1>1 DEF EmptySession, Sessions, Memory

LEMMA Appending ==
    ASSUME NEW s \in Sessions, NEW m \in Messages
    PROVE  /\ AppendMessage(s, m) \in Sessions
           /\ AppendMessage(s, m).hist = Append(s.hist, m)
           /\ AppendMessage(s, m).memory = s.memory
  <1>1. Append(s.hist, m) \in Seq(Messages)
    BY DEF Sessions
  <1> QED
    BY <1>1 DEF AppendMessage, Sessions

LEMMA Putting ==
    ASSUME NEW s \in Sessions, NEW r \in Requests
    PROVE  LET t == PutArtifact(s, [id |-> r, blob |-> Inline, look |-> FALSE])
           IN  t \in Sessions /\ t.hist = s.hist /\ t.memory = s.memory
  <1> DEFINE rec == [id |-> r, blob |-> Inline, look |-> FALSE]
  <1>1. (s.arts \ Superseded(s, rec)) \union {rec} \in SUBSET Records
    <2>1. Superseded(s, rec) \subseteq s.arts /\ s.arts \subseteq Records
      BY DEF Superseded, Sessions
    <2>2. rec \in Records
      BY DEF Records
    <2> HIDE DEF rec
    <2> QED
      BY <2>1, <2>2
  <1>2. PutArtifact(s, rec) = [s EXCEPT !.arts = (s.arts \ Superseded(s, rec)) \union {rec}]
    BY DEF PutArtifact, Sessions
  <1> HIDE DEF rec
  <1>3. PutArtifact(s, rec) \in Sessions /\ PutArtifact(s, rec).hist = s.hist
        /\ PutArtifact(s, rec).memory = s.memory
    BY <1>1, <1>2 DEF Sessions
  <1> QED
    BY <1>3 DEF rec

LEMMA Setting ==
    ASSUME NEW s \in Sessions, NEW m \in Memory
    PROVE  /\ SetMemory(s, m) \in Sessions
           /\ SetMemory(s, m).hist = s.hist /\ SetMemory(s, m).memory = m
  BY DEF SetMemory, Sessions

LEMMA Cutting ==
    ASSUME NEW s \in Sessions, NEW i \in DOMAIN s.hist
    PROVE  CutFrom(s, i) \in Sessions
  <1> DEFINE gone == DiscardedByCut(s, i)
             mem  == [s.memory EXCEPT !.index = @ \ gone,
                                      !.compacted = IF SummaryIsStale(s, i) THEN 0 ELSE @]
  <1>1. s.hist \in Seq(Messages) /\ i \in 1..Len(s.hist) /\ Len(s.hist) \in Nat
    BY DEF Sessions
  <1>2. SubSeq(s.hist, 1, i - 1) \in Seq(Messages)
    BY <1>1, SubSeqProperties
  <1>3. mem \in Memory
    BY DEF Sessions, Memory
  <1>4. CutFrom(s, i) = [s EXCEPT !.hist = SubSeq(s.hist, 1, i - 1),
                                  !.arts = {r \in s.arts : r.id \notin gone}, !.memory = mem]
    BY DEF CutFrom, Sessions, Memory
  <1>5. {r \in s.arts : r.id \notin gone} \in SUBSET Records
    BY DEF Sessions
  <1> HIDE DEF gone, mem
  <1> QED
    BY <1>2, <1>3, <1>4, <1>5 DEF Sessions

-----------------------------------------------------------------------------
(* Types                                                                    *)

Places == {"new", "load", "recall", "prepared", "open", "memory", "question", "reply",
           "flush", "over"}
Synchronous == {"load", "recall", "memory", "question", "reply"}

\* TypeOK without the session, and a worker's memory, which is one at most.
Types ==
    /\ lease \in Requests \union {NoRequest}
    /\ loop \in Requests \union {NoRequest}
    /\ kind \in [Requests -> Kinds]
    /\ pc \in [Requests -> Places]
    /\ link \in [Requests -> {"up", "orphaned", "gone"}]
    /\ seen \in [Requests -> [len : Nat, memory : Memory]]
    /\ work \in [Requests -> {"none", "running", "returned"}]
    /\ made \in [Requests -> BOOLEAN]
    /\ result \in [Requests -> {"none", "answer", "exception", "rejected"}]
    /\ effect \in [Requests -> SUBSET Memory]
    /\ text \in [Requests -> Replies]
    /\ cuts \in 0..MaxCuts

\* A handler in the middle of a synchronous stretch has the loop.
LoopHeld == \A r \in Requests : pc[r] \in Synchronous <=> loop = r

TInv == session \in Sessions /\ Types /\ LoopHeld

LEMMA TInitially == Init => TInv
  <1> SUFFICES ASSUME Init PROVE TInv
    OBVIOUS
  <1>1. [len |-> 0, memory |-> EmptySession.memory] \in [len : Nat, memory : Memory]
    BY DEF EmptySession, Memory
  <1>2. Types
    BY <1>1, RequestsAssumption DEF Init, Types, Places, Replies
  <1>3. LoopHeld
    BY RequestsAssumption DEF Init, LoopHeld, Synchronous
  <1> QED
    BY <1>2, <1>3, EmptyIsSession DEF Init, TInv

\* The step of a handler that leaves the session and its worker alone.
LEMMA TMoves ==
    ASSUME TInv, NEW r \in Requests, NEW p \in Places, NEW x \in Replies,
           NEW l \in {"up", "orphaned", "gone"},
           loop \in {r, NoRequest},
           pc' = [pc EXCEPT ![r] = p],
           loop' = IF p \in Synchronous THEN r ELSE NoRequest,
           lease' \in {lease, r, NoRequest},
           text' = text \/ text' = [text EXCEPT ![r] = x],
           link' = link \/ link' = [link EXCEPT ![r] = l],
           session' \in Sessions, UNCHANGED <<kind, made, result, effect, cuts>>,
           seen' \in [Requests -> [len : Nat, memory : Memory]],
           work' = work \/ work' = [work EXCEPT ![r] = "running"]
    PROVE  TInv'
  <1>1. Types'
    <2> USE DEF TInv, Types
    <2>1. lease' \in Requests \union {NoRequest} /\ loop' \in Requests \union {NoRequest}
      OBVIOUS
    <2>2. pc' \in [Requests -> Places]
      OBVIOUS
    <2>3. link' \in [Requests -> {"up", "orphaned", "gone"}]
      OBVIOUS
    <2>4. text' \in [Requests -> Replies]
      OBVIOUS
    <2>5. work' \in [Requests -> {"none", "running", "returned"}]
      OBVIOUS
    <2> QED
      BY <2>1, <2>2, <2>3, <2>4, <2>5
  <1>2. LoopHeld'
    <2> SUFFICES ASSUME NEW q \in Requests PROVE pc'[q] \in Synchronous <=> loop' = q
      BY DEF LoopHeld
    <2>1. CASE q = r
      BY <2>1, RequestsAssumption DEF TInv, Types
    <2>2. CASE q # r
      <3>1. pc'[q] = pc[q]
        BY <2>2 DEF TInv, Types
      <3>2. loop # q /\ loop' # q
        BY <2>2, RequestsAssumption
      <3> QED
        BY <3>1, <3>2 DEF TInv, LoopHeld
    <2> QED
      BY <2>1, <2>2
  <1> QED
    BY <1>1, <1>2 DEF TInv
-----------------------------------------------------------------------------
(* Workers                                                                  *)

\* What a worker has done, and where its request can be by then.
WorkerOf(r) ==
    /\ work[r] # "returned" => result[r] = "none" /\ effect[r] = {}
    /\ result[r] = "rejected" => ~made[r]
    /\ pc[r] \in {"new", "load", "recall", "prepared"} => ~made[r] /\ work[r] = "none"
    /\ pc[r] \in {"new", "load", "recall", "prepared", "open"} => text[r] = "none"
    /\ text[r] = "answer" => work[r] = "returned"
    /\ pc[r] = "memory" => text[r] = "answer"
    /\ pc[r] \in {"question", "reply"} => text[r] # "none" /\ kind[r] # "evaluate"
    /\ pc[r] = "prepared" => kind[r] = "stream"
    /\ pc[r] = "flush" => kind[r] = "stream"
    /\ pc[r] = "flush" /\ text[r] = "none" => work[r] = "returned" /\ ~made[r]

\* The memory a worker returns is the one it was given, with its turn or not.
EffectOf(r) ==
    \/ effect[r] = {}
    \/ \E m \in effect[r] :
         /\ effect[r] = {m}
         /\ m.turns \in {seen[r].memory.turns, seen[r].memory.turns + 1}

WInv == \A r \in Requests : WorkerOf(r) /\ EffectOf(r)

-----------------------------------------------------------------------------
(* The history, while nobody deletes messages                               *)

\* A message belongs to a request that has saved it, behind what it has read.
OfRequest(i) ==
    \E r \in Requests :
        /\ session.hist[i].id = <<r, session.hist[i].role>>
        /\ i > seen[r].len
        /\ \/ pc[r] \in {"flush", "over"}
           \/ pc[r] = "reply" /\ session.hist[i].role = "user" /\ i = Len(session.hist)

\* A request between its question and its reply stands at the end.
QuestionLast ==
    \A r \in Requests : pc[r] = "reply" =>
        Len(session.hist) > 0 /\ session.hist[Len(session.hist)].id = <<r, "user">>

HInv ==
    cuts = 0 =>
        /\ \A i \in DOMAIN session.hist : OfRequest(i)
        /\ \A r \in Requests : seen[r].len <= Len(session.hist)
        /\ QuestionLast
        /\ TurnsWhole

-----------------------------------------------------------------------------
(* The lease, while it serialises the requests                              *)

LeaseHeld == \A r \in Requests : pc[r] \notin {"new", "over"} <=> lease = r

\* How far the history has grown since a request read it.
Grown(r) ==
    /\ pc[r] \in {"recall", "prepared", "open", "memory", "question"} =>
         Len(session.hist) = seen[r].len
    /\ pc[r] = "reply" => Len(session.hist) = seen[r].len + 1
    /\ pc[r] = "flush" =>
         Len(session.hist) = seen[r].len + (IF text[r] = "none" THEN 0 ELSE 2)
    /\ pc[r] = "flush" /\ text[r] # "none" => HasTurn(r, session.hist)

MemoryKept ==
    /\ \A r \in Requests : pc[r] \in {"prepared", "open", "memory"} =>
         seen[r].memory.turns = session.memory.turns
    /\ session.memory.turns = Cardinality(Counted)

LInv == Leased => LeaseHeld /\ (\A r \in Requests : Grown(r)) /\ MemoryKept
-----------------------------------------------------------------------------
(* Steps                                                                    *)

OfR(r) == Handler(r) \/ Produce(r) \/ Return(r) \/ Client(r)

\* A step of a request changes nothing of another one.
Others(r) ==
    \A q \in Requests \ {r} :
        /\ pc'[q] = pc[q] /\ kind'[q] = kind[q] /\ link'[q] = link[q] /\ seen'[q] = seen[q]
        /\ work'[q] = work[q] /\ made'[q] = made[q] /\ result'[q] = result[q]
        /\ effect'[q] = effect[q] /\ text'[q] = text[q]

LEMMA OthersStay ==
    ASSUME Types, NEW r \in Requests, OfR(r)
    PROVE  Others(r)
  <1> USE DEF Others, Types, requestVars, workerVars, Goto, Await, End, Continue, StartSaving, Dismiss
  <1>1. ASSUME Handler(r) PROVE Others(r)
    <2>1. ASSUME Acquire(r) \/ LoadHistory(r) \/ Recall(r) \/ PrepareFails(r) \/ BeginStream(r)
          PROVE  Others(r)
      BY <2>1 DEF Acquire, LoadHistory, Recall, PrepareFails, BeginStream
    <2>2. ASSUME Answered(r) \/ Failed(r) \/ Rejected(r) \/ Deadline(r) PROVE Others(r)
      BY <2>2 DEF Answered, Failed, Rejected, Deadline
    <2>3. ASSUME SaveMemory(r) \/ SaveQuestion(r) \/ SaveReply(r) \/ Finish(r) \/ CloseOrphan(r)
          PROVE  Others(r)
      BY <2>3 DEF SaveMemory, SaveQuestion, SaveReply, Finish, CloseOrphan, Interrupt
    <2> QED
      BY <1>1, <2>1, <2>2, <2>3 DEF Handler
  <1>2. ASSUME Produce(r) \/ Return(r) PROVE Others(r)
    BY <1>2 DEF Produce, Return
  <1>3. ASSUME Client(r) PROVE Others(r)
    BY <1>3 DEF Client, LeaveAwaiting, LeaveAtYield, LeaveAtStart, Interrupt
  <1> QED
    BY <1>1, <1>2, <1>3 DEF OfR

LEMMA MemoriesAre ==
    ASSUME TInv, NEW r \in Requests, NEW m \in Memories(r)
    PROVE  /\ m \in Memory
           /\ m.turns \in {seen[r].memory.turns, seen[r].memory.turns + 1}
  <1>1. seen[r].len \in Nat /\ seen[r].memory \in Memory /\ made[r] \in BOOLEAN
    BY DEF TInv, Types
  <1>2. \A k \in Compactions(r) : k \in Nat
    BY <1>1, RequestsAssumption DEF Compactions, Memory
  <1>3. PICK k \in Compactions(r) :
          \/ m = [turns |-> seen[r].memory.turns + 1, compacted |-> k,
                  index |-> seen[r].memory.index \union (IF made[r] THEN {r} ELSE {})]
          \/ m = [seen[r].memory EXCEPT !.compacted = k]
    BY DEF Memories
  <1>4. k \in Nat
    BY <1>2
  <1> QED
    BY <1>1, <1>3, <1>4 DEF Memory

LEMMA TStep == TInv /\ [Next]_vars => TInv'
  <1> SUFFICES ASSUME TInv, [Next]_vars PROVE TInv'
    OBVIOUS
  <1> USE DEF requestVars, workerVars, Await, End, Continue, Release, Goto
  <1>s. session \in Sessions /\ Types
    BY DEF TInv
  <1>l. /\ lease \in Requests \union {NoRequest}
        /\ \A q \in Requests : seen[q] \in [len : Nat, memory : Memory]
    BY <1>s DEF Types
  <1>m. session.memory \in Memory /\ Len(session.hist) \in Nat
    BY <1>s DEF Sessions
  <1>k. seen \in [Requests -> [len : Nat, memory : Memory]]
    BY <1>s DEF Types
  <1>t. \A x \in {"none", "answer", "fallback", "interrupted"} : x \in Replies
    BY DEF Replies
  <1>p. \A x \in {"new", "load", "recall", "prepared", "open", "memory", "question", "reply",
                  "flush", "over"} : x \in Places
    BY DEF Places
  <1>1. ASSUME NEW r \in Requests, Handler(r) \/ Client(r) PROVE TInv'
    <2>m. \A x \in Places, y \in Replies, l \in {"up", "orphaned", "gone"} :
            /\ loop \in {r, NoRequest}
            /\ pc' = [pc EXCEPT ![r] = x]
            /\ loop' = IF x \in Synchronous THEN r ELSE NoRequest
            /\ lease' \in {lease, r, NoRequest}
            /\ text' = text \/ text' = [text EXCEPT ![r] = y]
            /\ link' = link \/ link' = [link EXCEPT ![r] = l]
            /\ session' \in Sessions
            /\ UNCHANGED <<kind, made, result, effect, cuts>>
            /\ seen' \in [Requests -> [len : Nat, memory : Memory]]
            /\ work' = work \/ work' = [work EXCEPT ![r] = "running"]
            => TInv'
      <3> SUFFICES ASSUME NEW x \in Places, NEW y \in Replies, NEW l \in {"up", "orphaned", "gone"},
                          loop \in {r, NoRequest},
                          pc' = [pc EXCEPT ![r] = x],
                          loop' = IF x \in Synchronous THEN r ELSE NoRequest,
                          lease' \in {lease, r, NoRequest},
                          text' = text \/ text' = [text EXCEPT ![r] = y],
                          link' = link \/ link' = [link EXCEPT ![r] = l],
                          session' \in Sessions, UNCHANGED <<kind, made, result, effect, cuts>>,
                          seen' \in [Requests -> [len : Nat, memory : Memory]],
                          work' = work \/ work' = [work EXCEPT ![r] = "running"]
                   PROVE  TInv'
        OBVIOUS
      <3> QED
        BY TMoves
    <2>y. \A x \in Places : x \in Synchronous <=> x \in {"load", "recall", "memory", "question", "reply"}
      BY DEF Synchronous
    <2>1. CASE Acquire(r)
      BY <2>1, <2>m, <2>y, <1>s, <1>k, <1>t, <1>p DEF Acquire
    <2>2. CASE LoadHistory(r)
      <3>1. seen' \in [Requests -> [len : Nat, memory : Memory]]
        BY <2>2, <1>k, <1>m DEF LoadHistory
      <3> QED
        BY <2>2, <3>1, <2>m, <2>y, <1>s, <1>t, <1>p DEF LoadHistory, Running
    <2>3. CASE PrepareFails(r)
      BY <2>3, <2>m, <2>y, <1>s, <1>k, <1>t, <1>p DEF PrepareFails, Running
    <2>4. CASE Recall(r)
      <3>1. seen' \in [Requests -> [len : Nat, memory : Memory]]
        BY <2>4, <1>k, <1>m DEF Recall
      <3> QED
        BY <2>4, <3>1, <2>m, <2>y, <1>s, <1>t, <1>p DEF Recall, Running
    <2>5. CASE BeginStream(r)
      BY <2>5, <2>m, <2>y, <1>s, <1>k, <1>t, <1>p DEF BeginStream
    <2>6. CASE Answered(r) \/ Failed(r) \/ Rejected(r) \/ Deadline(r)
      BY <2>6, <2>m, <2>y, <1>s, <1>k, <1>t, <1>p
         DEF Answered, Failed, Rejected, Deadline, Dismiss, StartSaving, Waiting
    <2>7. CASE SaveMemory(r)
      <3>1. session' \in Sessions
        <4>1. CASE effect[r] = {}
          BY <2>7, <4>1, <1>s DEF SaveMemory
        <4>2. CASE effect[r] # {}
          <5>1. (CHOOSE m \in effect[r] : TRUE) \in Memory
            BY <4>2, <1>s DEF Types
          <5> QED
            BY <2>7, <4>2, <5>1, <1>s, Setting DEF SaveMemory
        <4> QED
          BY <4>1, <4>2
      <3> QED
        BY <2>7, <3>1, <2>m, <2>y, <1>k, <1>t, <1>p DEF SaveMemory, Running
    <2>8. CASE SaveQuestion(r)
      <3>1. Message(r, "user", {}) \in Messages
        BY DEF Message, Messages
      <3>2. session' \in Sessions
        BY <2>8, <3>1, <1>s, Appending DEF SaveQuestion
      <3> QED
        BY <2>8, <3>2, <2>m, <2>y, <1>k, <1>t, <1>p DEF SaveQuestion, Running
    <2>9. CASE SaveReply(r)
      <3>1. Message(r, "ai", IF made[r] /\ text[r] # "fallback" THEN {r} ELSE {}) \in Messages
        BY DEF Message, Messages
      <3>2. session' \in Sessions
        BY <2>9, <3>1, <1>s, Appending DEF SaveReply
      <3> QED
        BY <2>9, <3>2, <2>m, <2>y, <1>k, <1>t, <1>p DEF SaveReply, Running
    <2>10. CASE Finish(r)
      BY <2>10, <2>m, <2>y, <1>s, <1>k, <1>t, <1>p DEF Finish
    <2>11. CASE CloseOrphan(r)
      BY <2>11, <2>m, <2>y, <1>s, <1>k, <1>t, <1>p DEF CloseOrphan, Streaming, Interrupt
    <2>12. CASE LeaveAwaiting(r)
      BY <2>12, <2>m, <2>y, <1>s, <1>k, <1>t, <1>p DEF LeaveAwaiting, Streaming, Interrupt
    <2>13. CASE LeaveAtYield(r)
      BY <2>13, <1>s DEF LeaveAtYield, Streaming, TInv, Types, LoopHeld
    <2>14. CASE LeaveAtStart(r)
      BY <2>14, <2>m, <2>y, <1>s, <1>k, <1>t, <1>p DEF LeaveAtStart
    <2> QED
      BY <1>1, <2>1, <2>2, <2>3, <2>4, <2>5, <2>6, <2>7, <2>8, <2>9, <2>10, <2>11, <2>12,
         <2>13, <2>14 DEF Handler, Client
  <1>2. ASSUME NEW r \in Requests, Produce(r) PROVE TInv'
    <2>1. session' \in Sessions
      BY <1>2, <1>s, Putting DEF Produce
    <2>2. Types'
      BY <1>2, <1>s DEF Produce, Types
    <2> QED
      BY <1>2, <2>1, <2>2 DEF Produce, TInv, LoopHeld
  <1>3. ASSUME NEW r \in Requests, Return(r) PROVE TInv'
    <2>1. effect' \in [Requests -> SUBSET Memory]
      <3>1. \A m \in Memories(r) : m \in Memory
        BY MemoriesAre
      <3>2. effect' = effect \/ \E m \in Memories(r) : effect' = [effect EXCEPT ![r] = {m}]
        BY <1>3 DEF Return
      <3> QED
        BY <1>s, <3>1, <3>2 DEF Types
    <2>2. Types'
      BY <1>3, <1>s, <2>1 DEF Return, Types
    <2> QED
      BY <1>3, <1>s, <2>2 DEF Return, TInv, LoopHeld
  <1>4. ASSUME NEW i \in DOMAIN session.hist, DeleteMessages(i) PROVE TInv'
    <2>1. session' \in Sessions
      BY <1>4, <1>s, Cutting DEF DeleteMessages
    <2>2. Types'
      BY <1>4, <1>s, RequestsAssumption DEF DeleteMessages, Types
    <2> QED
      BY <1>4, <2>1, <2>2 DEF DeleteMessages, TInv, LoopHeld
  <1>5. ASSUME UNCHANGED vars PROVE TInv'
    BY <1>5 DEF vars, TInv, Types, LoopHeld
  <1> QED
    BY <1>1, <1>2, <1>3, <1>4, <1>5 DEF Next
LEMMA WInitially == Init => WInv
  BY DEF Init, WInv, WorkerOf, EffectOf

LEMMA WStep == TInv /\ WInv /\ [Next]_vars => WInv'
  <1> SUFFICES ASSUME TInv, WInv, [Next]_vars PROVE WInv'
    OBVIOUS
  <1>t. Types
    BY DEF TInv
  <1>1. ASSUME NEW r \in Requests, OfR(r) PROVE WInv'
    <2>1. \A q \in Requests \ {r} : WorkerOf(q)' /\ EffectOf(q)'
      BY <1>1, <1>t, OthersStay DEF Others, WInv, WorkerOf, EffectOf
    <2>2. WorkerOf(r) /\ EffectOf(r)
      BY DEF WInv
    <2>3. WorkerOf(r)' /\ EffectOf(r)'
      <3> USE DEF requestVars, workerVars, Await, End, Continue, Goto
      <3>1. CASE Acquire(r)
        BY <3>1, <2>2, <1>t DEF Acquire, Types, WorkerOf, EffectOf
      <3>2. CASE LoadHistory(r)
        BY <3>2, <2>2, <1>t DEF LoadHistory, Running, Types, WorkerOf, EffectOf
      <3>3. CASE PrepareFails(r)
        BY <3>3, <2>2, <1>t DEF PrepareFails, Running, Types, WorkerOf, EffectOf
      <3>4. CASE Recall(r)
        BY <3>4, <2>2, <1>t DEF Recall, Running, Types, WorkerOf, EffectOf
      <3>5. CASE BeginStream(r)
        BY <3>5, <2>2, <1>t DEF BeginStream, Types, WorkerOf, EffectOf
      <3>6. CASE Answered(r) \/ Failed(r) \/ Rejected(r) \/ Deadline(r)
        BY <3>6, <2>2, <1>t
           DEF Answered, Failed, Rejected, Deadline, Dismiss, StartSaving, Waiting, Types,
               WorkerOf, EffectOf
      <3>7. CASE SaveMemory(r)
        BY <3>7, <2>2, <1>t DEF SaveMemory, Running, Types, WorkerOf, EffectOf
      <3>8. CASE SaveQuestion(r) \/ SaveReply(r)
        BY <3>8, <2>2, <1>t DEF SaveQuestion, SaveReply, Running, Types, WorkerOf, EffectOf
      <3>9. CASE Finish(r) \/ LeaveAtStart(r)
        BY <3>9, <2>2, <1>t DEF Finish, LeaveAtStart, Types, WorkerOf, EffectOf
      <3>10. CASE CloseOrphan(r) \/ LeaveAwaiting(r)
        BY <3>10, <2>2, <1>t
           DEF CloseOrphan, LeaveAwaiting, Streaming, Interrupt, Types, WorkerOf, EffectOf
      <3>11. CASE LeaveAtYield(r)
        BY <3>11, <2>2, <1>t DEF LeaveAtYield, Types, WorkerOf, EffectOf
      <3>12. CASE Produce(r)
        BY <3>12, <2>2, <1>t DEF Produce, Types, WorkerOf, EffectOf
      <3>13. CASE Return(r)
        <4>1. \A m \in Memories(r) : m \in Memory /\
                m.turns \in {seen[r].memory.turns, seen[r].memory.turns + 1}
          BY MemoriesAre
        <4>2. effect' = effect \/ \E m \in Memories(r) : effect' = [effect EXCEPT ![r] = {m}]
          BY <3>13 DEF Return
        <4>3. EffectOf(r)'
          BY <4>1, <4>2, <3>13, <2>2, <1>t DEF Return, Types, WorkerOf, EffectOf
        <4>4. WorkerOf(r)'
          BY <3>13, <2>2, <1>t DEF Return, Types, WorkerOf
        <4> QED
          BY <4>3, <4>4
      <3> QED
        BY <1>1, <3>1, <3>2, <3>3, <3>4, <3>5, <3>6, <3>7, <3>8, <3>9, <3>10, <3>11, <3>12,
           <3>13 DEF OfR, Handler, Client
    <2> QED
      BY <2>1, <2>3 DEF WInv
  <1>2. ASSUME NEW i \in DOMAIN session.hist, DeleteMessages(i) PROVE WInv'
    BY <1>2 DEF DeleteMessages, workerVars, WInv, WorkerOf, EffectOf
  <1>3. ASSUME UNCHANGED vars PROVE WInv'
    BY <1>3 DEF vars, WInv, WorkerOf, EffectOf
  <1> QED
    BY <1>1, <1>2, <1>3 DEF Next, OfR

-----------------------------------------------------------------------------
(* The history                                                              *)

LEMMA HInitially == Init => HInv
  BY DEF Init, HInv, QuestionLast, TurnsWhole, TurnsTogether, OneTurnEach, EmptySession

\* A request that appends neither a question nor a reply.
LEMMA HQuiet ==
    ASSUME TInv, HInv, cuts = 0, NEW r \in Requests, Others(r),
           session'.hist = session.hist, seen'[r].len <= Len(session.hist),
           (pc'[r] = pc[r] /\ seen'[r] = seen[r]) \/ pc[r] \notin {"reply", "flush", "over"}
             \/ (pc[r] = "flush" /\ pc'[r] = "over" /\ seen'[r] = seen[r]),
           pc'[r] # "reply" \/ pc[r] = "reply"
    PROVE  HInv'
  <1>1. \A i \in DOMAIN session.hist : OfRequest(i)'
    BY DEF HInv, OfRequest, Others
  <1>2. QuestionLast'
    BY DEF HInv, QuestionLast, Others
  <1>3. TurnsWhole'
    BY DEF HInv, TurnsWhole, TurnsTogether, OneTurnEach
  <1>4. \A q \in Requests : seen'[q].len <= Len(session'.hist)
    BY DEF HInv, Others
  <1> QED
    BY <1>1, <1>2, <1>3, <1>4 DEF HInv

\* A message of r at the end of the history.
LEMMA HAppend ==
    ASSUME TInv, HInv, cuts = 0, cuts' = 0, NEW r \in Requests, Others(r),
           NEW role \in {"user", "ai"}, NEW m \in Messages,
           m.id = <<r, role>>, m.role = role,
           session'.hist = Append(session.hist, m),
           seen'[r] = seen[r],
           \A q \in Requests \ {r} : pc[q] # "reply",
           \/ role = "user" /\ pc[r] = "question" /\ pc'[r] = "reply"
           \/ role = "ai" /\ pc[r] = "reply" /\ pc'[r] \in {"flush", "over"}
    PROVE  HInv'
  <1> DEFINE h == session.hist
             n == Len(session.hist)
  <1>1. h \in Seq(Messages) /\ n \in Nat
    BY DEF TInv, Sessions
  <1>2. /\ Len(session'.hist) = n + 1 /\ session'.hist[n + 1] = m
        /\ \A i \in 1..n : session'.hist[i] = h[i]
        /\ DOMAIN h = 1..n /\ DOMAIN session'.hist = 1..(n + 1)
    BY <1>1
  <1>3. \A q \in Requests : seen[q].len \in Nat
    BY DEF TInv, Types
  <1>a. \A q \in Requests : seen[q].len <= n /\ seen'[q].len <= n + 1
    BY <1>1, <1>3 DEF HInv, Others
  <1> HIDE DEF h, n
  <1>4. \A i \in 1..n : OfRequest(i)
    BY <1>2 DEF HInv, h
  <1>5. \A i \in 1..n : OfRequest(i)'
    <2> SUFFICES ASSUME NEW i \in 1..n PROVE OfRequest(i)'
      OBVIOUS
    <2>1. PICK q \in Requests :
            /\ h[i].id = <<q, h[i].role>> /\ i > seen[q].len
            /\ pc[q] \in {"flush", "over"} \/ (pc[q] = "reply" /\ h[i].role = "user")
      BY <1>4 DEF OfRequest, h
    <2>2. pc'[q] \in {"flush", "over"} /\ seen'[q] = seen[q]
      BY <2>1 DEF Others
    <2> QED
      BY <2>1, <2>2, <1>2 DEF OfRequest
  <1>6. \A i \in 1..(n + 1) : OfRequest(i)'
    <2> SUFFICES ASSUME NEW i \in 1..(n + 1) PROVE OfRequest(i)'
      OBVIOUS
    <2>1. CASE i = n + 1
      <3>1. n + 1 > seen'[r].len
        BY <1>1, <1>3, <1>a
      <3>2. session'.hist[i].id = <<r, session'.hist[i].role>> /\ session'.hist[i].role = role
        BY <2>1, <1>2
      <3>3. pc'[r] \in {"flush", "over"} \/ (pc'[r] = "reply" /\ role = "user")
        OBVIOUS
      <3> QED
        BY <2>1, <3>1, <3>2, <3>3, <1>2 DEF OfRequest
    <2>2. CASE i # n + 1
      <3>1. i \in 1..n
        BY <2>2, <1>1
      <3> QED
        BY <3>1, <1>5
    <2> QED
      BY <2>1, <2>2
  <1>7. QuestionLast'
    BY <1>1, <1>2 DEF QuestionLast, Others, n
  <1>8. role = "ai" => n > 0 /\ h[n].id = <<r, "user">>
    BY DEF HInv, QuestionLast, h, n
  <1>9. TurnsTogether'
    <2> SUFFICES ASSUME NEW i \in 1..(n + 1), session'.hist[i].role = "ai"
                 PROVE  i > 1 /\ session'.hist[i - 1].id = <<session'.hist[i].id[1], "user">>
      BY <1>2 DEF TurnsTogether
    <2>1. CASE i = n + 1
      BY <2>1, <1>1, <1>2, <1>8
    <2>2. CASE i # n + 1
      <3>1. i \in 1..n /\ h[i].role = "ai"
        BY <2>2, <1>1, <1>2
      <3>2. i > 1 /\ h[i - 1].id = <<h[i].id[1], "user">>
        BY <3>1, <1>2 DEF HInv, TurnsWhole, TurnsTogether, h
      <3>3. i - 1 \in 1..n
        BY <3>1, <3>2, <1>1
      <3> QED
        BY <3>1, <3>2, <3>3, <1>2
    <2> QED
      BY <2>1, <2>2
  <1>10. \A i \in 1..n : h[i].id # m.id
    <2> SUFFICES ASSUME NEW i \in 1..n, h[i].id = <<r, role>> PROVE FALSE
      OBVIOUS
    <2>1. PICK q \in Requests :
            /\ h[i].id = <<q, h[i].role>>
            /\ pc[q] \in {"flush", "over"} \/ (pc[q] = "reply" /\ h[i].role = "user")
      BY <1>4 DEF OfRequest, h
    <2>2. q = r /\ h[i].role = role
      BY <2>1
    <2> QED
      BY <2>1, <2>2
  <1>11. OneTurnEach'
    <2> SUFFICES ASSUME NEW i \in 1..(n + 1), NEW j \in 1..(n + 1),
                        session'.hist[i].id = session'.hist[j].id
                 PROVE  i = j
      BY <1>2 DEF OneTurnEach
    <2>1. CASE i \in 1..n /\ j \in 1..n
      BY <2>1, <1>2 DEF HInv, TurnsWhole, OneTurnEach, h
    <2>2. CASE i = n + 1 /\ j \in 1..n
      BY <2>2, <1>2, <1>10
    <2>3. CASE j = n + 1 /\ i \in 1..n
      BY <2>3, <1>2, <1>10
    <2>4. (i = n + 1 \/ i \in 1..n) /\ (j = n + 1 \/ j \in 1..n)
      BY <1>1
    <2> QED
      BY <2>1, <2>2, <2>3, <2>4
  <1> QED
    BY <1>2, <1>6, <1>7, <1>9, <1>11, <1>a DEF HInv, TurnsWhole
LEMMA HStep == TInv /\ HInv /\ [Next]_vars => HInv'
  <1> SUFFICES ASSUME TInv, HInv, [Next]_vars, cuts' = 0 PROVE HInv'
    BY DEF HInv
  <1>t. Types /\ session \in Sessions
    BY DEF TInv
  <1>1. ASSUME NEW r \in Requests, OfR(r) PROVE HInv'
    <2> USE DEF requestVars, workerVars, Await, End, Continue, Goto
    <2>c. cuts = 0
      BY <1>1 DEF OfR, Handler, Client, Acquire, LoadHistory, PrepareFails, Recall, BeginStream,
                  Answered, Failed, Rejected, Deadline, Dismiss, StartSaving, SaveMemory,
                  SaveQuestion, SaveReply, Finish, CloseOrphan, Interrupt, LeaveAwaiting,
                  LeaveAtYield, LeaveAtStart, Produce, Return
    <2>o. Others(r)
      BY <1>1, <1>t, OthersStay
    <2>n. seen[r].len <= Len(session.hist)
      BY <2>c DEF HInv
    <2>q. loop \in {r, NoRequest} => \A q \in Requests \ {r} : pc[q] # "reply"
      BY RequestsAssumption DEF TInv, LoopHeld, Synchronous
    \* The stream of a saved turn is not interrupted again.
    <2>s. ASSUME pc[r] = "flush", ~AlreadySaved(r), NEW i \in DOMAIN session.hist,
                 session.hist[i].id[1] = r
          PROVE  FALSE
      <3>1. i \in Nat /\ i <= Len(session.hist) /\ Len(session.hist) \in Nat
        BY <1>t DEF Sessions
      <3>2. PICK q \in Requests : session.hist[i].id = <<q, session.hist[i].role>> /\ i > seen[q].len
        BY <2>c DEF HInv, OfRequest
      <3>3. q = r /\ seen[r].len \in Nat
        BY <3>2, <2>s, <1>t DEF Types
      <3> QED
        BY <2>s, <3>1, <3>2, <3>3 DEF AlreadySaved
    <2>1. CASE \/ Acquire(r) \/ LoadHistory(r) \/ PrepareFails(r) \/ Recall(r) \/ BeginStream(r)
               \/ Answered(r) \/ Failed(r) \/ Rejected(r) \/ Deadline(r) \/ Finish(r) \/ LeaveAtStart(r)
               \/ LeaveAtYield(r) \/ Return(r)
      <3> DEFINE Quiet ==
                   /\ session'.hist = session.hist /\ seen'[r].len <= Len(session.hist)
                   /\ \/ pc'[r] = pc[r] /\ seen'[r] = seen[r]
                      \/ pc[r] \notin {"reply", "flush", "over"}
                      \/ pc[r] = "flush" /\ pc'[r] = "over" /\ seen'[r] = seen[r]
                   /\ pc'[r] # "reply" \/ pc[r] = "reply"
      <3>1. ASSUME Acquire(r) \/ PrepareFails(r) \/ BeginStream(r) PROVE Quiet
        BY <3>1, <2>n, <1>t DEF Acquire, PrepareFails, BeginStream, Running, Types
      <3>2. ASSUME LoadHistory(r) PROVE Quiet
        <4>1. Len(session.hist) \in Nat
          BY <1>t DEF Sessions
        <4> QED
          BY <3>2, <4>1, <1>t DEF LoadHistory, Running, Types
      <3>3. ASSUME Recall(r) PROVE Quiet
        BY <3>3, <2>n, <1>t DEF Recall, Running, Types
      <3>4. ASSUME Answered(r) \/ Failed(r) \/ Rejected(r) \/ Deadline(r) PROVE Quiet
        BY <3>4, <2>n, <1>t
           DEF Answered, Failed, Rejected, Deadline, Dismiss, StartSaving, Waiting, Types
      <3>5. ASSUME Finish(r) \/ LeaveAtStart(r) \/ LeaveAtYield(r) \/ Return(r) PROVE Quiet
        BY <3>5, <2>n, <1>t DEF Finish, LeaveAtStart, LeaveAtYield, Return, Types
      <3>6. Quiet
        BY <2>1, <3>1, <3>2, <3>3, <3>4, <3>5
      <3> QED
        BY <3>6, <2>c, <2>o, HQuiet
    <2>2. CASE Produce(r)
      <3>1. session'.hist = session.hist
        BY <2>2, <1>t, Putting DEF Produce
      <3> QED
        BY <2>2, <3>1, <2>c, <2>o, <2>n, <1>t, HQuiet DEF Produce
    <2>3. CASE SaveMemory(r)
      <3>1. session'.hist = session.hist
        <4>1. CASE effect[r] = {}
          BY <2>3, <4>1 DEF SaveMemory
        <4>2. CASE effect[r] # {}
          <5>1. (CHOOSE m \in effect[r] : TRUE) \in Memory
            BY <4>2, <1>t DEF Types
          <5> QED
            BY <2>3, <4>2, <5>1, <1>t, Setting DEF SaveMemory
        <4> QED
          BY <4>1, <4>2
      <3> QED
        BY <2>3, <3>1, <2>c, <2>o, <2>n, <1>t, HQuiet DEF SaveMemory, Running, Types
    <2>4. CASE CloseOrphan(r) \/ LeaveAwaiting(r)
      <3>1. CASE pc'[r] = "question" /\ pc[r] = "flush"
        <4>1. ~AlreadySaved(r)
          BY <2>4, <3>1, <1>t DEF CloseOrphan, LeaveAwaiting, Interrupt, Types
        <4>2. \A i \in DOMAIN session.hist : session.hist[i].id[1] # r
          BY <3>1, <4>1, <2>s
        <4>3. session' = session /\ seen' = seen
          BY <2>4 DEF CloseOrphan, LeaveAwaiting, Interrupt
        <4>4. \A i \in DOMAIN session.hist : OfRequest(i)'
          <5> SUFFICES ASSUME NEW i \in DOMAIN session.hist PROVE OfRequest(i)'
            OBVIOUS
          <5>1. PICK q \in Requests :
                  /\ session.hist[i].id = <<q, session.hist[i].role>> /\ i > seen[q].len
                  /\ \/ pc[q] \in {"flush", "over"}
                     \/ pc[q] = "reply" /\ session.hist[i].role = "user" /\ i = Len(session.hist)
            BY <2>c DEF HInv, OfRequest
          <5>2. q # r
            BY <5>1, <4>2
          <5> QED
            BY <5>1, <5>2, <4>3, <2>o DEF OfRequest, Others
        <4>5. QuestionLast'
          BY <3>1, <4>3, <2>c, <2>o DEF HInv, QuestionLast, Others
        <4> QED
          BY <4>3, <4>4, <4>5, <2>c DEF HInv, TurnsWhole, TurnsTogether, OneTurnEach
      <3>2. CASE ~(pc'[r] = "question" /\ pc[r] = "flush")
        BY <2>4, <3>2, <2>c, <2>o, <2>n, <1>t, HQuiet
           DEF CloseOrphan, LeaveAwaiting, Interrupt, Streaming, Types
      <3> QED
        BY <3>1, <3>2
    <2>5. CASE SaveQuestion(r)
      <3> DEFINE m == Message(r, "user", {})
      <3>1. m \in Messages /\ m.id = <<r, "user">> /\ m.role = "user"
        BY DEF Message, Messages
      <3>2. session'.hist = Append(session.hist, m)
        BY <2>5, <3>1, <1>t, Appending DEF SaveQuestion
      <3> HIDE DEF m
      <3>3. pc[r] = "question" /\ pc'[r] = "reply" /\ seen' = seen /\ loop \in {r, NoRequest} /\ cuts' = 0
        BY <2>5, <2>c, <1>t DEF SaveQuestion, Running, Types
      <3> QED
        BY <3>1, <3>2, <3>3, <2>c, <2>o, <2>q, HAppend
    <2>6. CASE SaveReply(r)
      <3> DEFINE m == Message(r, "ai", IF made[r] /\ text[r] # "fallback" THEN {r} ELSE {})
      <3>1. m \in Messages /\ m.id = <<r, "ai">> /\ m.role = "ai"
        BY DEF Message, Messages
      <3>2. session'.hist = Append(session.hist, m)
        BY <2>6, <3>1, <1>t, Appending DEF SaveReply
      <3> HIDE DEF m
      <3>3. /\ pc[r] = "reply" /\ pc'[r] \in {"flush", "over"} /\ seen' = seen
            /\ loop \in {r, NoRequest} /\ cuts' = 0
        BY <2>6, <2>c, <1>t DEF SaveReply, Running, Types
      <3> QED
        BY <3>1, <3>2, <3>3, <2>c, <2>o, <2>q, HAppend
    <2> QED
      BY <1>1, <2>1, <2>2, <2>3, <2>4, <2>5, <2>6 DEF OfR, Handler, Client
  <1>2. ASSUME NEW i \in DOMAIN session.hist, DeleteMessages(i) PROVE HInv'
    BY <1>2, <1>t DEF DeleteMessages, Types
  <1>3. ASSUME UNCHANGED vars PROVE HInv'
    BY <1>3 DEF vars, HInv, OfRequest, QuestionLast, TurnsWhole, TurnsTogether, OneTurnEach
  <1> QED
    BY <1>1, <1>2, <1>3 DEF Next, OfR
-----------------------------------------------------------------------------
(* The lease                                                                *)

Counts(r) ==
    text[r] = "answer" /\ pc[r] # "memory" /\ \E m \in effect[r] : m.turns > seen[r].memory.turns

LEMMA CountedSame ==
    ASSUME NEW r \in Requests, Others(r), Counts(r)' <=> Counts(r)
    PROVE  Counted' = Counted
  <1>1. \A q \in Requests : Counts(q)' <=> Counts(q)
    BY DEF Others, Counts
  <1> QED
    BY <1>1 DEF Counted, Counts

LEMMA LInitially == Init => LInv
  <1> SUFFICES ASSUME Init PROVE LInv
    OBVIOUS
  <1>1. Counted = {}
    BY DEF Init, Counted
  <1>2. Cardinality({}) = 0
    BY FS_EmptySet
  <1> QED
    BY <1>1, <1>2, RequestsAssumption
       DEF Init, LInv, LeaseHeld, Grown, MemoryKept, EmptySession

\* Once the lease stops serialising, it is for good.
LEMMA LeasedBefore == TInv /\ [Next]_vars /\ Leased' => Leased
  <1> SUFFICES ASSUME TInv, [Next]_vars, Leased' PROVE Leased
    OBVIOUS
  <1>t. Types
    BY DEF TInv
  <1> USE DEF requestVars, workerVars, Await, End, Continue, Goto
  <1>1. ASSUME NEW r \in Requests, OfR(r) PROVE Leased
    <2>1. cuts' = cuts
      BY <1>1 DEF OfR, Handler, Client, Acquire, LoadHistory, PrepareFails, Recall, BeginStream,
                  Answered, Failed, Rejected, Deadline, Dismiss, StartSaving, SaveMemory,
                  SaveQuestion, SaveReply, Finish, CloseOrphan, Interrupt, LeaveAwaiting,
                  LeaveAtYield, LeaveAtStart, Produce, Return
    <2>2. link[r] = "orphaned" => link'[r] = "orphaned"
      BY <1>1, <1>t
         DEF OfR, Handler, Client, Acquire, LoadHistory, PrepareFails, Recall, BeginStream,
             Answered, Failed, Rejected, Deadline, Dismiss, StartSaving, SaveMemory, SaveQuestion,
             SaveReply, Finish, CloseOrphan, Interrupt, LeaveAwaiting, LeaveAtYield, LeaveAtStart,
             Produce, Return, Types
    <2>3. Others(r)
      BY <1>1, <1>t, OthersStay
    <2> QED
      BY <2>1, <2>2, <2>3 DEF Leased, Others
  <1>2. ASSUME NEW i \in DOMAIN session.hist, DeleteMessages(i) PROVE Leased
    BY <1>2, <1>t, RequestsAssumption DEF DeleteMessages, Leased, Types
  <1>3. ASSUME UNCHANGED vars PROVE Leased
    BY <1>3 DEF vars, Leased
  <1> QED
    BY <1>1, <1>2, <1>3 DEF Next, OfR

\* What the invariant says of one request.
Served(r) ==
    /\ pc[r] \notin {"new", "over"} <=> lease = r
    /\ Grown(r)
    /\ pc[r] \in {"prepared", "open", "memory"} => seen[r].memory.turns = session.memory.turns

AllServed == \A r \in Requests : Served(r)

LEMMA LInvIs == LInv <=> (Leased => AllServed /\ session.memory.turns = Cardinality(Counted))
  BY DEF LInv, LeaseHeld, MemoryKept, AllServed, Served

\* A step of the request that has the lease, or takes it: the others rest.
LEMMA LMoves ==
    ASSUME AllServed, NEW r \in Requests, Others(r),
           lease \in {r, NoRequest}, lease' \in {r, NoRequest}, Served(r)'
    PROVE  AllServed'
  <1> SUFFICES ASSUME NEW q \in Requests, q # r PROVE Served(q)'
    BY DEF AllServed
  <1>1. pc[q] \in {"new", "over"} /\ pc'[q] = pc[q] /\ lease' # q
    BY RequestsAssumption DEF AllServed, Served, Others
  <1> QED
    BY <1>1 DEF Served, Grown

\* A step that touches neither the history, the memory nor the lease.
LEMMA LStays ==
    ASSUME AllServed, NEW r \in Requests, Others(r),
           session'.hist = session.hist, session'.memory = session.memory,
           lease' = lease, Served(r)'
    PROVE  AllServed'
  <1> SUFFICES ASSUME NEW q \in Requests, q # r PROVE Served(q)'
    BY DEF AllServed
  <1>1. Served(q)
    BY DEF AllServed
  <1>2. pc'[q] = pc[q] /\ seen'[q] = seen[q] /\ text'[q] = text[q]
    BY DEF Others
  <1>3. HasTurn(q, session'.hist) <=> HasTurn(q, session.hist)
    OBVIOUS
  <1> QED
    BY <1>1, <1>2, <1>3 DEF Served, Grown

LEMMA LStep == IsFiniteSet(Requests) /\ TInv /\ WInv /\ LInv /\ [Next]_vars => LInv'
  <1> SUFFICES ASSUME IsFiniteSet(Requests), TInv, WInv, LInv, [Next]_vars, Leased'
               PROVE  AllServed' /\ session'.memory.turns = Cardinality(Counted)'
    BY DEF LInv, LeaseHeld, MemoryKept, AllServed, Served
  <1>t. Types /\ session \in Sessions
    BY DEF TInv
  <1>a. Leased /\ AllServed /\ session.memory.turns = Cardinality(Counted)
    BY LeasedBefore, LInvIs
  <1>b. /\ session.memory \in Memory /\ session.hist \in Seq(Messages) /\ Len(session.hist) \in Nat
        /\ \A q \in Requests : seen[q].len \in Nat /\ seen[q].memory \in Memory
    BY <1>t DEF Sessions, Types
  <1>1. ASSUME NEW r \in Requests, OfR(r)
        PROVE  AllServed' /\ session'.memory.turns = Cardinality(Counted)'
    <2> USE DEF requestVars, workerVars, Await, End, Continue, Goto, Release
    <2>o. Others(r)
      BY <1>1, <1>t, OthersStay
    <2>w. WorkerOf(r) /\ EffectOf(r)
      BY DEF WInv
    <2>s. Served(r)
      BY <1>a DEF AllServed
    <2>l. /\ link[r] # "orphaned" /\ link'[r] # "orphaned"
          /\ pc[r] \notin {"new", "over"} => lease = r
          /\ lease = NoRequest => pc[r] \in {"new", "over"}
      BY <1>a, <2>s, RequestsAssumption DEF Leased, Served
    <2> DEFINE Same == Counts(r)' <=> Counts(r)
    <2>c. ASSUME session'.memory = session.memory, Same
          PROVE  session'.memory.turns = Cardinality(Counted)'
      <3>1. Counted' = Counted
        BY <2>c, <2>o, CountedSame
      <3> QED
        BY <2>c, <3>1, <1>a
    <2>1. CASE Acquire(r)
      <3>1. Same
        BY <2>1, <2>w, <1>t DEF Acquire, Types, WorkerOf, Counts
      <3>2. CASE lease = NoRequest
        <4>1. Served(r)' /\ lease' \in {r, NoRequest} /\ session' = session
          BY <2>1, <3>2, <1>t DEF Acquire, Served, Grown, Types
        <4> QED
          BY <3>1, <3>2, <4>1, <1>a, <2>o, <2>c, LMoves
      <3>3. CASE lease # NoRequest
        <4>1. Served(r)' /\ lease' = lease /\ session' = session
          BY <2>1, <3>3, <2>s, <1>t DEF Acquire, Served, Grown, Types
        <4> QED
          BY <3>1, <4>1, <1>a, <2>o, <2>c, LStays
      <3> QED
        BY <3>2, <3>3
    <2>2. CASE LoadHistory(r) \/ PrepareFails(r) \/ Recall(r) \/ BeginStream(r)
      <3>1. Same
        BY <2>2, <2>w, <1>t
           DEF LoadHistory, PrepareFails, Recall, BeginStream, Running, Types, WorkerOf, Counts
      <3>2. Served(r)' /\ lease = r /\ lease' \in {r, NoRequest} /\ session' = session
        BY <2>2, <2>s, <2>l, <1>b, <1>t, RequestsAssumption
           DEF LoadHistory, PrepareFails, Recall, BeginStream, Running, Types, Served, Grown
      <3> QED
        BY <3>1, <3>2, <1>a, <2>o, <2>c, LMoves
    <2>3. CASE Answered(r) \/ Failed(r) \/ Rejected(r) \/ Deadline(r)
      <3>1. Same
        BY <2>3, <2>w, <1>t
           DEF Answered, Failed, Rejected, Deadline, Dismiss, StartSaving, Waiting, Types,
               WorkerOf, Counts
      <3>2. Served(r)' /\ lease = r /\ lease' \in {r, NoRequest} /\ session' = session
        BY <2>3, <2>s, <2>l, <2>w, <1>b, <1>t, RequestsAssumption
           DEF Answered, Failed, Rejected, Deadline, Dismiss, StartSaving, Waiting, Types,
               Served, Grown, WorkerOf
      <3> QED
        BY <3>1, <3>2, <1>a, <2>o, <2>c, LMoves
    <2>4. CASE SaveMemory(r)
      <3>1. /\ pc[r] = "memory" /\ text[r] = "answer" /\ lease = r /\ ~Counts(r)
            /\ seen[r].memory.turns = session.memory.turns
            /\ Len(session.hist) = seen[r].len
        BY <2>4, <2>w, <2>s, <2>l DEF SaveMemory, Running, WorkerOf, Served, Grown, Counts
      <3>2. /\ seen' = seen /\ text' = text /\ effect' = effect
            /\ \/ pc'[r] = "over" /\ lease' = NoRequest
               \/ pc'[r] = "question" /\ lease' = r
        BY <2>4, <3>1, <1>t DEF SaveMemory, Types
      <3>3. CASE effect[r] = {}
        <4>1. session' = session
          BY <2>4, <3>3 DEF SaveMemory
        <4>2. Same /\ Served(r)'
          BY <3>1, <3>2, <3>3, <4>1, RequestsAssumption DEF Counts, Served, Grown
        <4> QED
          BY <3>1, <3>2, <4>1, <4>2, <1>a, <2>o, <2>c, LMoves
      <3>4. ASSUME NEW m \in effect[r], effect[r] = {m},
                   m.turns \in {seen[r].memory.turns, seen[r].memory.turns + 1}
            PROVE  AllServed' /\ session'.memory.turns = Cardinality(Counted)'
        <4>1. m \in Memory /\ (CHOOSE x \in effect[r] : TRUE) = m
          BY <3>4, <1>t DEF Types
        <4>2. session' = SetMemory(session, m)
          BY <2>4, <3>4, <4>1 DEF SaveMemory
        <4>3. session'.hist = session.hist /\ session'.memory = m
          BY <4>1, <4>2, <1>t, Setting
        <4>4. Served(r)'
          BY <3>1, <3>2, <4>3, RequestsAssumption DEF Served, Grown
        <4>5. AllServed'
          BY <3>1, <3>2, <4>4, <1>a, <2>o, LMoves
        <4>6. Counts(r)' <=> m.turns > seen[r].memory.turns
          BY <3>1, <3>2, <3>4 DEF Counts
        <4>7. CASE m.turns = seen[r].memory.turns
          <5>1. Counted' = Counted
            BY <3>1, <4>6, <4>7, <1>b, <2>o, CountedSame DEF Memory
          <5> QED
            BY <3>1, <4>3, <4>5, <4>7, <5>1, <1>a
        <4>8. CASE m.turns = seen[r].memory.turns + 1
          <5>1. \A q \in Requests : Counts(q)' <=> Counts(q) \/ q = r
            BY <3>1, <4>6, <4>8, <1>b, <2>o DEF Counts, Others, Memory
          <5>2. Counted' = Counted \union {r} /\ r \notin Counted
            BY <5>1, <3>1 DEF Counted, Counts
          <5>3. IsFiniteSet(Counted)
            BY FS_Subset DEF Counted
          <5>4. Cardinality(Counted \union {r}) = Cardinality(Counted) + 1
            BY <5>2, <5>3, FS_AddElement
          <5> QED
            BY <3>1, <4>3, <4>5, <4>8, <5>2, <5>4, <1>a
        <4> QED
          BY <3>4, <4>7, <4>8
      <3> QED
        BY <3>3, <3>4, <2>w DEF EffectOf
    <2>5. CASE SaveQuestion(r) \/ SaveReply(r)
      <3>1. PICK role \in {"user", "ai"}, arts \in SUBSET {r} :
              /\ session' = AppendMessage(session, Message(r, role, arts))
              /\ \/ role = "user" /\ pc[r] = "question" /\ pc'[r] = "reply" /\ lease' = lease
                 \/ /\ role = "ai" /\ pc[r] = "reply"
                    /\ \/ pc'[r] = "flush" /\ lease' = lease
                       \/ pc'[r] = "over" /\ lease' = NoRequest
        BY <2>5, <2>l, <1>t DEF SaveQuestion, SaveReply, Running, Types
      <3> DEFINE m == Message(r, role, arts)
      <3>2. m \in Messages /\ m.id = <<r, role>>
        BY DEF Message, Messages
      <3>3. session'.hist = Append(session.hist, m) /\ session'.memory = session.memory
        BY <3>1, <3>2, <1>t, Appending
      <3> HIDE DEF m
      <3>4. /\ Len(session'.hist) = Len(session.hist) + 1
            /\ Len(session.hist) + 1 \in DOMAIN session'.hist
            /\ session'.hist[Len(session.hist) + 1] = m
        BY <3>2, <3>3, <1>b
      <3>5. lease = r /\ seen' = seen /\ text' = text /\ effect' = effect /\ text[r] # "none"
        BY <2>5, <3>1, <2>l, <2>w DEF SaveQuestion, SaveReply, WorkerOf
      <3>6. role = "ai" => HasTurn(r, session'.hist)
        BY <3>2, <3>4 DEF HasTurn
      <3>7. Served(r)'
        BY <3>1, <3>4, <3>5, <3>6, <2>s, <1>b, RequestsAssumption DEF Served, Grown
      <3>8. Same
        BY <3>1, <3>5 DEF Counts
      <3> QED
        BY <3>1, <3>3, <3>5, <3>7, <3>8, <1>a, <2>o, <2>c, LMoves
    <2>6. CASE Finish(r) \/ LeaveAtStart(r)
      <3>1. Same
        BY <2>6, <2>w, <1>t DEF Finish, LeaveAtStart, Types, WorkerOf, Counts
      <3>2. Served(r)' /\ lease = r /\ lease' \in {r, NoRequest} /\ session' = session
        BY <2>6, <2>s, <2>l, <1>b, <1>t, RequestsAssumption
           DEF Finish, LeaveAtStart, Types, Served, Grown
      <3> QED
        BY <3>1, <3>2, <1>a, <2>o, <2>c, LMoves
    <2>7. CASE LeaveAwaiting(r)
      <3>1. text[r] = "none" \/ AlreadySaved(r)
        BY <2>7, <2>s, <2>w, <1>b DEF LeaveAwaiting, Streaming, Served, Grown, WorkerOf, AlreadySaved
      <3>2. Same
        BY <2>7, <3>1, <2>w, <1>t
           DEF LeaveAwaiting, Streaming, Interrupt, Types, WorkerOf, Counts
      <3>3. Served(r)' /\ lease = r /\ lease' \in {r, NoRequest} /\ session' = session
        BY <2>7, <3>1, <2>s, <2>l, <1>b, <1>t, RequestsAssumption
           DEF LeaveAwaiting, Streaming, Interrupt, Types, Served, Grown
      <3> QED
        BY <3>2, <3>3, <1>a, <2>o, <2>c, LMoves
    <2>8. CASE CloseOrphan(r) \/ LeaveAtYield(r)
      BY <2>8, <2>l, <1>t DEF CloseOrphan, LeaveAtYield, Types
    <2>9. CASE Produce(r) \/ Return(r)
      <3>1. session'.hist = session.hist /\ session'.memory = session.memory
        BY <2>9, <1>t, Putting DEF Produce, Return
      <3>2. lease' = lease /\ pc' = pc /\ seen' = seen /\ text' = text
        BY <2>9 DEF Produce, Return
      <3>3. Served(r)'
        BY <3>1, <3>2, <2>s DEF Served, Grown, HasTurn
      <3>4. Same
        BY <2>9, <3>2, <2>w DEF Produce, Return, WorkerOf, Counts
      <3> QED
        BY <3>1, <3>2, <3>3, <3>4, <1>a, <2>o, <2>c, LStays
    <2> QED
      BY <1>1, <2>1, <2>2, <2>3, <2>4, <2>5, <2>6, <2>7, <2>8, <2>9 DEF OfR, Handler, Client
  <1>2. ASSUME NEW i \in DOMAIN session.hist, DeleteMessages(i) PROVE FALSE
    BY <1>2, <1>t, RequestsAssumption DEF DeleteMessages, Leased, Types
  <1>3. ASSUME UNCHANGED vars
        PROVE  AllServed' /\ session'.memory.turns = Cardinality(Counted)'
    <2>1. Counted' = Counted
      BY <1>3 DEF vars, Counted
    <2> QED
      BY <1>3, <1>a, <2>1 DEF vars, AllServed, Served, Grown, HasTurn
  <1> QED
    BY <1>1, <1>2, <1>3 DEF Next, OfR
-----------------------------------------------------------------------------
(* Theorems                                                                 *)

LEMMA Invariants == Spec => [](TInv /\ WInv /\ HInv)
  <1>1. Init => TInv /\ WInv /\ HInv
    BY TInitially, WInitially, HInitially
  <1>2. TInv /\ WInv /\ HInv /\ [Next]_vars => (TInv /\ WInv /\ HInv)'
    BY TStep, WStep, HStep
  <1> QED
    BY <1>1, <1>2, PTL DEF Spec

LEMMA LeaseInvariant == ASSUME IsFiniteSet(Requests) PROVE Spec => []LInv
  <1>1. TInv /\ WInv /\ LInv /\ [Next]_vars => LInv'
    BY LStep
  <1> QED
    BY <1>1, LInitially, Invariants, PTL DEF Spec

\* Type correctness of the requests on a session: in particular a handler in
\* the middle of a synchronous stretch has the event loop.
THEOREM TurnsTypes == Spec => []TypeOK
  <1>1. TInv /\ WInv => TypeOK
    <2> SUFFICES ASSUME TInv, WInv PROVE TypeOK
      OBVIOUS
    <2>1. /\ session.hist \in Seq(Messages) /\ session.arts \subseteq Records
          /\ session.memory \in Memory
      BY DEF TInv, Sessions
    <2>2. ASSUME NEW r \in Requests PROVE effect[r] \subseteq Memory /\ Cardinality(effect[r]) <= 1
      <3>1. effect[r] \subseteq Memory
        BY DEF TInv, Types
      <3>2. Cardinality({}) = 0
        BY FS_EmptySet
      <3>3. \A m \in effect[r] : Cardinality({m}) = 1
        BY FS_Singleton
      <3>4. effect[r] = {} \/ \E m \in effect[r] : effect[r] = {m}
        BY DEF WInv, EffectOf
      <3>5. Cardinality(effect[r]) = 0 \/ Cardinality(effect[r]) = 1
        BY <3>2, <3>3, <3>4
      <3> QED
        BY <3>1, <3>5
    <2> QED
      BY <2>1, <2>2 DEF TInv, Types, LoopHeld, TypeOK, Messages, Records, Places, Synchronous
  <1> QED
    BY <1>1, Invariants, PTL

\* What a request leaves in the history is its turn, whole and once, although
\* an orphaned stream saves its turn while another request has the lease
\* (persist_interrupted_once, add_chat_message).
THEOREM TurnsStayWhole == Spec => []TurnsWhole
  <1>1. HInv => TurnsWhole
    BY DEF HInv, TurnsWhole, TurnsTogether, OneTurnEach
  <1> QED
    BY <1>1, Invariants, PTL

\* The lease keeps the memory: every turn that was counted is in the memory of
\* the session, whatever requests overlap and workers are abandoned
\* (acquire_query_lease, _persist_runtime_effects).
THEOREM MemoryIsKept == ASSUME IsFiniteSet(Requests) PROVE Spec => []NoLostMemory
  <1>1. LInv => NoLostMemory
    BY DEF LInv, MemoryKept, NoLostMemory
  <1> QED
    BY <1>1, LeaseInvariant, PTL

\* A reply is appended to the history its agent was given.
THEOREM AnswersFollow == ASSUME IsFiniteSet(Requests) PROVE Spec => AnswersFollowTheirHistory
  <1> DEFINE Follows ==
               Leased => \A r \in Requests : pc[r] = "question" /\ pc'[r] = "reply"
                                                => Len(session.hist) = seen[r].len
  <1>1. LInv /\ [Next]_vars => [Follows]_vars
    BY DEF LInv, Grown
  <1> QED
    BY <1>1, LeaseInvariant, PTL DEF Spec, AnswersFollowTheirHistory

\* When a request that saves and whose tools made something ends, its turn is
\* in the history, though its client may have left or its worker hangs.
THEOREM WorkIsKept == ASSUME IsFiniteSet(Requests) PROVE Spec => WorkIsRecorded
  <1> DEFINE Recorded ==
               Leased => \A r \in Requests :
                   (/\ kind[r] # "evaluate" /\ made[r]
                    /\ pc[r] # "over" /\ pc'[r] = "over") => HasTurn(r, session'.hist)
  <1>1. TInv /\ WInv /\ LInv /\ [Next]_vars => [Recorded]_vars
    <2> SUFFICES ASSUME TInv, WInv, LInv, Next, Leased, NEW r \in Requests,
                        kind[r] # "evaluate", made[r], pc[r] # "over", pc'[r] = "over"
                 PROVE  HasTurn(r, session'.hist)
      OBVIOUS
    <2>t. Types /\ session \in Sessions
      BY DEF TInv
    <2>w. WorkerOf(r) /\ Grown(r) /\ link[r] # "orphaned"
      BY DEF WInv, LInv, Leased
    <2>n. seen[r].len \in Nat /\ Len(session.hist) \in Nat
      BY <2>t DEF Types, Sessions
    <2> USE DEF requestVars, workerVars, Await, End, Continue, Goto
    <2>1. OfR(r)
      <3>1. ASSUME NEW q \in Requests, q # r, OfR(q) PROVE FALSE
        BY <3>1, <2>t, OthersStay DEF Others
      <3>2. ASSUME NEW i \in DOMAIN session.hist, DeleteMessages(i) PROVE FALSE
        BY <3>2 DEF DeleteMessages
      <3> QED
        BY <3>1, <3>2 DEF Next, OfR
    <2>2. CASE \/ Acquire(r) \/ PrepareFails(r) \/ LeaveAtStart(r) \/ LoadHistory(r) \/ Recall(r)
               \/ BeginStream(r)
      BY <2>2, <2>t, <2>w
         DEF Acquire, PrepareFails, LeaveAtStart, LoadHistory, Recall, BeginStream, Running, Types,
             WorkerOf
    <2>3. CASE Answered(r) \/ Failed(r) \/ Rejected(r) \/ Deadline(r)
      BY <2>3, <2>t, <2>w
         DEF Answered, Failed, Rejected, Deadline, Dismiss, StartSaving, Types, WorkerOf
    <2>4. CASE SaveMemory(r) \/ SaveQuestion(r)
      BY <2>4, <2>t DEF SaveMemory, SaveQuestion, Types
    <2>5. CASE SaveReply(r)
      <3> DEFINE m == Message(r, "ai", IF made[r] /\ text[r] # "fallback" THEN {r} ELSE {})
      <3>1. m \in Messages /\ m.id = <<r, "ai">>
        BY DEF Message, Messages
      <3>2. session'.hist = Append(session.hist, m)
        BY <2>5, <3>1, <2>t, Appending DEF SaveReply
      <3> HIDE DEF m
      <3>3. /\ Len(session.hist) + 1 \in DOMAIN session'.hist
            /\ session'.hist[Len(session.hist) + 1] = m
        BY <3>1, <3>2, <2>t DEF Sessions
      <3> QED
        BY <3>1, <3>3 DEF HasTurn
    <2>6. CASE Finish(r)
      BY <2>6, <2>w DEF Finish, WorkerOf, Grown
    <2>7. CASE LeaveAwaiting(r)
      <3>1. session' = session /\ AlreadySaved(r) /\ pc[r] \in {"open", "flush"}
        BY <2>7, <2>t DEF LeaveAwaiting, Streaming, Interrupt, Types
      <3>2. pc[r] = "flush" /\ text[r] # "none"
        BY <3>1, <2>w, <2>n DEF Grown, AlreadySaved
      <3> QED
        BY <3>1, <3>2, <2>w DEF Grown
    <2>8. CASE CloseOrphan(r) \/ LeaveAtYield(r)
      BY <2>8, <2>w DEF CloseOrphan, LeaveAtYield
    <2>9. CASE Produce(r) \/ Return(r)
      BY <2>9 DEF Produce, Return
    <2> QED
      BY <2>1, <2>2, <2>3, <2>4, <2>5, <2>6, <2>7, <2>8, <2>9 DEF OfR, Handler, Client
  <1> QED
    BY <1>1, LeaseInvariant, Invariants, PTL DEF Spec, WorkIsRecorded

=============================================================================
