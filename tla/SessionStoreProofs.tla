------------------------- MODULE SessionStoreProofs --------------------------
(***************************************************************************)
(* Theorems about SessionStore, for any number of threads, artifacts and    *)
(* calls.                                                                   *)
(***************************************************************************)
EXTENDS SessionStore, SequenceTheorems, TLAPS

-----------------------------------------------------------------------------
(* What a call makes of a session                                           *)

Messages == [id : Threads, role : {"ai"}, arts : SUBSET ArtifactIds]
Records  == [id : ArtifactIds \union Threads, blob : Threads \union {Inline}, look : BOOLEAN]

\* A state holds one record of an artifact.
OneRecordEach(s) == \A r1, r2 \in s.arts : r1.id = r2.id => r1 = r2

LEMMA EmptyIsSession == EmptySession \in Sessions /\ OneRecordEach(EmptySession)
  <1>1. <<>> \in Seq(Messages)
    OBVIOUS
  <1> QED
    BY <1>1 DEF EmptySession, Sessions, Messages, OneRecordEach

LEMMA Cutting ==
    ASSUME NEW s \in Sessions, OneRecordEach(s), NEW i \in DOMAIN s.hist
    PROVE  CutFrom(s, i) \in Sessions /\ OneRecordEach(CutFrom(s, i))
  <1> DEFINE gone == DiscardedByCut(s, i)
             mem  == [s.memory EXCEPT !.index = @ \ gone,
                                      !.compacted = IF SummaryIsStale(s, i) THEN 0 ELSE @]
             kept == {r \in s.arts : r.id \notin gone}
  <1>1. s.hist \in Seq(Messages) /\ i \in 1..Len(s.hist) /\ Len(s.hist) \in Nat
    BY DEF Sessions, Messages
  <1>2. SubSeq(s.hist, 1, i - 1) \in Seq(Messages)
    BY <1>1, SubSeqProperties
  <1>3. mem \in [turns : Nat, compacted : Nat, index : SUBSET ArtifactIds]
    BY DEF Sessions
  <1>4. CutFrom(s, i) = [s EXCEPT !.hist = SubSeq(s.hist, 1, i - 1), !.arts = kept, !.memory = mem]
    BY DEF CutFrom, Sessions
  <1>5. kept \in SUBSET Records /\ \A r1, r2 \in kept : r1.id = r2.id => r1 = r2
    BY DEF Sessions, Records, OneRecordEach
  <1> HIDE DEF gone, mem, kept
  <1>6. CutFrom(s, i) \in Sessions /\ CutFrom(s, i).arts = kept
    BY <1>2, <1>3, <1>4, <1>5 DEF Sessions, Messages, Records
  <1> QED
    BY <1>5, <1>6 DEF OneRecordEach

LEMMA ResultIsSession ==
    ASSUME NEW t \in Threads, NEW call \in Operations, NEW s \in Sessions, OneRecordEach(s)
    PROVE  Result(t, call, s) \in Sessions /\ OneRecordEach(Result(t, call, s))
  <1>h. s.hist \in Seq(Messages) /\ s.arts \in SUBSET Records
    BY DEF Sessions, Messages, Records
  <1>1. CASE call.kind = "message"
    <2>1. call.arts \in SUBSET ArtifactIds
      BY <1>1 DEF Operations
    <2>2. [id |-> t, role |-> "ai", arts |-> call.arts] \in Messages
      BY <2>1 DEF Messages
    <2>3. Append(s.hist, [id |-> t, role |-> "ai", arts |-> call.arts]) \in Seq(Messages)
      BY <1>h, <2>2
    <2>4. Result(t, call, s) = [s EXCEPT !.hist = Append(s.hist, [id |-> t, role |-> "ai", arts |-> call.arts])]
      BY <1>1 DEF Result, AppendMessage, Sessions, Stores
    <2> QED
      BY <2>3, <2>4 DEF Sessions, Messages, OneRecordEach
  <1>2. CASE Stores(call)
    <2>1. Record(t, call) \in Records
      BY <1>2 DEF Operations, Record, Records, Stores
    <2> DEFINE rec == Record(t, call)
               put == (s.arts \ Superseded(s, rec)) \union {rec}
    <2>2. put \in SUBSET Records
      BY <1>h, <2>1
    <2>3. Result(t, call, s) = [s EXCEPT !.arts = put]
      BY <1>2 DEF Result, PutArtifact, Sessions, Stores
    <2>4. \A r1, r2 \in put : r1.id = r2.id => r1 = r2
      BY DEF OneRecordEach, Superseded
    <2> HIDE DEF put
    <2> QED
      BY <2>2, <2>3, <2>4 DEF Sessions, Records, OneRecordEach
  <1>3. CASE call.kind = "memory"
    BY <1>3 DEF Result, SetMemory, Sessions, OneRecordEach, Stores
  <1>4. CASE call.kind = "settings"
    BY <1>4 DEF Result, SetSettings, Sessions, OneRecordEach, Stores
  <1>5. CASE call.kind = "cut" /\ ~Misses(call, s)
    <2>1. CutPoint(call, s) \in DOMAIN s.hist
      BY <1>5 DEF Misses, CutPoint, Position
    <2>2. Result(t, call, s) = CutFrom(s, CutPoint(call, s))
      BY <1>5 DEF Result, Stores
    <2> QED
      BY <2>1, <2>2, Cutting
  <1>6. CASE /\ call.kind \notin {"message", "memory", "settings"} /\ ~Stores(call)
             /\ ~(call.kind = "cut" /\ ~Misses(call, s))
    BY <1>6 DEF Result, Stores
  <1> QED
    BY <1>1, <1>2, <1>3, <1>4, <1>5, <1>6

-----------------------------------------------------------------------------
(* Types                                                                    *)

Before == {"upload", "wait"} \union Inside   \* the call has had no effect yet

\* Besides TypeOK: which calls are where, and what they have loaded.
Types ==
    /\ TypeOK
    /\ op \in [Threads -> Calls]
    /\ \A t \in Threads :
         /\ OneRecordEach(copy[t])
         /\ pc[t] \in Before \union {"free", "undo"} => op[t].kind # "drop"
         /\ pc[t] \in {"upload", "undo"} => Uploads(op[t])
         /\ pc[t] = "drop" => op[t].kind = "drop"

LEMMA TypesInitially == Init => Types
  <1> SUFFICES ASSUME Init PROVE Types
    OBVIOUS
  <1>1. op \in [Threads -> Operations] /\ pc \in [Threads -> Labels]
    BY ThreadsAssumption DEF Init, FirstStep, Labels
  <1>2. \A t \in Threads :
          /\ pc[t] \in {"upload", "wait", "drop"}
          /\ pc[t] = "drop" <=> op[t].kind = "drop"
          /\ pc[t] = "upload" => Uploads(op[t])
    BY DEF Init, FirstStep, Uploads
  <1> QED
    BY <1>1, <1>2, EmptyIsSession, ThreadsAssumption
       DEF Init, Types, TypeOK, Before, Inside, OneRecordEach, EmptySession

\* A statement of _load_state brings one field of the row.
LEMMA Fetching ==
    ASSUME Types, NEW t \in Threads, NEW field \in {"hist", "arts", "memory"},
           NEW label \in Inside, NEW next \in Inside, Fetch(t, field, label, next)
    PROVE  /\ copy'[t] = [copy[t] EXCEPT ![field] = IF exists THEN row[field] ELSE EmptySession[field]]
           /\ \A u \in Threads \ {t} : copy'[u] = copy[u]
           /\ copy' \in [Threads -> Sessions]
           /\ \A u \in Threads : OneRecordEach(copy'[u])
  <1> USE DEF Types, TypeOK
  <1>1. /\ copy'[t] = [copy[t] EXCEPT ![field] = IF exists THEN row[field] ELSE EmptySession[field]]
        /\ \A u \in Threads \ {t} : copy'[u] = copy[u]
    BY DEF Fetch
  <1>2. copy'[t] \in Sessions
    BY <1>1, EmptyIsSession DEF Sessions
  <1>3. copy' \in [Threads -> Sessions]
    BY <1>2 DEF Fetch
  <1>4. OneRecordEach(copy'[t])
    <2>1. copy[t] \in Sessions /\ row \in Sessions
      OBVIOUS
    <2>2. copy'[t].arts \in {copy[t].arts, row.arts, EmptySession.arts}
      BY <1>1, <2>1 DEF Sessions
    <2> QED
      BY <2>2, EmptyIsSession DEF OneRecordEach
  <1> QED
    BY <1>1, <1>3, <1>4

LEMMA TypesStep == Types /\ [Next]_vars => Types'
  <1> SUFFICES ASSUME Types, [Next]_vars PROVE Types'
    OBVIOUS
  <1> USE ThreadsAssumption DEF Types, TypeOK, Goto, Before, Inside, Labels, Over
  <1>o. op \in [Threads -> Operations]
    OBVIOUS
  <1>1. ASSUME NEW t \in Threads, Upload(t) PROVE Types'
    BY <1>1 DEF Upload
  <1>2. ASSUME NEW t \in Threads, OpenRow(t) PROVE Types'
    <2>1. copy' \in [Threads -> Sessions] /\ \A u \in Threads : copy'[u].arts = copy[u].arts
      <3>1. CASE exists
        <4>1. copy' = [copy EXCEPT ![t].settings = row.settings]
          BY <1>2, <3>1 DEF OpenRow
        <4>2. /\ copy'[t] = [copy[t] EXCEPT !.settings = row.settings]
              /\ \A u \in Threads \ {t} : copy'[u] = copy[u]
          BY <4>1
        <4>3. copy'[t] \in Sessions /\ copy'[t].arts = copy[t].arts
          BY <4>2 DEF Sessions
        <4> QED
          BY <4>1, <4>2, <4>3
      <3>2. CASE ~exists
        BY <1>2, <3>2 DEF OpenRow
      <3> QED
        BY <3>1, <3>2
    <2>2. \A u \in Threads : OneRecordEach(copy'[u])
      BY <2>1 DEF OneRecordEach
    <2> QED
      BY <1>2, <2>1, <2>2 DEF OpenRow
  <1>3. ASSUME NEW t \in Threads, FetchMessages(t) \/ FetchArtifacts(t) \/ FetchMemory(t)
        PROVE  Types'
    <2>1. PICK field \in {"hist", "arts", "memory"}, label \in Inside, next \in Inside :
            Fetch(t, field, label, next)
      BY <1>3 DEF FetchMessages, FetchArtifacts, FetchMemory
    <2>2. copy' \in [Threads -> Sessions] /\ \A u \in Threads : OneRecordEach(copy'[u])
      <3> HIDE DEF Types, TypeOK, Inside
      <3> QED
        BY <2>1, Fetching
    <2> QED
      BY <2>1, <2>2 DEF Fetch
  <1>4. ASSUME NEW t \in Threads, Save(t) PROVE Types'
    <2>1. row' \in Sessions /\ OneRecordEach(row')
      BY <1>4, <1>o, ResultIsSession DEF Save
    <2>2. Freed(t, op[t], copy[t]) \subseteq Threads
      <3>1. \A x \in copy[t].arts : x.blob \in Threads \union {Inline}
        BY DEF Sessions
      <3> QED
        BY <3>1 DEF Freed, ReplacedBlobs, Superseded, BlobsFreedByCut, BlobsOf, Stores
    <2> QED
      BY <1>4, <2>1, <2>2 DEF Save, Unlock, OneRecordEach
  <1>5. ASSUME NEW t \in Threads, CutNothing(t) PROVE Types'
    BY <1>5 DEF CutNothing, Unlock
  <1>6. ASSUME NEW t \in Threads, SaveFails(t) PROVE Types'
    BY <1>6 DEF SaveFails, Unlock
  <1>7. ASSUME NEW t \in Threads, Free(t) \/ FreeFails(t) PROVE Types'
    BY <1>7 DEF Free, FreeFails
  <1>8. ASSUME NEW t \in Threads, Undo(t) PROVE Types'
    BY <1>8 DEF Undo
  <1>9. ASSUME NEW t \in Threads, Drop(t) PROVE Types'
    BY <1>9 DEF Drop
  <1>10. ASSUME NEW p \in Processes, Crash(p) PROVE Types'
    BY <1>10 DEF Crash
  <1>11. ASSUME UNCHANGED vars PROVE Types'
    BY <1>11 DEF vars, OneRecordEach
  <1> QED
    BY <1>1, <1>2, <1>3, <1>4, <1>5, <1>6, <1>7, <1>8, <1>9, <1>10, <1>11 DEF Next, Step

\* Every variable of the store has its type, and a state never holds two
\* records of one artifact, for any number of processes (PostgresSessionStore).
THEOREM StoreTypes == Spec => []TypeOK
  <1>1. Types => TypeOK
    BY DEF Types
  <1> QED
    BY <1>1, TypesInitially, TypesStep, PTL DEF Spec
-----------------------------------------------------------------------------
(* The lock                                                                 *)

\* A thread inside the lock has loaded the row as it is, as far as it has come.
Fresh(t) ==
    /\ pc[t] \in Inside => copy[t].settings = row.settings
    /\ pc[t] \in {"artifacts", "memory", "save"} => copy[t].hist = row.hist
    /\ pc[t] \in {"memory", "save"} => copy[t].arts = row.arts
    /\ pc[t] = "save" => copy[t].memory = row.memory

LockInv ==
    /\ \A t \in Threads : pc[t] \in Inside => lock[ProcessOf[t]] = t
    /\ ~Overlap
    /\ exists => \A t \in Threads : Fresh(t)

\* Who may save has the row itself.
LEMMA SavesTheRow ==
    ASSUME Types, LockInv, exists, NEW t \in Threads, pc[t] = "save"
    PROVE  copy[t] = row
  <1>1. copy[t] \in Sessions /\ row \in Sessions
    BY DEF Types, TypeOK
  <1>2. /\ copy[t].settings = row.settings /\ copy[t].hist = row.hist
        /\ copy[t].arts = row.arts /\ copy[t].memory = row.memory
    BY DEF LockInv, Fresh, Inside
  <1> QED
    BY <1>1, <1>2 DEF Sessions

LEMMA LockInitially == Init => LockInv
  BY DEF Init, FirstStep, LockInv, Fresh, Inside, Overlap

LEMMA LockStep == Types /\ LockInv /\ ~Overlap' /\ [Next]_vars => LockInv'
  <1> SUFFICES ASSUME Types, LockInv, ~Overlap', [Next]_vars PROVE LockInv'
    OBVIOUS
  <1>t. /\ pc \in [Threads -> Labels] /\ copy \in [Threads -> Sessions] /\ row \in Sessions
        /\ lock \in [Processes -> Threads \union {NoThread}]
    BY DEF Types, TypeOK
  <1> USE ThreadsAssumption DEF Goto, Inside, Over
  \* Steps that enter no lock and touch neither the row nor what was loaded.
  <1>a. ASSUME UNCHANGED <<row, copy>>, exists' => exists,
               \A t \in Threads : pc'[t] = pc[t] \/ pc'[t] \notin Inside,
               \A t \in Threads : pc'[t] \in Inside => lock'[ProcessOf[t]] = lock[ProcessOf[t]]
        PROVE  LockInv'
    BY <1>a DEF LockInv, Fresh
  <1>b. \A t, u \in Threads : pc[t] \in Inside /\ pc[u] \in Inside => t = u
    BY DEF LockInv, Overlap
  <1>1. ASSUME NEW t \in Threads, Upload(t) \/ Free(t) \/ FreeFails(t) \/ Undo(t) \/ Drop(t)
        PROVE  LockInv'
    BY <1>1, <1>a, <1>t DEF Upload, Free, FreeFails, Undo, Drop
  <1>2. ASSUME NEW t \in Threads, OpenRow(t) PROVE LockInv'
    <2>1. CASE exists
      <3>1. \A u \in Threads : pc[u] \notin Inside
        <4> SUFFICES ASSUME NEW u \in Threads, pc[u] \in Inside PROVE FALSE
          OBVIOUS
        <4>1. ProcessOf[u] # ProcessOf[t] /\ u # t
          BY <1>2 DEF OpenRow, LockInv
        <4>2. pc'[t] \in Inside /\ pc'[u] \in Inside
          BY <1>2, <1>t, <2>1, <4>1 DEF OpenRow
        <4> QED
          BY <4>1, <4>2 DEF Overlap
      <3>2. /\ lock'[ProcessOf[t]] = t /\ pc'[t] = "messages"
            /\ copy'[t] = [copy[t] EXCEPT !.settings = row.settings]
            /\ \A u \in Threads \ {t} : pc'[u] = pc[u]
            /\ row' = row
        BY <1>2, <1>t, <2>1 DEF OpenRow
      <3>3. copy'[t].settings = row.settings
        BY <3>2, <1>t DEF Sessions
      <3> QED
        BY <3>1, <3>2, <3>3 DEF LockInv, Fresh
    <2>2. CASE ~exists
      BY <1>2, <1>t, <2>2, <1>a DEF OpenRow
    <2> QED
      BY <2>1, <2>2
  <1>3. ASSUME NEW t \in Threads, FetchMessages(t) \/ FetchArtifacts(t) \/ FetchMemory(t)
        PROVE  LockInv'
    <2>1. PICK field \in {"hist", "arts", "memory"}, label \in Inside, next \in Inside :
            /\ Fetch(t, field, label, next)
            /\ \/ field = "hist" /\ label = "messages" /\ next = "artifacts"
               \/ field = "arts" /\ label = "artifacts" /\ next = "memory"
               \/ field = "memory" /\ label = "memory" /\ next = "save"
      BY <1>3 DEF FetchMessages, FetchArtifacts, FetchMemory
    <2>2. /\ copy'[t] = [copy[t] EXCEPT ![field] = IF exists THEN row[field] ELSE EmptySession[field]]
          /\ \A u \in Threads \ {t} : copy'[u] = copy[u]
      <3> HIDE DEF Inside
      <3> QED
        BY <2>1, Fetching
    <2>3. /\ pc[t] = label /\ pc'[t] = next
          /\ \A u \in Threads \ {t} : pc'[u] = pc[u]
          /\ UNCHANGED <<row, exists, lock>>
      BY <2>1, <1>t DEF Fetch
    <2>4. exists => copy'[t][field] = row[field]
      BY <2>2, <1>t DEF Sessions
    <2>5. \A g \in {"hist", "arts", "memory", "settings"} : g # field => copy'[t][g] = copy[t][g]
      BY <2>2, <1>t DEF Sessions
    <2>6. exists => Fresh(t)'
      BY <2>1, <2>3, <2>4, <2>5 DEF LockInv, Fresh
    <2>7. exists => \A u \in Threads \ {t} : Fresh(u)'
      BY <2>2, <2>3 DEF LockInv, Fresh
    <2> QED
      BY <2>1, <2>3, <2>6, <2>7 DEF LockInv
  <1>4. ASSUME NEW t \in Threads, Save(t) \/ CutNothing(t) \/ SaveFails(t) PROVE LockInv'
    <2>1. pc[t] = "save" /\ pc'[t] \notin Inside /\ \A u \in Threads \ {t} : pc'[u] = pc[u]
      BY <1>4, <1>t DEF Save, CutNothing, SaveFails
    <2>2. \A u \in Threads : pc'[u] \notin Inside
      BY <2>1, <1>b
    <2> QED
      BY <2>2 DEF LockInv, Fresh
  <1>5. ASSUME NEW p \in Processes, Crash(p) PROVE LockInv'
    <2>1. \A t \in Threads : pc'[t] \in Inside => ProcessOf[t] # p /\ pc'[t] = pc[t]
      BY <1>5, <1>t DEF Crash
    <2> QED
      BY <1>5, <2>1, <1>t, <1>a DEF Crash
  <1>6. ASSUME UNCHANGED vars PROVE LockInv'
    BY <1>6, <1>a DEF vars
  <1> QED
    BY <1>1, <1>2, <1>3, <1>4, <1>5, <1>6 DEF Next, Step

LEMMA Locked == ApartSpec => [](Types /\ LockInv)
  <1>1. [Next /\ ~Overlap']_vars => [Next]_vars
    OBVIOUS
  <1>2. Types /\ LockInv /\ [Next /\ ~Overlap']_vars => LockInv'
    <2>1. CASE UNCHANGED vars
      BY <2>1 DEF vars, LockInv, Fresh, Overlap
    <2> QED
      BY <2>1, LockStep
  <1> QED
    BY <1>1, <1>2, TypesInitially, TypesStep, LockInitially, PTL DEF ApartSpec

-----------------------------------------------------------------------------
(* Atomicity                                                                *)

Ended == { t \in Threads : pc[t] \in {"free", "undo"} \union Over }

LEMMA AtomicInitially == Init => Atomic!Init
  <1> SUFFICES ASSUME Init PROVE Atomic!Init
    OBVIOUS
  <1>1. \A t \in Threads : pc[t] \in {"upload", "wait", "drop"}
    BY DEF Init, FirstStep
  <1>2. Ended = {}
    BY <1>1 DEF Ended, Over
  <1> QED
    BY <1>2 DEF Init, Atomic!Init, Ended, EmptySession, Atomic!EmptySession

LEMMA AtomicStep ==
    ASSUME Types, LockInv, [Next]_vars
    PROVE  [Atomic!Next]_(Atomic!atomicVars)
  <1>t. pc \in [Threads -> Labels] /\ op \in [Threads -> Calls]
    BY DEF Types, TypeOK
  <1> DEFINE Simulated == Atomic!Next \/ UNCHANGED <<row, exists, op, Ended>>
  <1> SUFFICES Simulated
    BY DEF Atomic!atomicVars, Ended
  <1> USE DEF Goto, Inside, Over
  \* A call ends, or goes on, without an effect.
  <1>a. ASSUME NEW t \in Threads, UNCHANGED <<row, exists, op>>,
               NEW x \in Labels, pc' = [pc EXCEPT ![t] = x],
               t \in Ended => x \in {"free", "undo"} \union Over
        PROVE  Simulated
    <2>1. Ended' = Ended \/ (t \notin Ended /\ Ended' = Ended \union {t})
      BY <1>a, <1>t DEF Ended
    <2>2. ASSUME t \notin Ended, Ended' = Ended \union {t} PROVE Atomic!Next
      <3>1. {t} \in SUBSET Threads /\ {t} # {} /\ {t} \intersect Ended = {}
        BY <2>2
      <3>2. Atomic!Fail({t})
        BY <1>a, <2>2, <3>1 DEF Atomic!Fail, Ended
      <3> QED
        BY <3>1, <3>2 DEF Atomic!Next
    <2> QED
      BY <1>a, <2>1, <2>2
  <1>1. ASSUME NEW t \in Threads, Upload(t) \/ OpenRow(t) \/ CutNothing(t) \/ SaveFails(t)
        PROVE  Simulated
    <2>1. t \notin Ended
      BY <1>1 DEF Upload, OpenRow, CutNothing, SaveFails, Ended
    <2>2. UNCHANGED <<row, exists, op>> /\ \E x \in Labels : pc' = [pc EXCEPT ![t] = x]
      BY <1>1 DEF Upload, OpenRow, CutNothing, SaveFails, Labels
    <2> QED
      BY <1>a, <2>1, <2>2
  <1>2. ASSUME NEW t \in Threads, FetchMessages(t) \/ FetchArtifacts(t) \/ FetchMemory(t)
        PROVE  Simulated
    <2>1. t \notin Ended
      BY <1>2 DEF FetchMessages, FetchArtifacts, FetchMemory, Fetch, Ended
    <2>2. UNCHANGED <<row, exists, op>> /\ \E x \in Labels : pc' = [pc EXCEPT ![t] = x]
      BY <1>2 DEF FetchMessages, FetchArtifacts, FetchMemory, Fetch, Labels
    <2> QED
      BY <1>a, <2>1, <2>2
  <1>3. ASSUME NEW t \in Threads, Save(t) PROVE Simulated
    <2>1. copy[t] = row /\ t \notin Ended /\ op[t].kind # "drop" /\ exists
      BY <1>3, SavesTheRow DEF Save, Types, Ended, Before
    <2>2. row' = Result(t, op[t], row) /\ UNCHANGED <<exists, op>>
      BY <1>3, <2>1 DEF Save
    <2>3. pc'[t] \in {"free", "done"} /\ \A u \in Threads \ {t} : pc'[u] = pc[u]
      BY <1>3, <1>t DEF Save
    <2>4. Ended' = Ended \union {t}
      BY <2>3 DEF Ended
    <2>5. Atomic!TakeEffect(t)
      BY <2>1, <2>2, <2>4 DEF Atomic!TakeEffect, Ended
    <2> QED
      BY <2>5 DEF Atomic!Next
  <1>4. ASSUME NEW t \in Threads, Free(t) \/ FreeFails(t) \/ Undo(t) PROVE Simulated
    <2>1. UNCHANGED <<row, exists, op>> /\
          \E x \in {"undo"} \union Over : pc' = [pc EXCEPT ![t] = x]
      BY <1>4 DEF Free, FreeFails, Undo
    <2> QED
      BY <1>a, <2>1 DEF Labels
  <1>5. ASSUME NEW t \in Threads, Drop(t) PROVE Simulated
    <2>1. op[t].kind = "drop" /\ t \notin Ended /\ exists' = FALSE /\ UNCHANGED <<row, op>>
      BY <1>5 DEF Drop, Types, Ended
    <2>2. pc'[t] = "done" /\ \A u \in Threads \ {t} : pc'[u] = pc[u]
      BY <1>5, <1>t DEF Drop
    <2>3. Ended' = Ended \union {t}
      BY <2>2 DEF Ended
    <2>4. Atomic!TakeEffect(t)
      BY <2>1, <2>3 DEF Atomic!TakeEffect, Ended
    <2> QED
      BY <2>4 DEF Atomic!Next
  <1>6. ASSUME NEW p \in Processes, Crash(p) PROVE Simulated
    <2> DEFINE hit == { t \in Threads : ProcessOf[t] = p /\ pc[t] \notin Over } \ Ended
    <2>1. UNCHANGED <<row, exists, op>> /\ Ended' = Ended \union hit
      BY <1>6 DEF Crash, Ended
    <2>2. CASE hit = {}
      BY <2>1, <2>2
    <2>3. ASSUME hit # {} PROVE Atomic!Next
      <3>1. PICK cs \in SUBSET Threads : cs = hit
        OBVIOUS
      <3>2. Atomic!Fail(cs)
        BY <2>1, <2>3, <3>1 DEF Atomic!Fail, Ended
      <3> QED
        BY <3>1, <3>2 DEF Atomic!Next
    <2> QED
      BY <2>2, <2>3
  <1>7. ASSUME UNCHANGED vars PROVE Simulated
    BY <1>7 DEF vars, Ended
  <1> QED
    BY <1>1, <1>2, <1>3, <1>4, <1>5, <1>6, <1>7 DEF Next, Step

\* Calls of the store are atomic, whichever workers make them, unless calls of
\* two workers overlap: what a caller saves is made of the state as it is then,
\* through failing saves, crashes and a deleted session (_get_session_lock
\* around _load_state and _save_state).
THEOREM CallsAreAtomic == ApartSpec => ImplementsAtomicSession
  <1>1. Types /\ LockInv /\ [Next]_vars => [Atomic!Next]_(Atomic!atomicVars)
    BY AtomicStep
  <1> QED
    BY <1>1, AtomicInitially, Locked, PTL DEF ApartSpec, ImplementsAtomicSession, Atomic!Spec
-----------------------------------------------------------------------------
(* Blobs                                                                    *)

\* A record with a blob was saved by the call that uploaded it.
OwnRecord(r) ==
    r.blob # Inline =>
        r.blob \in Threads /\ Uploads(op[r.blob]) /\ r.id = op[r.blob].id /\ pc[r.blob] \notin Before

\* A blob that was taken back although its record was saved.
Withdrawn(b) == pc[b] = "failed" /\ trash[b] \ {b} # {}

BlobInv ==
    /\ \A t \in Threads :
         /\ pc[t] \in Before \union {"drop"} => trash[t] = {}
         /\ \A b \in trash[t] : pc[b] \notin Before
         /\ pc[t] = "free" => trash[t] # {}
         /\ pc[t] = "undo" => trash[t] # {} \/ t \notin BlobsOf(row.arts)
         /\ t \notin trash[t] \/ pc[t] \in Over
    /\ \A b \in blobs : Uploads(op[b]) /\ pc[b] # "upload"
    /\ \A r \in row.arts : OwnRecord(r)
    /\ exists =>
         /\ \A t \in Threads : Uploads(op[t]) /\ pc[t] \in Before \ {"upload"} => t \in blobs
         /\ \A b \in BlobsOf(row.arts) : b \in blobs \/ Withdrawn(b)
         /\ \A t \in Threads : (trash[t] \ {t}) \intersect BlobsOf(row.arts) = {}
         /\ \/ \E t \in Threads : pc[t] = "crashed"
            \/ \A b \in blobs :
                 \/ b \in BlobsOf(row.arts)
                 \/ \E t \in Threads : b \in trash[t]
                 \/ pc[b] \in Before \union {"undo"}
LEMMA BlobInitially == Init => BlobInv
  <1> SUFFICES ASSUME Init PROVE BlobInv
    OBVIOUS
  <1>1. BlobsOf(row.arts) = {} /\ row.arts = {}
    BY DEF Init, EmptySession, BlobsOf
  <1>2. \A t \in Threads : Uploads(op[t]) => pc[t] = "upload"
    BY DEF Init, FirstStep, Uploads
  <1>3. \A t \in Threads : pc[t] # "undo" /\ pc[t] # "free"
    BY DEF Init, FirstStep
  <1> QED
    BY <1>1, <1>2, <1>3 DEF Init, BlobInv

\* A save exchanges records, and frees the blobs of those that have lost theirs.
LEMMA Exchange ==
    ASSUME NEW t \in Threads, NEW call \in Operations, NEW s \in Sessions, ~Misses(call, s),
           OneRecordEach(s)
    PROVE  \E lost \in SUBSET s.arts, new \in SUBSET {Record(t, call)} :
             /\ Result(t, call, s).arts = (s.arts \ lost) \union new
             /\ Freed(t, call, s) = BlobsOf(lost) \ BlobsOf(new)
             /\ \A r1 \in lost, r2 \in s.arts \ lost : r1.id # r2.id
             /\ new = IF Stores(call) THEN {Record(t, call)} ELSE {}
  <1>1. CASE Stores(call)
    <2> DEFINE rec  == Record(t, call)
               lost == Superseded(s, rec)
    <2>1. Result(t, call, s).arts = (s.arts \ lost) \union {rec}
      <3>1. Result(t, call, s) = [s EXCEPT !.arts = (s.arts \ lost) \union {rec}]
        BY <1>1 DEF Result, PutArtifact, Sessions, Stores
      <3> QED
        BY <3>1 DEF Sessions
    <2>2. Freed(t, call, s) = BlobsOf(lost) \ BlobsOf({rec})
      BY <1>1 DEF Freed, ReplacedBlobs, BlobsOf, Stores
    <2>3. lost \in SUBSET s.arts /\ \A r1 \in lost, r2 \in s.arts \ lost : r1.id # r2.id
      BY DEF Superseded, OneRecordEach
    <2> HIDE DEF lost, rec
    <2>4. Record(t, call) = rec
      BY DEF rec
    <2> QED
      BY <1>1, <2>1, <2>2, <2>3, <2>4
  <1>2. CASE call.kind = "cut"
    <2> DEFINE i    == CutPoint(call, s)
               gone == DiscardedByCut(s, i)
               lost == {r \in s.arts : r.id \in gone}
    <2>1. Result(t, call, s) = CutFrom(s, i)
      BY <1>2 DEF Result, Stores
    <2>2. CutFrom(s, i).arts = {r \in s.arts : r.id \notin gone}
      BY DEF CutFrom, Sessions
    <2>3. Freed(t, call, s) = BlobsOf(lost) \ BlobsOf({})
      BY <1>2 DEF Freed, BlobsFreedByCut, BlobsOf, Stores
    <2> HIDE DEF i, gone
    <2>4. Result(t, call, s).arts = (s.arts \ lost) \union {}
      BY <2>1, <2>2
    <2>5. lost \in SUBSET s.arts /\ \A r1 \in lost, r2 \in s.arts \ lost : r1.id # r2.id
      OBVIOUS
    <2>6. ~Stores(call)
      BY <1>2 DEF Stores
    <2> HIDE DEF lost
    <2> QED
      BY <2>3, <2>4, <2>5, <2>6, Zenon
  <1>3. CASE call.kind # "cut" /\ ~Stores(call)
    <2>1. Result(t, call, s).arts = s.arts
      BY <1>3 DEF Result, AppendMessage, SetMemory, SetSettings, Sessions, Stores
    <2>2. Freed(t, call, s) = BlobsOf({}) \ BlobsOf({})
      BY <1>3 DEF Freed, BlobsOf, Stores
    <2>3. Result(t, call, s).arts = (s.arts \ {}) \union {}
      BY <2>1
    <2>4. {} \in SUBSET s.arts /\ \A r1 \in {}, r2 \in s.arts \ {} : r1.id # r2.id
      OBVIOUS
    <2> QED
      BY <1>3, <2>2, <2>3, <2>4, Zenon
  <1> QED
    BY <1>1, <1>2, <1>3

LEMMA BlobsOfParts ==
    \A R, S : BlobsOf(R \union S) = BlobsOf(R) \union BlobsOf(S)
  BY DEF BlobsOf

LEMMA BlobStep == Types /\ LockInv /\ BlobInv /\ [Next]_vars => BlobInv'
  <1> SUFFICES ASSUME Types, LockInv, BlobInv, [Next]_vars PROVE BlobInv'
    OBVIOUS
  <1>t. /\ pc \in [Threads -> Labels] /\ trash \in [Threads -> SUBSET Threads]
        /\ row \in Sessions /\ op \in [Threads -> Operations] /\ blobs \subseteq Threads
    BY DEF Types, TypeOK
  <1>o. \A b \in BlobsOf(row.arts) : /\ b \in Threads /\ Uploads(op[b]) /\ pc[b] \notin Before
                                     /\ b # Inline
    BY DEF BlobInv, OwnRecord, BlobsOf
  <1> USE DEF Goto, Before, Inside, Over
  <1>1. ASSUME NEW t \in Threads, Upload(t) \/ OpenRow(t) PROVE BlobInv'
    BY <1>1, <1>t, <1>o DEF Upload, OpenRow, BlobInv, OwnRecord, Withdrawn, Types
  <1>2. ASSUME NEW t \in Threads, FetchMessages(t) \/ FetchArtifacts(t) \/ FetchMemory(t)
        PROVE  BlobInv'
    BY <1>2, <1>t, <1>o
       DEF FetchMessages, FetchArtifacts, FetchMemory, Fetch, BlobInv, OwnRecord, Withdrawn
  <1>3. ASSUME NEW t \in Threads, Save(t) PROVE BlobInv'
    <2>1. /\ pc[t] = "save" /\ exists /\ ~Misses(op[t], row) /\ copy[t] = row
          /\ row' = Result(t, op[t], row) /\ UNCHANGED <<exists, blobs, op>>
          /\ trash' = [trash EXCEPT ![t] = Freed(t, op[t], row)]
      BY <1>3, SavesTheRow DEF Save
    <2>2. PICK lost \in SUBSET row.arts, new \in SUBSET {Record(t, op[t])} :
            /\ row'.arts = (row.arts \ lost) \union new
            /\ Freed(t, op[t], row) = BlobsOf(lost) \ BlobsOf(new)
            /\ \A r1 \in lost, r2 \in row.arts \ lost : r1.id # r2.id
            /\ new = IF Stores(op[t]) THEN {Record(t, op[t])} ELSE {}
      <3>1. op[t] \in Operations /\ row \in Sessions /\ ~Misses(op[t], row) /\ OneRecordEach(row)
        BY <1>t, <2>1 DEF Types, TypeOK, OneRecordEach
      <3>2. \E lost \in SUBSET row.arts, new \in SUBSET {Record(t, op[t])} :
              /\ Result(t, op[t], row).arts = (row.arts \ lost) \union new
              /\ Freed(t, op[t], row) = BlobsOf(lost) \ BlobsOf(new)
              /\ \A r1 \in lost, r2 \in row.arts \ lost : r1.id # r2.id
              /\ new = IF Stores(op[t]) THEN {Record(t, op[t])} ELSE {}
        BY <3>1, Exchange
      <3> QED
        BY <2>1, <3>2
    <2> DEFINE kept  == row.arts \ lost
               freed == BlobsOf(lost) \ BlobsOf(new)
    <2>3. /\ BlobsOf(row.arts) = BlobsOf(lost) \union BlobsOf(kept)
          /\ BlobsOf(row'.arts) = BlobsOf(kept) \union BlobsOf(new)
          /\ freed \subseteq BlobsOf(row.arts)
      <3>1. row.arts = lost \union kept
        OBVIOUS
      <3> QED
        BY <2>2, <3>1, BlobsOfParts
    <2>4. BlobsOf(new) = IF Uploads(op[t]) THEN {t} ELSE {}
      <3>1. CASE Stores(op[t])
        <4>1. new = {Record(t, op[t])} /\ t # Inline
          BY <3>1, <2>2, ThreadsAssumption
        <4>2. BlobsOf(new) = {Record(t, op[t]).blob} \ {Inline}
          BY <4>1 DEF BlobsOf
        <4> QED
          BY <3>1, <4>1, <4>2 DEF Uploads, Record, Stores
      <3>2. CASE ~Stores(op[t])
        BY <3>2, <2>2 DEF BlobsOf, Uploads, Stores
      <3> QED
        BY <3>1, <3>2
    <2>5. BlobsOf(lost) \intersect BlobsOf(kept) = {}
      <3> SUFFICES ASSUME NEW r1 \in lost, NEW r2 \in kept, r1.blob = r2.blob, r1.blob # Inline
                   PROVE  FALSE
        BY DEF BlobsOf
      <3> QED
        BY <2>2 DEF BlobInv, OwnRecord
    <2>6. \A r \in row'.arts : OwnRecord(r)'
      <3>1. \A r \in kept : OwnRecord(r)'
        BY <1>3, <1>t, <2>1 DEF Save, BlobInv, OwnRecord
      <3>2. \A r \in new : OwnRecord(r)'
        BY <1>3, <1>t, <2>1, <2>2, ThreadsAssumption DEF Save, OwnRecord, Record, Uploads, Stores
      <3> QED
        BY <2>2, <3>1, <3>2
    <2>7. /\ pc'[t] \in {"free", "done"} /\ (pc'[t] = "free" => freed # {}) /\ trash'[t] = freed
          /\ \A u \in Threads \ {t} : pc'[u] = pc[u] /\ trash'[u] = trash[u]
          /\ UNCHANGED <<exists, blobs, op>>
      BY <1>3, <1>t, <2>1, <2>2 DEF Save
    <2>8. /\ t \notin BlobsOf(row.arts) /\ t \notin freed /\ trash[t] = {}
          /\ \A b \in freed : b \in Threads /\ pc[b] \notin Before /\ b # t
      BY <1>o, <2>1, <2>3 DEF BlobInv
    <2> HIDE DEF kept, freed
    <2>9. \A u \in Threads :
            /\ pc'[u] \in Before \union {"drop"} => trash'[u] = {}
            /\ \A b \in trash'[u] : pc'[b] \notin Before
            /\ pc'[u] = "free" => trash'[u] # {}
            /\ pc'[u] = "undo" => trash'[u] # {} \/ u \notin BlobsOf(row'.arts)
            /\ u \notin trash'[u] \/ pc'[u] \in Over
      <3>1. \A u \in Threads : \A b \in trash'[u] : pc'[b] \notin Before
        BY <1>t, <2>7, <2>8 DEF BlobInv
      <3>2. \A u \in Threads \ {t} : u \notin BlobsOf(row.arts) => u \notin BlobsOf(row'.arts)
        BY <2>3, <2>4
      <3> QED
        BY <3>1, <3>2, <2>7, <2>8 DEF BlobInv
    <2>10. \A b \in blobs : Uploads(op'[b]) /\ pc'[b] # "upload"
      BY <1>t, <2>7 DEF BlobInv
    <2>11. \A u \in Threads : Uploads(op'[u]) /\ pc'[u] \in Before \ {"upload"} => u \in blobs'
      BY <2>1, <2>7 DEF BlobInv
    <2>12. \A b \in BlobsOf(row'.arts) : b \in blobs' \/ Withdrawn(b)'
      <3>1. \A b \in BlobsOf(row.arts) : b \in blobs' \/ Withdrawn(b)'
        BY <1>o, <2>1, <2>7, <2>8 DEF BlobInv, Withdrawn
      <3>2. BlobsOf(new) \subseteq blobs'
        BY <2>1, <2>4, <2>7 DEF BlobInv
      <3> QED
        BY <2>3, <3>1, <3>2
    <2>13. \A u \in Threads : (trash'[u] \ {u}) \intersect BlobsOf(row'.arts) = {}
      <3>1. freed \intersect BlobsOf(row'.arts) = {}
        BY <2>3, <2>5 DEF freed
      <3>2. \A u \in Threads \ {t} : (trash[u] \ {u}) \intersect BlobsOf(row'.arts) = {}
        BY <2>1, <2>3, <2>4 DEF BlobInv
      <3> QED
        BY <2>7, <3>1, <3>2
    <2>14. \/ \E u \in Threads : pc'[u] = "crashed"
           \/ \A b \in blobs' : \/ b \in BlobsOf(row'.arts)
                               \/ \E u \in Threads : b \in trash'[u]
                               \/ pc'[b] \in Before \union {"undo"}
      <3>1. CASE \E u \in Threads : pc[u] = "crashed"
        BY <3>1, <2>1, <2>7
      <3>2. ASSUME NEW b \in blobs, b \in BlobsOf(row.arts)
            PROVE  b \in BlobsOf(row'.arts) \/ b \in trash'[t]
        BY <3>2, <2>3, <2>7 DEF freed
      <3>3. t \in blobs => t \in BlobsOf(row'.arts)
        BY <2>3, <2>4 DEF BlobInv
      <3>4. ASSUME NEW b \in blobs, b # t, (\E u \in Threads : b \in trash[u]) \/ pc[b] \in Before \union {"undo"}
            PROVE  (\E u \in Threads : b \in trash'[u]) \/ pc'[b] \in Before \union {"undo"}
        BY <3>4, <1>t, <2>7, <2>8
      <3> QED
        BY <2>1, <2>7, <3>1, <3>2, <3>3, <3>4 DEF BlobInv
    <2> QED
      BY <2>6, <2>7, <2>9, <2>10, <2>11, <2>12, <2>13, <2>14 DEF BlobInv
  <1>4. ASSUME NEW t \in Threads, CutNothing(t) \/ SaveFails(t) PROVE BlobInv'
    BY <1>4, <1>t, <1>o
       DEF CutNothing, SaveFails, Misses, Uploads, BlobInv, OwnRecord, Withdrawn
  <1>5. ASSUME NEW t \in Threads, Free(t) PROVE BlobInv'
    BY <1>5, <1>t, <1>o DEF Free, BlobInv, OwnRecord, Withdrawn
  <1>6. ASSUME NEW t \in Threads, FreeFails(t) PROVE BlobInv'
    BY <1>6, <1>t, <1>o DEF FreeFails, BlobInv, OwnRecord, Withdrawn
  <1>7. ASSUME NEW t \in Threads, Undo(t) PROVE BlobInv'
    BY <1>7, <1>t, <1>o DEF Undo, BlobInv, OwnRecord, Withdrawn
  <1>8. ASSUME NEW t \in Threads, Drop(t) PROVE BlobInv'
    BY <1>8, <1>t, <1>o DEF Drop, BlobInv, OwnRecord, Withdrawn
  <1>9. ASSUME NEW p \in Processes, Crash(p) PROVE BlobInv'
    BY <1>9, <1>t, <1>o DEF Crash, BlobInv, OwnRecord, Withdrawn
  <1>10. ASSUME UNCHANGED vars PROVE BlobInv'
    BY <1>10 DEF vars, BlobInv, OwnRecord, Withdrawn
  <1> QED
    BY <1>1, <1>2, <1>3, <1>4, <1>5, <1>6, <1>7, <1>8, <1>9, <1>10 DEF Next, Step

LEMMA Blobs == ApartSpec => [](Types /\ LockInv /\ BlobInv)
  <1>1. [Next /\ ~Overlap']_vars => [Next]_vars
    OBVIOUS
  <1> QED
    BY <1>1, Locked, BlobInitially, BlobStep, PTL DEF ApartSpec

\* A record never points to a blob that is gone, and once every call has
\* returned or raised no blob is left without a record, but those whose
\* deletion raised (add_artifacts, _delete_artifact_blobs), unless calls of two
\* workers overlap.
THEOREM BlobsMatch == ApartSpec => []BlobsMatchRecords
  <1>1. Types /\ BlobInv => BlobsMatchRecords
    <2> SUFFICES ASSUME Types, BlobInv, exists PROVE BlobsMatchRecords
      BY DEF BlobsMatchRecords, NoDanglingBlob, NoOrphanBlob
    <2>1. NoDanglingBlob
      BY DEF NoDanglingBlob, BlobInv, Withdrawn, TakenBack, OwnRecord, BlobsOf
    <2>2. NoOrphanBlob
      <3> SUFFICES ASSUME \A t \in Threads : pc[t] \in {"done", "failed"}, NEW b \in blobs
                   PROVE  b \in BlobsOf(row.arts) \/ \E t \in Threads : b \in trash[t]
        BY DEF NoOrphanBlob
      <3>1. b \in Threads
        BY DEF Types, TypeOK
      <3> QED
        BY <3>1 DEF BlobInv, Before, Inside
    <2> QED
      BY <2>1, <2>2 DEF BlobsMatchRecords
  <1> QED
    BY <1>1, Blobs, PTL

\* Deleting messages takes away no artifact that a message which stays still
\* shows (retained_ids in delete_messages_from_id), unless calls of two workers
\* overlap.
THEOREM ShownStay == ApartSpec => ShownArtifactsStay
  <1> DEFINE Kept == \A r \in row.arts :
                       r.id \in ShownIn(row'.hist) /\ ~r.look => \E n \in row'.arts : n.id = r.id
  <1>1. Types /\ LockInv /\ [Next]_vars => [Kept]_row
    <2> SUFFICES ASSUME Types, LockInv, Next, row' # row PROVE Kept
      BY DEF vars
    <2>1. PICK t \in Threads : Save(t)
      BY DEF Next, Step, Upload, OpenRow, FetchMessages, FetchArtifacts, FetchMemory, Fetch,
             CutNothing, SaveFails, Free, FreeFails, Undo, Drop, Crash
    <2>2. row' = Result(t, op[t], row) /\ ~Misses(op[t], row) /\ row \in Sessions
      BY <2>1, SavesTheRow DEF Save, Types, TypeOK
    <2>3. CASE Stores(op[t])
      <3> DEFINE rec == Record(t, op[t])
      <3>1. row' = [row EXCEPT !.arts = (row.arts \ Superseded(row, rec)) \union {rec}]
        BY <2>2, <2>3 DEF Result, PutArtifact, Sessions, Stores
      <3>2. row'.arts = (row.arts \ Superseded(row, rec)) \union {rec}
        BY <2>2, <3>1 DEF Sessions
      <3> QED
        BY <3>2 DEF Superseded
    <2>4. CASE op[t].kind = "cut"
      <3> DEFINE i    == CutPoint(op[t], row)
                 gone == DiscardedByCut(row, i)
      <3>1. row' = CutFrom(row, i)
        BY <2>2, <2>4 DEF Result, Stores
      <3>2. /\ row'.hist = SubSeq(row.hist, 1, i - 1)
            /\ row'.arts = {r \in row.arts : r.id \notin gone}
        BY <2>2, <3>1 DEF CutFrom, Sessions
      <3>3. \A x \in gone : x \notin ShownIn(row'.hist)
        BY <3>2 DEF DiscardedByCut
      <3> HIDE DEF gone
      <3> QED
        BY <3>2, <3>3
    <2>5. CASE op[t].kind # "cut" /\ ~Stores(op[t])
      <3>1. row'.arts = row.arts
        BY <2>2, <2>5 DEF Result, AppendMessage, SetMemory, SetSettings, Sessions, Stores
      <3> QED
        BY <3>1
    <2> QED
      BY <2>3, <2>4, <2>5
  <1>2. Types /\ LockInv /\ [Next /\ ~Overlap']_vars => [Kept]_row
    BY <1>1
  <1> QED
    BY <1>2, Locked, PTL DEF ApartSpec, ShownArtifactsStay
=============================================================================
