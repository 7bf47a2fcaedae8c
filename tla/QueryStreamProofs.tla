-------------------------- MODULE QueryStreamProofs -------------------------
(***************************************************************************)
(* Theorems about QueryStream, for every number of callbacks and phases,   *)
(* every set of artifacts and every set of faults.                         *)
(***************************************************************************)
EXTENDS QueryStream, FiniteSetTheorems, TLAPS

QueueEvents == Events \union {"done"}

USE DEF Finals, Closed, Events, Saved, QueueEvents, vars, workerVars, loopVars, genVars,
        sessionVars, taskVars

-----------------------------------------------------------------------------
(* Types                                                                   *)

\* An artifact sink runs with the artifact just collected.
SinkHasArtifact == worker = "sinking" => made # <<>>

\* TypeOK is inductive with SinkHasArtifact: the sink stores the last of made.
TypeInv == TypeOK /\ SinkHasArtifact

\* The messages that k writes of a turn leave in the history have their type.
LEMMA MessagesType ==
    ASSUME NEW k \in WriteCounts, NEW answer \in {"answer", "fallback", "interrupted"}
    PROVE  Messages(k, answer) \in Seq(Saved)
  <1>1. <<"user", answer>> \in Seq(Saved)
    OBVIOUS
  <1>2. (IF k < 2 THEN k ELSE 2) \in 0..2
    BY DEF WriteCounts, AllWrites
  <1> QED
    BY <1>1, <1>2 DEF Messages

\* The phases one pass of the emitter queues are events.
LEMMA NewPhasesType ==
    ASSUME StatesOK
    PROVE  NewPhases \in Seq(QueueEvents)
  <1>1. CASE emitted <= phases
    <2>1. phases - emitted \in Nat
      BY <1>1 DEF StatesOK
    <2> QED
      BY <2>1 DEF NewPhases
  <1>2. CASE phases < emitted
    <2>1. NewPhases = <<>>
      BY <1>2 DEF NewPhases, StatesOK
    <2> QED
      BY <2>1
  <1> QED
    BY <1>1, <1>2 DEF StatesOK

\* The finally clause of run_agent leaves the queue a sequence of events.
LEMMA EndQueueType ==
    ASSUME queue \in Seq(QueueEvents), NEW events \in Seq(Events),
           NEW how \in {"ended", "raised"}, EndQueue(events, how)
    PROVE  queue' \in Seq(QueueEvents) /\ ended' \in BOOLEAN /\ agent' \in {"ended", "raised"}
  <1>1. events \in Seq(QueueEvents) /\ <<"done">> \in Seq(QueueEvents)
    OBVIOUS
  <1> QED
    BY <1>1 DEF EndQueue

\* The fallback turn writes messages and ends the queue.
LEMMA FallbackTurnType ==
    ASSUME queue \in Seq(QueueEvents), NEW before \in Seq(Saved), FallbackTurn(before)
    PROVE  /\ hist' \in Seq(Saved) /\ noted' \in BOOLEAN
           /\ queue' \in Seq(QueueEvents) /\ ended' \in BOOLEAN
           /\ agent' \in {"ended", "raised"}
  <1>1. PICK k \in WriteCounts :
            /\ hist' = before \o Messages(k, "fallback")
            /\ noted' = (k = AllWrites)
            /\ IF k = AllWrites THEN EndQueue(<<"final">>, "ended") ELSE EndQueue(<<>>, "raised")
    BY DEF FallbackTurn
  <1>2. hist' \in Seq(Saved)
    BY <1>1, MessagesType
  <1>3. noted' \in BOOLEAN
    BY <1>1, Zenon
  <1>4. <<"final">> \in Seq(Events) /\ <<>> \in Seq(Events)
    OBVIOUS
  <1>5. CASE EndQueue(<<"final">>, "ended")
    BY <1>2, <1>3, <1>4, <1>5, EndQueueType
  <1>6. CASE EndQueue(<<>>, "raised")
    BY <1>2, <1>3, <1>4, <1>6, EndQueueType
  <1> QED
    BY <1>1, <1>5, <1>6

\* The except clause of the generator saves messages and artifacts.
LEMMA SaveInterruptedType ==
    ASSUME TypeOK, SaveInterrupted
    PROVE  hist' \in Seq(Saved) /\ noted' \in BOOLEAN /\ stored' \subseteq Artifacts
  <1>1. CASE UNCHANGED <<hist, stored, noted>>
    BY <1>1 DEF TypeOK, FlagsOK, DataOK
  <1>2. CASE \E k \in WriteCounts :
               /\ hist' = Messages(k, "interrupted")
               /\ stored' = IF k >= 3 THEN stored \union Uncollected ELSE stored
               /\ noted' = (k = AllWrites)
    <2>1. PICK k \in WriteCounts :
               /\ hist' = Messages(k, "interrupted")
               /\ stored' = IF k >= 3 THEN stored \union Uncollected ELSE stored
               /\ noted' = (k = AllWrites)
      BY <1>2
    <2>2. hist' \in Seq(Saved)
      BY <2>1, MessagesType
    <2>3. noted' \in BOOLEAN
      BY <2>1, Zenon
    <2>4. stored' \subseteq Artifacts
      BY <2>1 DEF TypeOK, DataOK, Uncollected, Made
    <2> QED
      BY <2>2, <2>3, <2>4
  <1> QED
    BY <1>1, <1>2 DEF SaveInterrupted

\* The sink returns: the artifact stored is the last one collected.
LEMMA SinkReturnsType == ASSUME TypeInv, SinkReturns PROVE DataOK'
  <1> USE DEF TypeInv, TypeOK, SinkHasArtifact
  <1>1. made[Len(made)] \in Artifacts
    BY DEF SinkReturns, DataOK
  <1>2. ready' \in Seq({"callback", "result"})
    BY DEF SinkReturns, Post, DataOK
  <1>3. sunk' \subseteq Artifacts /\ stored' \subseteq Artifacts
    BY <1>1 DEF SinkReturns, DataOK
  <1> QED
    BY <1>2, <1>3 DEF SinkReturns, DataOK

\* A tool ends: its artifact is collected and its sink runs.
LEMMA ToolEndsType ==
    ASSUME TypeInv, NEW a \in Artifacts, ToolEnds(a)
    PROVE  DataOK' /\ SinkHasArtifact'
  <1> USE DEF TypeInv, TypeOK, SinkHasArtifact
  <1>1. made' = Append(made, a) /\ made \in Seq(Artifacts)
    BY DEF ToolEnds, DataOK
  <1>2. made' \in Seq(Artifacts) /\ made' # <<>>
    BY <1>1
  <1> QED
    BY <1>2 DEF ToolEnds, DataOK

\* The loop runs a callback: an event is queued, or run_agent is woken.
LEMMA RunCallbackType == ASSUME TypeInv, RunCallback PROVE StatesOK' /\ DataOK'
  <1> USE DEF TypeInv, TypeOK
  <1>1. ready' \in Seq({"callback", "result"})
    BY DEF RunCallback, DataOK
  <1>2. CASE Head(ready) = "callback"
    <2>1. queue' = Append(queue, "callback") /\ agent' = agent
      BY <1>2 DEF RunCallback
    <2>2. queue' \in Seq(QueueEvents)
      BY <2>1 DEF DataOK
    <2> QED
      BY <1>1, <2>1, <2>2 DEF RunCallback, StatesOK, DataOK
  <1>3. CASE Head(ready) # "callback"
    BY <1>1, <1>3 DEF RunCallback, StatesOK, DataOK
  <1> QED
    BY <1>2, <1>3

\* A pass of the emitter queues phases and a snapshot.
LEMMA EmitPassType == ASSUME TypeInv, EmitPass PROVE DataOK'
  <1> USE DEF TypeInv, TypeOK
  <1>1. NewPhases \in Seq(QueueEvents)
    BY NewPhasesType
  <1>2. (IF graphDirty THEN <<"graph">> ELSE <<>>) \in Seq(QueueEvents)
    <2>1. CASE graphDirty
      BY <2>1
    <2>2. CASE ~graphDirty
      BY <2>2
    <2> QED
      BY <2>1, <2>2
  <1>3. queue' \in Seq(QueueEvents)
    BY <1>1, <1>2 DEF EmitPass, DataOK
  <1> QED
    BY <1>3 DEF EmitPass, DataOK

\* An emitter that raises has queued its phases.
LEMMA EmitRaisesType == ASSUME TypeInv, EmitRaises PROVE DataOK'
  <1> USE DEF TypeInv, TypeOK
  <1>1. NewPhases \in Seq(QueueEvents)
    BY NewPhasesType
  <1>2. queue' \in Seq(QueueEvents)
    BY <1>1 DEF EmitRaises, DataOK
  <1> QED
    BY <1>2 DEF EmitRaises, DataOK

\* The generator takes "done", a final event, or an event to send.
LEMMA TakeType == ASSUME TypeInv, Take PROVE StatesOK' /\ DataOK'
  <1> USE DEF TypeInv, TypeOK
  <1>1. Head(queue) \in QueueEvents /\ queue' \in Seq(QueueEvents)
    BY DEF Take, DataOK
  <1>2. CASE Head(queue) = "done"
    <2>1. gen' = "joining" /\ deferred' = deferred /\ sent' = sent
      BY <1>2 DEF Take, Defers
    <2> QED
      BY <1>1, <2>1 DEF Take, StatesOK, DataOK
  <1>3. CASE Head(queue) \in Finals
    <2>1. gen' = gen /\ deferred' = Append(deferred, Head(queue)) /\ sent' = sent
      BY <1>3 DEF Take, Defers
    <2>2. deferred' \in Seq(Finals)
      BY <1>3, <2>1 DEF DataOK
    <2> QED
      BY <1>1, <2>1, <2>2 DEF Take, StatesOK, DataOK
  <1>4. CASE Head(queue) \in {"callback", "phase", "graph", "error"}
    <2>1. gen' = "atYield" /\ deferred' = deferred /\ sent' = Append(sent, Head(queue))
      BY <1>4 DEF Take, Defers
    <2>2. sent' \in Seq(Events \union {"start"})
      BY <1>4, <2>1 DEF DataOK
    <2> QED
      BY <1>1, <2>1, <2>2 DEF Take, StatesOK, DataOK
  <1> QED
    BY <1>1, <1>2, <1>3, <1>4

\* After "done" the generator sends what is left in the queue.
LEMMA DrainType == ASSUME TypeInv, Drain PROVE StatesOK' /\ DataOK'
  <1> USE DEF TypeInv, TypeOK
  <1>1. CASE queue = <<>>
    BY <1>1 DEF Drain, StatesOK, DataOK
  <1>2. CASE queue # <<>>
    <2>1. queue' = Tail(queue)
      BY <1>2 DEF Drain
    <2>2. Head(queue) \in QueueEvents /\ queue' \in Seq(QueueEvents)
      BY <1>2, <2>1 DEF DataOK
    <2>3. CASE Head(queue) \in Finals
      <3>1. gen' = gen /\ deferred' = Append(deferred, Head(queue)) /\ sent' = sent
        BY <1>2, <2>3 DEF Drain, Defers
      <3>2. deferred' \in Seq(Finals)
        BY <2>3, <3>1 DEF DataOK
      <3> QED
        BY <2>2, <3>1, <3>2 DEF Drain, StatesOK, DataOK
    <2>4. CASE Head(queue) = "done"
      <3>1. UNCHANGED <<gen, deferred, sent>>
        BY <1>2, <2>4 DEF Drain, Defers
      <3> QED
        BY <2>2, <3>1 DEF Drain, StatesOK, DataOK
    <2>5. CASE Head(queue) \in {"callback", "phase", "graph", "error"}
      <3>1. gen' = "drainYield" /\ deferred' = deferred /\ sent' = Append(sent, Head(queue))
        BY <1>2, <2>5 DEF Drain, Defers
      <3>2. sent' \in Seq(Events \union {"start"})
        BY <2>5, <3>1 DEF DataOK
      <3> QED
        BY <2>2, <3>1, <3>2 DEF Drain, StatesOK, DataOK
    <2> QED
      BY <2>2, <2>3, <2>4, <2>5
  <1> QED
    BY <1>1, <1>2

\* A deferred final event is sent, or the generator ends.
LEMMA FlushType == ASSUME TypeInv, Flush PROVE StatesOK' /\ DataOK'
  <1> USE DEF TypeInv, TypeOK
  <1>1. CASE deferred = <<>>
    BY <1>1 DEF Flush, Close, StatesOK, DataOK
  <1>2. CASE deferred # <<>>
    <2>1. deferred' = Tail(deferred) /\ sent' = Append(sent, Head(deferred))
      BY <1>2 DEF Flush
    <2>2. Head(deferred) \in Events \union {"start"} /\ deferred' \in Seq(Finals)
      BY <1>2, <2>1 DEF DataOK
    <2>3. sent' \in Seq(Events \union {"start"})
      BY <2>1, <2>2 DEF DataOK
    <2> QED
      BY <1>2, <2>2, <2>3 DEF Flush, StatesOK, DataOK
  <1> QED
    BY <1>1, <1>2

\* run_agent saves the answer, or a fallback when something raises.
LEMMA AgentAnswersType ==
    ASSUME TypeInv, AgentAnswers
    PROVE  /\ hist' \in Seq(Saved) /\ noted' \in BOOLEAN /\ stored' \subseteq Artifacts
           /\ queue' \in Seq(QueueEvents) /\ ended' \in BOOLEAN
           /\ agent' \in {"ended", "raised"} /\ effects' \in BOOLEAN
  <1> USE DEF TypeInv, TypeOK
  <1>1. PICK k \in WriteCounts :
            LET saved == hist \o Messages(k, "answer")
            IN  /\ stored' = IF k >= 3 THEN stored \union Uncollected ELSE stored
                /\ \/ /\ hist' = saved
                      /\ noted' = (k = AllWrites)
                      /\ EndQueue(<<IF k = AllWrites THEN "final" ELSE "final_unsaved">>, "ended")
                   \/ /\ "build" \in Faults \/ k = 0
                      /\ FallbackTurn(saved)
    BY DEF AgentAnswers
  <1> DEFINE saved == hist \o Messages(k, "answer")
  <1>2. saved \in Seq(Saved)
    BY MessagesType DEF DataOK
  <1>3. stored' \subseteq Artifacts
    BY <1>1 DEF DataOK, Uncollected, Made
  <1>4. effects' \in BOOLEAN
    <2>1. effects' \in BOOLEAN \/ effects' \in {TRUE}
      BY Zenon DEF AgentAnswers
    <2> QED
      BY <2>1
  <1>5. queue \in Seq(QueueEvents)
    BY DEF DataOK
  <1>6. CASE /\ hist' = saved
             /\ noted' = (k = AllWrites)
             /\ EndQueue(<<IF k = AllWrites THEN "final" ELSE "final_unsaved">>, "ended")
    <2>1. noted' \in BOOLEAN
      BY <1>6, Zenon
    <2>2. <<IF k = AllWrites THEN "final" ELSE "final_unsaved">> \in Seq(Events)
      OBVIOUS
    <2>3. queue' \in Seq(QueueEvents) /\ ended' \in BOOLEAN /\ agent' \in {"ended", "raised"}
      BY <1>5, <1>6, <2>2, EndQueueType
    <2> QED
      BY <1>2, <1>3, <1>4, <1>6, <2>1, <2>3
  <1>7. CASE FallbackTurn(saved)
    <2> HIDE DEF saved
    <2> QED
      BY <1>2, <1>3, <1>4, <1>5, <1>7, FallbackTurnType
  <1> QED
    BY <1>1, <1>6, <1>7

\* The initial state is well typed.
LEMMA TypeInvInit == Init => TypeInv
  <1> USE DEF TypeInv, TypeOK, SinkHasArtifact
  <1> SUFFICES ASSUME Init PROVE TypeInv
    OBVIOUS
  <1>1. FlagsOK
    BY Zenon DEF Init, FlagsOK
  <1>2. StatesOK /\ SinkHasArtifact
    BY DEF Init, StatesOK
  <1>3. DataOK
    <2>1. <<>> \in Seq(Artifacts) /\ <<>> \in Seq({"callback", "result"})
          /\ <<>> \in Seq(QueueEvents) /\ <<>> \in Seq(Finals)
          /\ <<>> \in Seq(Events \union {"start"}) /\ <<>> \in Seq(Saved)
      OBVIOUS
    <2> QED
      BY <2>1, Zenon DEF Init, DataOK
  <1> QED
    BY <1>1, <1>2, <1>3

\* Every step keeps the types.
LEMMA TypeInvStep == TypeInv /\ [Next]_vars => TypeInv'
  <1> USE DEF TypeInv, TypeOK, SinkHasArtifact
  <1> SUFFICES ASSUME TypeInv, [Next]_vars PROVE TypeInv'
    OBVIOUS
  <1>1. CASE WorkerCallback
    <2>1. FlagsOK'
      BY <1>1, Zenon DEF WorkerCallback, Post, FlagsOK
    <2>2. StatesOK' /\ SinkHasArtifact'
      BY <1>1 DEF WorkerCallback, Post, StatesOK, DataOK
    <2>3. DataOK'
      BY <1>1 DEF WorkerCallback, Post, DataOK
    <2> QED
      BY <2>1, <2>2, <2>3
  <1>2. CASE WorkerPhase
    <2>1. FlagsOK'
      BY <1>2, Zenon DEF WorkerPhase, FlagsOK
    <2>2. StatesOK' /\ SinkHasArtifact'
      BY <1>2 DEF WorkerPhase, StatesOK, DataOK
    <2>3. DataOK'
      BY <1>2 DEF WorkerPhase, DataOK
    <2> QED
      BY <2>1, <2>2, <2>3
  <1>3. CASE SinkReturns
    <2>1. FlagsOK'
      BY <1>3, Zenon DEF SinkReturns, Post, FlagsOK
    <2>2. StatesOK' /\ SinkHasArtifact'
      BY <1>3 DEF SinkReturns, Post, StatesOK, DataOK
    <2> QED
      BY <1>3, <2>1, <2>2, SinkReturnsType
  <1>4. CASE RunCallback
    <2>1. FlagsOK'
      BY <1>4, Zenon DEF RunCallback, FlagsOK
    <2>2. SinkHasArtifact'
      BY <1>4 DEF RunCallback
    <2> QED
      BY <1>4, <2>1, <2>2, RunCallbackType
  <1>5. CASE AgentStarts
    <2>1. FlagsOK'
      BY <1>5, Zenon DEF AgentStarts, FlagsOK
    <2>2. StatesOK' /\ SinkHasArtifact'
      BY <1>5 DEF AgentStarts, StatesOK, DataOK
    <2>3. DataOK'
      BY <1>5 DEF AgentStarts, DataOK
    <2> QED
      BY <2>1, <2>2, <2>3
  <1>6. CASE AgentRejects
    <2>1. FlagsOK'
      BY <1>6, Zenon DEF AgentRejects, EndQueue, ClientGone, FlagsOK
    <2>2. StatesOK' /\ SinkHasArtifact'
      BY <1>6 DEF AgentRejects, EndQueue, ClientGone, StatesOK, DataOK
    <2>3. DataOK'
      BY <1>6 DEF AgentRejects, EndQueue, ClientGone, DataOK
    <2> QED
      BY <2>1, <2>2, <2>3
  <1>7. CASE AgentDropped
    <2>1. FlagsOK'
      BY <1>7, Zenon DEF AgentDropped, EndQueue, ClientGone, FlagsOK
    <2>2. StatesOK' /\ SinkHasArtifact'
      BY <1>7 DEF AgentDropped, EndQueue, ClientGone, StatesOK, DataOK
    <2>3. DataOK'
      BY <1>7 DEF AgentDropped, EndQueue, ClientGone, DataOK
    <2> QED
      BY <2>1, <2>2, <2>3
  <1>8. CASE EmitPass
    <2>1. FlagsOK'
      BY <1>8, Zenon DEF EmitPass, FlagsOK
    <2>2. StatesOK' /\ SinkHasArtifact'
      BY <1>8 DEF EmitPass, StatesOK, DataOK
    <2> QED
      BY <1>8, <2>1, <2>2, EmitPassType
  <1>9. CASE EmitRaises
    <2>1. FlagsOK'
      BY <1>9, Zenon DEF EmitRaises, FlagsOK
    <2>2. StatesOK' /\ SinkHasArtifact'
      BY <1>9 DEF EmitRaises, StatesOK, DataOK
    <2> QED
      BY <1>9, <2>1, <2>2, EmitRaisesType
  <1>10. CASE Iterate
    <2>1. FlagsOK'
      BY <1>10, Zenon DEF Iterate, FlagsOK
    <2>2. StatesOK' /\ SinkHasArtifact'
      BY <1>10 DEF Iterate, StatesOK, DataOK
    <2>3. DataOK'
      BY <1>10 DEF Iterate, DataOK
    <2> QED
      BY <2>1, <2>2, <2>3
  <1>11. CASE CreateTasks
    <2>1. FlagsOK'
      BY <1>11, Zenon DEF CreateTasks, FlagsOK
    <2>2. StatesOK' /\ SinkHasArtifact'
      BY <1>11 DEF CreateTasks, StatesOK, DataOK
    <2>3. DataOK'
      BY <1>11 DEF CreateTasks, DataOK
    <2> QED
      BY <2>1, <2>2, <2>3
  <1>12. CASE Take
    <2>1. FlagsOK'
      BY <1>12, Zenon DEF Take, FlagsOK
    <2>2. SinkHasArtifact'
      BY <1>12 DEF Take
    <2> QED
      BY <1>12, <2>1, <2>2, TakeType
  <1>13. CASE Join
    <2>1. FlagsOK'
      BY <1>13, Zenon DEF Join, Close, FlagsOK
    <2>2. StatesOK' /\ SinkHasArtifact'
      BY <1>13 DEF Join, Close, StatesOK, DataOK
    <2>3. DataOK'
      BY <1>13 DEF Join, Close, DataOK
    <2> QED
      BY <2>1, <2>2, <2>3
  <1>14. CASE Drain
    <2>1. FlagsOK'
      BY <1>14, Zenon DEF Drain, FlagsOK
    <2>2. SinkHasArtifact'
      BY <1>14 DEF Drain
    <2> QED
      BY <1>14, <2>1, <2>2, DrainType
  <1>15. CASE Flush
    <2>1. FlagsOK'
      BY <1>15, Zenon DEF Flush, Close, FlagsOK
    <2>2. SinkHasArtifact'
      BY <1>15 DEF Flush, Close
    <2> QED
      BY <1>15, <2>1, <2>2, FlushType
  <1>16. CASE Resume
    <2>1. FlagsOK'
      BY <1>16, Zenon DEF Resume, FlagsOK
    <2>2. StatesOK' /\ SinkHasArtifact'
      BY <1>16 DEF Resume, StatesOK, DataOK
    <2>3. DataOK'
      BY <1>16 DEF Resume, DataOK
    <2> QED
      BY <2>1, <2>2, <2>3
  <1>17. CASE LeaveAtYield
    <2>1. FlagsOK'
      BY <1>17, Zenon DEF LeaveAtYield, Close, FlagsOK
    <2>2. StatesOK' /\ SinkHasArtifact'
      BY <1>17 DEF LeaveAtYield, Close, StatesOK, DataOK
    <2>3. DataOK'
      BY <1>17 DEF LeaveAtYield, Close, DataOK
    <2> QED
      BY <2>1, <2>2, <2>3
  <1>18. CASE LeaveAtStart
    <2>1. FlagsOK'
      BY <1>18, Zenon DEF LeaveAtStart, Close, FlagsOK
    <2>2. StatesOK' /\ SinkHasArtifact'
      BY <1>18 DEF LeaveAtStart, Close, StatesOK, DataOK
    <2>3. DataOK'
      BY <1>18 DEF LeaveAtStart, Close, DataOK
    <2> QED
      BY <2>1, <2>2, <2>3
  <1>19. CASE NeverIterated
    <2>1. FlagsOK'
      BY <1>19, Zenon DEF NeverIterated, FlagsOK
    <2>2. StatesOK' /\ SinkHasArtifact'
      BY <1>19 DEF NeverIterated, StatesOK, DataOK
    <2>3. DataOK'
      BY <1>19 DEF NeverIterated, DataOK
    <2> QED
      BY <2>1, <2>2, <2>3
  <1>20. CASE ConnectionFinalized
    <2>1. FlagsOK'
      BY <1>20, Zenon DEF ConnectionFinalized, FlagsOK
    <2>2. StatesOK' /\ SinkHasArtifact'
      BY <1>20 DEF ConnectionFinalized, StatesOK, DataOK
    <2>3. DataOK'
      BY <1>20 DEF ConnectionFinalized, DataOK
    <2> QED
      BY <2>1, <2>2, <2>3
  <1>21. ASSUME NEW a \in Artifacts, ToolEnds(a) PROVE TypeInv'
    <2>1. FlagsOK'
      BY <1>21, Zenon DEF ToolEnds, FlagsOK
    <2>2. StatesOK'
      BY <1>21 DEF ToolEnds, StatesOK
    <2> QED
      BY <1>21, <2>1, <2>2, ToolEndsType
  <1>22. ASSUME NEW r \in {"answer", "skill_error", "exception"}, WorkerReturns(r)
         PROVE  TypeInv'
    <2>1. FlagsOK'
      BY <1>22, Zenon DEF WorkerReturns, Post, FlagsOK
    <2>2. StatesOK' /\ SinkHasArtifact'
      BY <1>22 DEF WorkerReturns, Post, StatesOK, DataOK
    <2>3. DataOK'
      BY <1>22 DEF WorkerReturns, Post, DataOK
    <2> QED
      BY <2>1, <2>2, <2>3
  <1>23. CASE AgentAnswers
    <2>1. FlagsOK'
      BY <1>23, AgentAnswersType, Zenon DEF AgentAnswers, FlagsOK
    <2>2. StatesOK' /\ SinkHasArtifact' /\ DataOK'
      BY <1>23, AgentAnswersType DEF AgentAnswers, StatesOK, DataOK
    <2> QED
      BY <2>1, <2>2
  <1>24. CASE AgentFails
    <2>1. FallbackTurn(hist) /\ queue \in Seq(QueueEvents) /\ hist \in Seq(Saved)
      BY <1>24 DEF AgentFails, DataOK
    <2>2. /\ hist' \in Seq(Saved) /\ noted' \in BOOLEAN
          /\ queue' \in Seq(QueueEvents) /\ ended' \in BOOLEAN
          /\ agent' \in {"ended", "raised"}
      BY <2>1, FallbackTurnType
    <2>3. FlagsOK'
      BY <1>24, <2>2, Zenon DEF AgentFails, FlagsOK
    <2>4. StatesOK' /\ SinkHasArtifact' /\ DataOK'
      BY <1>24, <2>2 DEF AgentFails, StatesOK, DataOK
    <2> QED
      BY <2>3, <2>4
  <1>25. CASE AgentDeadline
    <2>1. queue \in Seq(QueueEvents) /\ hist \in Seq(Saved) /\ noted \in BOOLEAN
      BY DEF FlagsOK, DataOK
    <2>2. /\ hist' \in Seq(Saved) /\ noted' \in BOOLEAN
          /\ queue' \in Seq(QueueEvents) /\ ended' \in BOOLEAN
          /\ agent' \in {"ended", "raised"}
      <3>1. CASE ClientGone
        <4>1. EndQueue(<<>>, "ended") /\ UNCHANGED <<hist, noted>>
          BY <1>25, <3>1 DEF AgentDeadline
        <4>2. <<>> \in Seq(Events)
          OBVIOUS
        <4> QED
          BY <2>1, <4>1, <4>2, EndQueueType
      <3>2. CASE ~ClientGone
        <4>1. FallbackTurn(hist)
          BY <1>25, <3>2 DEF AgentDeadline
        <4> QED
          BY <2>1, <4>1, FallbackTurnType
      <3> QED
        BY <3>1, <3>2
    <2>3. FlagsOK'
      BY <1>25, <2>2, Zenon DEF AgentDeadline, TellWorker, FlagsOK
    <2>4. StatesOK' /\ SinkHasArtifact' /\ DataOK'
      BY <1>25, <2>2 DEF AgentDeadline, StatesOK, DataOK
    <2> QED
      BY <2>3, <2>4
  <1>26. CASE LeaveAwaiting
    <2>1. SaveInterrupted
      BY <1>26 DEF LeaveAwaiting, HangUp
    <2>2. hist' \in Seq(Saved) /\ noted' \in BOOLEAN /\ stored' \subseteq Artifacts
      BY <2>1, SaveInterruptedType
    <2>3. FlagsOK'
      BY <1>26, <2>2, Zenon DEF LeaveAwaiting, Close, HangUp, TellWorker, FlagsOK
    <2>4. StatesOK' /\ SinkHasArtifact' /\ DataOK'
      BY <1>26, <2>2 DEF LeaveAwaiting, Close, HangUp, StatesOK, DataOK
    <2> QED
      BY <2>3, <2>4
  <1>27. CASE CloseOrphan
    <2>1. SaveInterrupted
      BY <1>27 DEF CloseOrphan, HangUp
    <2>2. hist' \in Seq(Saved) /\ noted' \in BOOLEAN /\ stored' \subseteq Artifacts
      BY <2>1, SaveInterruptedType
    <2>3. FlagsOK'
      BY <1>27, <2>2, Zenon DEF CloseOrphan, HangUp, TellWorker, FlagsOK
    <2>4. StatesOK' /\ SinkHasArtifact' /\ DataOK'
      BY <1>27, <2>2 DEF CloseOrphan, HangUp, StatesOK, DataOK
    <2> QED
      BY <2>3, <2>4
  <1>28. CASE UNCHANGED vars
    BY <1>28 DEF FlagsOK, StatesOK, DataOK
  <1> QED
    BY <1>1, <1>2, <1>3, <1>4, <1>5, <1>6, <1>7, <1>8, <1>9, <1>10, <1>11, <1>12,
       <1>13, <1>14, <1>15, <1>16, <1>17, <1>18, <1>19, <1>20, <1>21, <1>22, <1>23,
       <1>24, <1>25, <1>26, <1>27, <1>28
       DEF Next, Worker, AgentResumes, Generator, Leave

\* Every variable keeps its type, with any number of callbacks and artifacts.
THEOREM TypeCorrect == Spec => []TypeOK
  <1>1. TypeInv => TypeOK
    BY DEF TypeInv
  <1> QED
    BY <1>1, TypeInvInit, TypeInvStep, PTL DEF Spec


-----------------------------------------------------------------------------
(* After the client left                                                   *)

\* client_cancelled is set by the step that ends the generator, and a
\* generator that has ended stays so.
LeftMeansGone == left <=> gen = "left"

\* Before the stream starts nobody has left.
LEMMA LeftMeansGoneInit == Init => LeftMeansGone
  BY DEF Init, LeftMeansGone

\* Only the steps that end the generator as left set client_cancelled.
LEMMA LeftMeansGoneStep == LeftMeansGone /\ [Next]_vars => LeftMeansGone'
  <1> SUFFICES ASSUME LeftMeansGone, [Next]_vars PROVE LeftMeansGone'
    OBVIOUS
  <1> USE DEF LeftMeansGone
  <1>1. CASE Worker
    BY <1>1 DEF Worker, WorkerCallback, WorkerPhase, ToolEnds, SinkReturns, WorkerReturns
  <1>2. CASE RunCallback
    BY <1>2 DEF RunCallback
  <1>3. CASE AgentStarts \/ AgentResumes \/ AgentDeadline
    BY <1>3 DEF AgentStarts, AgentResumes, AgentAnswers, AgentRejects, AgentFails, AgentDropped,
                AgentDeadline
  <1>4. CASE EmitPass \/ EmitRaises
    BY <1>4 DEF EmitPass, EmitRaises
  <1>5. CASE Generator
    <2>1. CASE Iterate \/ CreateTasks \/ Join \/ Resume
      BY <2>1 DEF Iterate, CreateTasks, Join, Resume, Close
    <2>2. CASE Take
      BY <2>2, Zenon DEF Take
    <2>3. CASE Drain
      BY <2>3, Zenon DEF Drain
    <2>4. CASE Flush
      BY <2>4 DEF Flush, Close
    <2> QED
      BY <1>5, <2>1, <2>2, <2>3, <2>4 DEF Generator
  <1>6. CASE LeaveAwaiting \/ CloseOrphan
    BY <1>6 DEF LeaveAwaiting, CloseOrphan, HangUp, Close
  <1>7. CASE LeaveAtYield \/ LeaveAtStart \/ NeverIterated \/ ConnectionFinalized
    BY <1>7 DEF LeaveAtYield, LeaveAtStart, NeverIterated, ConnectionFinalized, Close
  <1>8. CASE UNCHANGED vars
    BY <1>8
  <1> QED
    BY <1>1, <1>2, <1>3, <1>4, <1>5, <1>6, <1>7, <1>8 DEF Next, Leave

\* No step changes the session once the client has left: run_agent checks
\* client_cancelled before each of its writes, the generator writes only in
\* the step that sets it.
LEMMA LeftIsSilent ==
    ASSUME LeftMeansGone, [Next]_vars, left
    PROVE  UNCHANGED <<effects, hist, noted>>
  <1> USE DEF LeftMeansGone
  <1>1. CASE Worker
    BY <1>1 DEF Worker, WorkerCallback, WorkerPhase, ToolEnds, SinkReturns, WorkerReturns
  <1>2. CASE RunCallback \/ EmitPass \/ EmitRaises
    BY <1>2 DEF RunCallback, EmitPass, EmitRaises
  <1>3. CASE AgentStarts \/ AgentResumes \/ AgentDeadline
    BY <1>3 DEF AgentStarts, AgentResumes, AgentAnswers, AgentRejects, AgentFails, AgentDropped,
                AgentDeadline, ClientGone
  <1>4. CASE Generator
    BY <1>4 DEF Generator, Iterate, CreateTasks, Take, Join, Drain, Flush, Resume
  <1>5. CASE Leave \/ CloseOrphan \/ ConnectionFinalized
    BY <1>5 DEF Leave, LeaveAwaiting, LeaveAtYield, LeaveAtStart, NeverIterated, CloseOrphan,
                ConnectionFinalized
  <1>6. CASE UNCHANGED vars
    BY <1>6
  <1> QED
    BY <1>1, <1>2, <1>3, <1>4, <1>5, <1>6 DEF Next

\* A request whose client left writes nothing any more, whatever its worker,
\* its deadline and its tasks do afterwards.
THEOREM LeavingSilences == Spec => SilentAfterLeaving
  <1>1. LeftMeansGone /\ [Next]_vars => (left => UNCHANGED <<effects, hist, noted>>)
    BY LeftIsSilent
  <1> QED
    BY <1>1, LeftMeansGoneInit, LeftMeansGoneStep, PTL DEF Spec, SilentAfterLeaving

-----------------------------------------------------------------------------
(* Before the tasks exist                                                  *)

Over == {"ended", "raised"}

\* run_agent is created after the first event was taken.
NoTasksYet == gen \in {"created", "atStart", "abandoned"} => agent = "absent"

\* Before the stream starts there is no run_agent.
LEMMA NoTasksYetInit == Init => NoTasksYet
  BY DEF Init, NoTasksYet

\* Only the generator creates run_agent, past its first event.
LEMMA NoTasksYetStep == NoTasksYet /\ [Next]_vars => NoTasksYet'
  <1> SUFFICES ASSUME NoTasksYet, [Next]_vars PROVE NoTasksYet'
    OBVIOUS
  <1> USE DEF NoTasksYet
  <1>1. CASE UNCHANGED <<agent, gen>>
    BY <1>1
  <1>2. CASE Worker \/ EmitPass \/ EmitRaises
    BY <1>1, <1>2 DEF Worker, WorkerCallback, WorkerPhase, ToolEnds, SinkReturns, WorkerReturns,
                      EmitPass, EmitRaises
  <1>3. CASE RunCallback \/ AgentStarts
    BY <1>3 DEF RunCallback, AgentStarts
  <1>4. CASE AgentResumes \/ AgentDeadline
    <2>1. gen' = gen /\ agent \in {"waiting", "woken"}
      BY <1>4 DEF AgentResumes, AgentAnswers, AgentRejects, AgentFails, AgentDropped, AgentDeadline
    <2> QED
      BY <2>1
  <1>5. CASE Iterate \/ CreateTasks \/ Join \/ Flush \/ Resume
    BY <1>5 DEF Iterate, CreateTasks, Join, Flush, Resume, Close
  <1>6. CASE Take \/ Drain
    <2>1. /\ agent' = agent /\ gen \in {"getting", "draining"}
          /\ gen' \in {gen, "joining", "atYield", "flushing", "drainYield"}
      <3>1. CASE Take
        BY <3>1, Zenon DEF Take
      <3>2. CASE Drain
        BY <3>2, Zenon DEF Drain
      <3> QED
        BY <1>6, <3>1, <3>2
    <2> QED
      BY <2>1
  <1>7. CASE Leave \/ CloseOrphan \/ ConnectionFinalized
    BY <1>7 DEF Leave, LeaveAwaiting, LeaveAtYield, LeaveAtStart, NeverIterated, CloseOrphan,
                ConnectionFinalized, HangUp, Close
  <1> QED
    BY <1>1, <1>2, <1>3, <1>4, <1>5, <1>6, <1>7 DEF Next, Generator

-----------------------------------------------------------------------------
(* One turn                                                                *)

\* Until run_agent is over the history is empty unless the client has left:
\* the two writers of a turn exclude each other.
NoEarlyTurn == agent \notin {"ended", "raised"} /\ ~left => hist = <<>>

TurnInv == LeftMeansGone /\ NoTasksYet /\ NoEarlyTurn /\ OneTurn

\* What k writes leave of a turn is part of one turn.
LEMMA MessagesAreOneTurn ==
    ASSUME NEW k \in WriteCounts, NEW answer \in {"answer", "fallback", "interrupted"}
    PROVE  /\ <<>> \o Messages(k, answer) = Messages(k, answer)
           /\ Messages(k, answer) \in { SubSeq(<<"user", a>>, 1, n) :
                  a \in {"answer", "fallback", "interrupted"}, n \in 0..2 }
  <1>1. Messages(k, answer) \in Seq(Saved)
    BY MessagesType
  <1>2. (IF k < 2 THEN k ELSE 2) \in 0..2
    BY DEF WriteCounts, AllWrites
  <1> QED
    BY <1>1, <1>2 DEF Messages

\* A fallback turn on an empty history is one turn.
LEMMA FallbackIsOneTurn ==
    ASSUME FallbackTurn(<<>>)
    PROVE  OneTurn' /\ agent' \in {"ended", "raised"}
  <1>1. PICK k \in WriteCounts :
            /\ hist' = <<>> \o Messages(k, "fallback")
            /\ IF k = AllWrites THEN EndQueue(<<"final">>, "ended") ELSE EndQueue(<<>>, "raised")
    BY DEF FallbackTurn
  <1>2. OneTurn'
    BY <1>1, MessagesAreOneTurn DEF OneTurn
  <1>3. agent' \in {"ended", "raised"}
    BY <1>1 DEF EndQueue
  <1> QED
    BY <1>2, <1>3

\* The steps of run_agent write at most one turn, unless building the
\* response raises after the answer has been saved.
LEMMA AgentAnswersOnce ==
    ASSUME TurnInv, AgentAnswers, "build" \notin Faults
    PROVE  OneTurn' /\ agent' \in {"ended", "raised"}
  <1>1. hist = <<>>
    BY DEF TurnInv, NoEarlyTurn, AgentAnswers, ClientGone
  <1>2. PICK k \in WriteCounts :
            \/ /\ hist' = hist \o Messages(k, "answer")
               /\ EndQueue(<<IF k = AllWrites THEN "final" ELSE "final_unsaved">>, "ended")
            \/ /\ k = 0
               /\ FallbackTurn(hist \o Messages(k, "answer"))
    BY DEF AgentAnswers
  <1>3. CASE /\ hist' = hist \o Messages(k, "answer")
             /\ EndQueue(<<IF k = AllWrites THEN "final" ELSE "final_unsaved">>, "ended")
    <2>1. OneTurn'
      BY <1>1, <1>3, MessagesAreOneTurn DEF OneTurn
    <2>2. agent' = "ended"
      BY <1>3 DEF EndQueue
    <2> QED
      BY <2>1, <2>2
  <1>4. CASE k = 0 /\ FallbackTurn(hist \o Messages(k, "answer"))
    <2>1. Messages(0, "answer") = <<>>
      BY DEF Messages
    <2>2. hist \o Messages(k, "answer") = <<>>
      BY <1>1, <1>4, <2>1, MessagesAreOneTurn
    <2> QED
      BY <1>4, <2>2, FallbackIsOneTurn
  <1> QED
    BY <1>2, <1>3, <1>4

\* The except clause of the generator writes a turn only to an empty history.
LEMMA HangUpWritesOnce ==
    ASSUME TurnInv, HangUp
    PROVE  OneTurn' /\ left'
  <1>1. left'
    BY DEF HangUp
  <1>2. CASE hist' = hist
    BY <1>1, <1>2 DEF TurnInv, OneTurn
  <1>3. CASE \E k \in WriteCounts : hist' = Messages(k, "interrupted")
    BY <1>1, <1>3, MessagesAreOneTurn DEF OneTurn
  <1> QED
    BY <1>2, <1>3 DEF HangUp, SaveInterrupted

\* A request writes at most one turn, the question before its answer.
THEOREM AtMostOneTurn ==
    ASSUME "build" \notin Faults
    PROVE  Spec => []OneTurn
  <1>1. Init => TurnInv
    <2> SUFFICES ASSUME Init PROVE TurnInv
      OBVIOUS
    <2>1. hist = <<>> /\ SubSeq(<<"user", "answer">>, 1, 0) = <<>>
      BY DEF Init
    <2>2. OneTurn
      BY <2>1 DEF OneTurn
    <2> QED
      BY <2>1, <2>2, LeftMeansGoneInit, NoTasksYetInit DEF TurnInv, NoEarlyTurn
  <1>2. TurnInv /\ [Next]_vars => TurnInv'
    <2> SUFFICES ASSUME TurnInv, [Next]_vars PROVE NoEarlyTurn' /\ OneTurn'
      BY LeftMeansGoneStep, NoTasksYetStep DEF TurnInv
    <2>1. CASE UNCHANGED <<agent, left, hist>>
      BY <2>1 DEF TurnInv, NoEarlyTurn, OneTurn
    <2>2. CASE RunCallback
      BY <2>2 DEF RunCallback, TurnInv, NoEarlyTurn, OneTurn
    <2>3. CASE AgentStarts
      BY <2>3 DEF AgentStarts, TurnInv, NoEarlyTurn, OneTurn
    <2>4. CASE AgentAnswers
      BY <2>4, AgentAnswersOnce DEF NoEarlyTurn
    <2>5. CASE AgentRejects \/ AgentDropped
      BY <2>5 DEF AgentRejects, AgentDropped, EndQueue, TurnInv, NoEarlyTurn, OneTurn
    <2>6. CASE AgentFails
      <3>1. hist = <<>> /\ FallbackTurn(<<>>)
        BY <2>6 DEF AgentFails, ClientGone, TurnInv, NoEarlyTurn
      <3> QED
        BY <3>1, FallbackIsOneTurn DEF NoEarlyTurn
    <2>7. CASE AgentDeadline
      <3>1. CASE ClientGone
        BY <2>7, <3>1 DEF AgentDeadline, EndQueue, TurnInv, NoEarlyTurn, OneTurn
      <3>2. CASE ~ClientGone
        <4>1. hist = <<>> /\ FallbackTurn(<<>>)
          BY <2>7, <3>2 DEF AgentDeadline, ClientGone, TurnInv, NoEarlyTurn
        <4> QED
          BY <4>1, FallbackIsOneTurn DEF NoEarlyTurn
      <3> QED
        BY <3>1, <3>2
    <2>8. CASE CreateTasks
      BY <2>8 DEF CreateTasks, TurnInv, NoTasksYet, NoEarlyTurn, OneTurn
    <2>9. CASE LeaveAwaiting \/ CloseOrphan
      BY <2>9, HangUpWritesOnce DEF LeaveAwaiting, CloseOrphan, NoEarlyTurn
    <2>10. CASE Worker
      BY <2>1, <2>10 DEF Worker, WorkerCallback, WorkerPhase, ToolEnds, SinkReturns, WorkerReturns
    <2>11. CASE EmitPass \/ EmitRaises
      BY <2>1, <2>11 DEF EmitPass, EmitRaises
    <2>12. CASE Iterate \/ Take \/ Join \/ Drain \/ Flush \/ Resume
      BY <2>1, <2>12 DEF Iterate, Take, Join, Drain, Flush, Resume
    <2>13. CASE LeaveAtYield \/ LeaveAtStart \/ NeverIterated \/ ConnectionFinalized
      BY <2>1, <2>13 DEF LeaveAtYield, LeaveAtStart, NeverIterated, ConnectionFinalized
    <2> QED
      BY <2>1, <2>2, <2>3, <2>4, <2>5, <2>6, <2>7, <2>8, <2>9, <2>10, <2>11, <2>12, <2>13
         DEF Next, AgentResumes, Generator, Leave
  <1>3. TurnInv => OneTurn
    BY DEF TurnInv
  <1> QED
    BY <1>1, <1>2, <1>3, PTL DEF Spec

-----------------------------------------------------------------------------
(* A worker nobody waits for                                               *)

\* run_agent starts the worker and is woken by its result.
StartedByAgent == agent \in {"absent", "created"} => worker = "idle"
ResultComesLast == worker # "returned" => \A i \in DOMAIN ready : ready[i] = "callback"
WokenByResult  == agent = "woken" => worker = "returned"

\* run_agent ends with its worker, or has told it to stop.
EndsWithWorker == agent \in Over => worker = "returned" \/ cancel

\* Only run_agent ends the queue, and the generator gets past "done" only after.
DoneIsLast ==
    agent \notin Over =>
        /\ gen \notin {"joining", "draining", "drainYield", "flushing", "finalYield",
                       "completed", "failed"}
        /\ \A i \in DOMAIN queue : queue[i] # "done"

\* The generator tells the worker when the client leaves.
LeavingTells == gen = "left" => cancel

WorkerInv ==
    /\ TypeInv /\ NoTasksYet
    /\ StartedByAgent /\ ResultComesLast /\ WokenByResult /\ EndsWithWorker
    /\ DoneIsLast /\ LeavingTells

\* A step of the worker keeps WorkerInv.
LEMMA WorkerStepKeeps ==
    ASSUME WorkerInv, TypeInv', Worker
    PROVE  StartedByAgent' /\ ResultComesLast' /\ WokenByResult' /\ EndsWithWorker'
  <1> USE DEF WorkerInv, StartedByAgent, ResultComesLast, WokenByResult, EndsWithWorker, Over
  <1>1. ready \in Seq({"callback", "result"})
    BY DEF TypeInv, TypeOK, DataOK
  <1>2. CASE WorkerCallback
    <2>1. ready' = Append(ready, "callback") /\ UNCHANGED <<worker, agent, cancel>>
      BY <1>2 DEF WorkerCallback, Post
    <2> QED
      BY <1>1, <2>1
  <1>3. CASE WorkerPhase
    BY <1>3 DEF WorkerPhase
  <1>4. ASSUME NEW a \in Artifacts, ToolEnds(a)
        PROVE  StartedByAgent' /\ ResultComesLast' /\ WokenByResult' /\ EndsWithWorker'
    BY <1>4 DEF ToolEnds
  <1>5. CASE SinkReturns
    <2>1. /\ ready' = Append(ready, "callback") /\ UNCHANGED <<agent, cancel>>
          /\ worker = "sinking" /\ worker' = "running"
      BY <1>5 DEF SinkReturns, Post
    <2> QED
      BY <1>1, <2>1
  <1>6. ASSUME NEW r \in {"answer", "skill_error", "exception"}, WorkerReturns(r)
        PROVE  StartedByAgent' /\ ResultComesLast' /\ WokenByResult' /\ EndsWithWorker'
    BY <1>6 DEF WorkerReturns
  <1> QED
    BY <1>2, <1>3, <1>4, <1>5, <1>6 DEF Worker

\* The loop runs a callback: only the result of the worker wakes run_agent.
LEMMA RunCallbackKeeps ==
    ASSUME WorkerInv, RunCallback
    PROVE  /\ StartedByAgent' /\ ResultComesLast' /\ WokenByResult' /\ EndsWithWorker'
           /\ DoneIsLast'
  <1> USE DEF WorkerInv, StartedByAgent, ResultComesLast, WokenByResult, EndsWithWorker, Over
  <1>1. /\ ready \in Seq({"callback", "result"}) /\ ready # <<>> /\ ready' = Tail(ready)
        /\ UNCHANGED <<worker, cancel, gen>>
    BY DEF RunCallback, TypeInv, TypeOK, DataOK
  <1>2. queue \in Seq(QueueEvents)
    BY DEF TypeInv, TypeOK, DataOK
  <1>3. ResultComesLast'
    BY <1>1
  <1>4. CASE Head(ready) = "callback"
    <2>1. queue' = Append(queue, "callback") /\ agent' = agent
      BY <1>4 DEF RunCallback
    <2>2. DoneIsLast'
      BY <1>1, <1>2, <2>1 DEF DoneIsLast
    <2> QED
      BY <1>1, <1>3, <2>1, <2>2
  <1>5. CASE Head(ready) # "callback"
    <2>1. worker = "returned"
      BY <1>1, <1>5
    <2>2. queue' = queue /\ agent' = IF agent = "waiting" THEN "woken" ELSE agent
      BY <1>5 DEF RunCallback
    <2>3. DoneIsLast'
      BY <1>1, <2>2 DEF DoneIsLast
    <2> QED
      BY <1>1, <1>3, <2>1, <2>2, <2>3
  <1> QED
    BY <1>4, <1>5

\* A resumption of run_agent ends it.
LEMMA AgentEnds ==
    ASSUME AgentResumes \/ AgentDeadline
    PROVE  /\ agent' \in Over
           /\ agent = "woken" \/ cancel'
           /\ UNCHANGED <<worker, gen, ready>>
           /\ cancel' \in {cancel, TRUE}
  <1> USE DEF Over, FallbackTurn, EndQueue
  <1>1. CASE AgentAnswers
    BY <1>1 DEF AgentAnswers
  <1>2. CASE AgentRejects \/ AgentFails \/ AgentDropped
    BY <1>2 DEF AgentRejects, AgentFails, AgentDropped
  <1>3. CASE AgentDeadline
    BY <1>3 DEF AgentDeadline, TellWorker
  <1> QED
    BY <1>1, <1>2, <1>3 DEF AgentResumes

\* The emitter queues no "done".
LEMMA EmitKeeps ==
    ASSUME WorkerInv, EmitPass \/ EmitRaises
    PROVE  DoneIsLast'
  <1>1. /\ queue \in Seq(QueueEvents) /\ phases \in Nat /\ emitted \in Nat
    BY DEF WorkerInv, TypeInv, TypeOK, StatesOK, DataOK
  <1>2. NewPhases \in Seq(QueueEvents) /\ \A i \in DOMAIN NewPhases : NewPhases[i] # "done"
    BY <1>1, NewPhasesType DEF NewPhases, WorkerInv, TypeInv, TypeOK
  <1> DEFINE graph == IF graphDirty THEN <<"graph">> ELSE <<>>
  <1>3. graph \in Seq(QueueEvents) /\ \A i \in DOMAIN graph : graph[i] # "done"
    <2>1. CASE graphDirty
      BY <2>1
    <2>2. CASE ~graphDirty
      BY <2>2
    <2> QED
      BY <2>1, <2>2
  <1>4. UNCHANGED <<agent, gen>> /\ queue' \in {queue \o NewPhases \o graph, queue \o NewPhases}
    BY DEF EmitPass, EmitRaises
  <1> HIDE DEF graph
  <1>5. CASE \A i \in DOMAIN queue : queue[i] # "done"
    <2> DEFINE half == queue \o NewPhases
    <2>1. half \in Seq(QueueEvents) /\ \A i \in DOMAIN half : half[i] # "done"
      BY <1>1, <1>2, <1>5
    <2> HIDE DEF half
    <2>2. \A i \in DOMAIN (half \o graph) : (half \o graph)[i] # "done"
      BY <1>3, <2>1
    <2>3. \A i \in DOMAIN queue' : queue'[i] # "done"
      BY <1>4, <2>1, <2>2 DEF half
    <2> QED
      BY <1>4, <2>3 DEF DoneIsLast, WorkerInv
  <1>6. CASE ~ \A i \in DOMAIN queue : queue[i] # "done"
    BY <1>4, <1>6 DEF DoneIsLast, WorkerInv
  <1> QED
    BY <1>5, <1>6

\* The generator gets past "done" only when run_agent has queued it.
LEMMA GeneratorKeeps ==
    ASSUME WorkerInv, Generator
    PROVE  DoneIsLast' /\ LeavingTells' /\ StartedByAgent' /\ WokenByResult' /\ EndsWithWorker'
  <1> USE DEF WorkerInv, DoneIsLast, LeavingTells, StartedByAgent, WokenByResult, EndsWithWorker,
              Over
  <1>1. CASE Iterate \/ Join \/ Resume
    BY <1>1 DEF Iterate, Join, Resume, Close
  <1>2. CASE CreateTasks
    BY <1>2 DEF CreateTasks, NoTasksYet
  <1>3. CASE Take
    <2>1. /\ queue \in Seq(QueueEvents) /\ queue # <<>> /\ queue' = Tail(queue)
          /\ gen = "getting" /\ UNCHANGED <<worker, agent, cancel>>
      BY <1>3 DEF Take, TypeInv, TypeOK, DataOK
    <2>2. CASE Head(queue) = "done"
      <3>1. agent \in Over
        BY <2>1, <2>2
      <3>2. gen' = "joining"
        BY <1>3, <2>2 DEF Take, Defers
      <3> QED
        BY <2>1, <3>1, <3>2
    <2>3. CASE Head(queue) # "done"
      <3>1. gen' \in {"getting", "atYield"}
        BY <1>3, <2>1, <2>3, Zenon DEF Take
      <3> QED
        BY <2>1, <3>1
    <2> QED
      BY <2>2, <2>3
  <1>4. CASE Drain
    <2>1. gen = "draining" /\ UNCHANGED <<worker, agent, cancel>>
      BY <1>4 DEF Drain
    <2>2. gen' \in {"draining", "flushing", "drainYield"}
      BY <1>4, Zenon DEF Drain
    <2> QED
      BY <2>1, <2>2
  <1>5. CASE Flush
    BY <1>5 DEF Flush, Close
  <1> QED
    BY <1>1, <1>2, <1>3, <1>4, <1>5 DEF Generator

\* The end of a stream for the client tells the worker.
LEMMA LeaveKeeps ==
    ASSUME WorkerInv, Leave \/ CloseOrphan \/ ConnectionFinalized
    PROVE  /\ DoneIsLast' /\ LeavingTells' /\ StartedByAgent' /\ WokenByResult'
           /\ EndsWithWorker' /\ ResultComesLast'
  <1> USE DEF WorkerInv, DoneIsLast, LeavingTells, StartedByAgent, WokenByResult, EndsWithWorker,
              ResultComesLast, Over
  <1>1. CASE LeaveAwaiting \/ CloseOrphan
    BY <1>1 DEF LeaveAwaiting, CloseOrphan, HangUp, TellWorker, Close
  <1>2. CASE LeaveAtYield \/ LeaveAtStart \/ NeverIterated \/ ConnectionFinalized
    BY <1>2 DEF LeaveAtYield, LeaveAtStart, NeverIterated, ConnectionFinalized, Close
  <1> QED
    BY <1>1, <1>2 DEF Leave

\* Before the stream starts the worker is idle.
LEMMA WorkerInvInit == Init => WorkerInv
  <1> SUFFICES ASSUME Init PROVE WorkerInv
    OBVIOUS
  <1> QED
    BY TypeInvInit, NoTasksYetInit
       DEF Init, WorkerInv, StartedByAgent, ResultComesLast, WokenByResult, EndsWithWorker,
           DoneIsLast, LeavingTells, Over

\* Every step keeps the invariant.
LEMMA WorkerInvStep == WorkerInv /\ [Next]_vars => WorkerInv'
  <1> SUFFICES ASSUME WorkerInv, [Next]_vars PROVE WorkerInv'
    OBVIOUS
  <1>1. TypeInv' /\ NoTasksYet'
    BY TypeInvStep, NoTasksYetStep DEF WorkerInv
  <1> SUFFICES /\ StartedByAgent' /\ ResultComesLast' /\ WokenByResult' /\ EndsWithWorker'
               /\ DoneIsLast' /\ LeavingTells'
    BY <1>1 DEF WorkerInv
  <1>2. CASE Worker
    <2>1. UNCHANGED <<queue, agent, gen, cancel>>
      BY <1>2 DEF Worker, WorkerCallback, WorkerPhase, ToolEnds, SinkReturns, WorkerReturns
    <2> QED
      BY <1>1, <1>2, <2>1, WorkerStepKeeps DEF WorkerInv, DoneIsLast, LeavingTells
  <1>3. CASE RunCallback
    <2>1. UNCHANGED <<gen, cancel>>
      BY <1>3 DEF RunCallback
    <2> QED
      BY <1>3, <2>1, RunCallbackKeeps DEF WorkerInv, LeavingTells
  <1>4. CASE AgentStarts
    BY <1>4 DEF AgentStarts, WorkerInv, StartedByAgent, ResultComesLast, WokenByResult,
                EndsWithWorker, DoneIsLast, LeavingTells, Over
  <1>5. CASE AgentResumes \/ AgentDeadline
    BY <1>5, AgentEnds
       DEF WorkerInv, StartedByAgent, ResultComesLast, WokenByResult, EndsWithWorker,
           DoneIsLast, LeavingTells, Over
  <1>6. CASE EmitPass \/ EmitRaises
    <2>1. UNCHANGED <<worker, ready, agent, gen, cancel>>
      BY <1>6 DEF EmitPass, EmitRaises
    <2> QED
      BY <1>6, <2>1, EmitKeeps
         DEF WorkerInv, StartedByAgent, ResultComesLast, WokenByResult, EndsWithWorker,
             LeavingTells
  <1>7. CASE Generator
    <2>1. UNCHANGED <<worker, ready>>
      BY <1>7 DEF Generator, Iterate, CreateTasks, Take, Join, Drain, Flush, Resume
    <2> QED
      BY <1>7, <2>1, GeneratorKeeps DEF WorkerInv, ResultComesLast
  <1>8. CASE Leave \/ CloseOrphan \/ ConnectionFinalized
    BY <1>8, LeaveKeeps
  <1>9. CASE UNCHANGED vars
    BY <1>9 DEF WorkerInv, StartedByAgent, ResultComesLast, WokenByResult, EndsWithWorker,
                DoneIsLast, LeavingTells
  <1> QED
    BY <1>2, <1>3, <1>4, <1>5, <1>6, <1>7, <1>8, <1>9 DEF Next

\* Once a stream is over, a worker still running has been told to stop.
THEOREM WorkersAreTold == Spec => []WorkerToldToStop
  <1>1. WorkerInv => WorkerToldToStop
    BY DEF WorkerInv, NoTasksYet, StartedByAgent, EndsWithWorker, DoneIsLast, LeavingTells,
           WorkerToldToStop, Over
  <1> QED
    BY <1>1, WorkerInvInit, WorkerInvStep, PTL DEF Spec

-----------------------------------------------------------------------------
(* Counting events                                                         *)

\* How many elements of s are in S.
CountIn(S, s) == Cardinality({ i \in DOMAIN s : s[i] \in S })

\* A count is a number, and zero exactly when the sequence avoids the set.
LEMMA CountIsNat ==
    ASSUME NEW A, NEW s \in Seq(A), NEW S
    PROVE  /\ IsFiniteSet({ i \in DOMAIN s : s[i] \in S })
           /\ CountIn(S, s) \in Nat
           /\ CountIn(S, s) = 0 <=> \A i \in DOMAIN s : s[i] \notin S
  <1> DEFINE I == { i \in DOMAIN s : s[i] \in S }
  <1>1. IsFiniteSet(1..Len(s))
    BY FS_Interval
  <1>2. I \in SUBSET (1..Len(s))
    OBVIOUS
  <1>3. IsFiniteSet(I)
    BY <1>1, <1>2, FS_Subset
  <1>4. Cardinality(I) \in Nat /\ (Cardinality(I) = 0 <=> I = {})
    BY <1>3, FS_CardinalityType, FS_EmptySet
  <1> QED
    BY <1>3, <1>4 DEF CountIn

\* Counts add up over a concatenation.
LEMMA CountConcat ==
    ASSUME NEW A, NEW s \in Seq(A), NEW t \in Seq(A), NEW S
    PROVE  CountIn(S, s \o t) = CountIn(S, s) + CountIn(S, t)
  <1> DEFINE I    == { i \in DOMAIN s : s[i] \in S }
             J    == { j \in DOMAIN t : t[j] \in S }
             K    == { i \in DOMAIN (s \o t) : (s \o t)[i] \in S }
             f    == [j \in J |-> Len(s) + j]
             L    == { Len(s) + j : j \in J }
  <1>1. /\ IsFiniteSet(I) /\ IsFiniteSet(J)
        /\ Cardinality(I) \in Nat /\ Cardinality(J) \in Nat
    BY CountIsNat DEF CountIn
  <1>2. K = I \union L
    <2>1. K \subseteq I \union L
      <3> SUFFICES ASSUME NEW i \in K, i \notin I PROVE i \in L
        OBVIOUS
      <3>1. i \in 1..(Len(s) + Len(t)) /\ i > Len(s)
        OBVIOUS
      <3>2. i - Len(s) \in DOMAIN t /\ t[i - Len(s)] = (s \o t)[i] /\ i = Len(s) + (i - Len(s))
        BY <3>1
      <3> QED
        BY <3>2
    <2>2. I \subseteq K
      OBVIOUS
    <2>3. L \subseteq K
      <3> SUFFICES ASSUME NEW j \in J PROVE Len(s) + j \in K
        OBVIOUS
      <3>1. j \in 1..Len(t) /\ t[j] \in S
        OBVIOUS
      <3>2. Len(s) + j \in 1..(Len(s) + Len(t)) /\ (s \o t)[Len(s) + j] = t[j]
        BY <3>1
      <3> QED
        BY <3>1, <3>2
    <2> QED
      BY <2>1, <2>2, <2>3
  <1>3. I \intersect L = {}
    OBVIOUS
  <1>4. IsFiniteSet(L) /\ Cardinality(L) = Cardinality(J)
    <2>1. f \in [J -> L] /\ (\A a, b \in J : f[a] = f[b] => a = b) /\ (\A l \in L : \E j \in J : f[j] = l)
      OBVIOUS
    <2> HIDE DEF f, J, L
    <2>2. f \in Bijection(J, L)
      BY <2>1 DEF Bijection, Injection, Surjection, IsInjective
    <2>3. ExistsBijection(J, L)
      BY <2>2 DEF ExistsBijection
    <2> QED
      BY <1>1, <2>3, FS_Bijection
  <1>5. Cardinality(I \union L) = Cardinality(I) + Cardinality(L) - Cardinality({})
    BY <1>1, <1>3, <1>4, FS_Union
  <1>6. Cardinality({}) = 0
    BY FS_EmptySet
  <1> HIDE DEF I, J, K, L
  <1>7. Cardinality(K) = Cardinality(I) + Cardinality(J)
    BY <1>1, <1>2, <1>4, <1>5, <1>6
  <1> QED
    BY <1>7 DEF CountIn, I, J, K

\* Counts of short sequences.
LEMMA CountOne ==
    \A S : /\ CountIn(S, <<>>) = 0
           /\ \A x : CountIn(S, <<x>>) = IF x \in S THEN 1 ELSE 0
  <1> TAKE S
  <1>1. CountIn(S, <<>>) = 0
    <2>1. { i \in DOMAIN <<>> : <<>>[i] \in S } = {}
      OBVIOUS
    <2> QED
      BY <2>1, FS_EmptySet DEF CountIn
  <1>2. ASSUME NEW x PROVE CountIn(S, <<x>>) = IF x \in S THEN 1 ELSE 0
    <2>1. { i \in DOMAIN <<x>> : <<x>>[i] \in S } = IF x \in S THEN {1} ELSE {}
      OBVIOUS
    <2> QED
      BY <2>1, FS_EmptySet, FS_Singleton DEF CountIn
  <1> QED
    BY <1>1, <1>2

\* A count when an element is appended.
LEMMA CountAppend ==
    ASSUME NEW A, NEW s \in Seq(A), NEW x \in A, NEW S
    PROVE  CountIn(S, Append(s, x)) = CountIn(S, s) + (IF x \in S THEN 1 ELSE 0)
  <1>1. Append(s, x) = s \o <<x>> /\ <<x>> \in Seq(A)
    OBVIOUS
  <1>2. CountIn(S, s \o <<x>>) = CountIn(S, s) + CountIn(S, <<x>>)
    BY <1>1, CountConcat
  <1> QED
    BY <1>1, <1>2, CountOne

\* A count when the first element is taken.
LEMMA CountTail ==
    ASSUME NEW A, NEW s \in Seq(A), s # <<>>, NEW S
    PROVE  /\ CountIn(S, s) = CountIn(S, Tail(s)) + (IF Head(s) \in S THEN 1 ELSE 0)
           /\ CountIn(S, Tail(s)) \in Nat
  <1>1. s = <<Head(s)>> \o Tail(s) /\ <<Head(s)>> \in Seq(A) /\ Tail(s) \in Seq(A)
    OBVIOUS
  <1>2. CountIn(S, s) = CountIn(S, <<Head(s)>>) + CountIn(S, Tail(s))
    BY <1>1, CountConcat
  <1>3. CountIn(S, Tail(s)) \in Nat
    BY <1>1, CountIsNat
  <1> QED
    BY <1>2, <1>3, CountOne

\* The phases one pass of the emitter queues.
LEMMA NewPhasesCount ==
    ASSUME emitted \in Nat, phases \in Nat, emitted <= phases, NEW S
    PROVE  CountIn(S, NewPhases) = IF "phase" \in S THEN phases - emitted ELSE 0
  <1> DEFINE n == phases - emitted
  <1>1. n \in Nat /\ DOMAIN NewPhases = 1..n /\ \A i \in 1..n : NewPhases[i] = "phase"
    BY DEF NewPhases
  <1>2. { i \in DOMAIN NewPhases : NewPhases[i] \in S } = IF "phase" \in S THEN 1..n ELSE {}
    BY <1>1
  <1>3. Cardinality(1..n) = n
    BY <1>1, FS_Interval
  <1> QED
    BY <1>2, <1>3, FS_EmptySet DEF CountIn

-----------------------------------------------------------------------------
(* Steps of the queue                                                      *)

\* The generator takes the head of the queue: the end, a final event it puts
\* aside, or an event it sends.
LEMMA TakesTheHead ==
    ASSUME TypeOK, Take \/ (Drain /\ queue # <<>>)
    PROVE  /\ queue # <<>> /\ queue' = Tail(queue)
           /\ \/ /\ Head(queue) = "done" /\ UNCHANGED <<deferred, sent>>
                 /\ gen' = IF gen = "getting" THEN "joining" ELSE gen
              \/ /\ Head(queue) \in Finals /\ UNCHANGED <<gen, sent>>
                 /\ deferred' = Append(deferred, Head(queue))
              \/ /\ Head(queue) \in {"callback", "phase", "graph", "error"}
                 /\ UNCHANGED deferred
                 /\ sent' = Append(sent, Head(queue))
                 /\ gen' = IF gen = "getting" THEN "atYield" ELSE "drainYield"
           /\ gen = IF Take THEN "getting" ELSE "draining"
           /\ UNCHANGED <<taskVars, emitter, lease, left>>
  <1>1. queue # <<>> /\ queue' = Tail(queue) /\ UNCHANGED <<taskVars, emitter, lease, left>>
    BY DEF Take, Drain
  <1>2. Head(queue) \in QueueEvents
    BY <1>1 DEF TypeOK, DataOK
  <1>3. CASE Take
    <2>1. gen = "getting"
      BY <1>3 DEF Take
    <2>2. CASE Head(queue) = "done"
      BY <1>1, <1>3, <2>1, <2>2 DEF Take, Defers
    <2>3. CASE Head(queue) \in Finals
      BY <1>1, <1>3, <2>1, <2>3 DEF Take, Defers
    <2>4. CASE Head(queue) \in {"callback", "phase", "graph", "error"}
      BY <1>1, <1>3, <2>1, <2>4 DEF Take, Defers
    <2> QED
      BY <1>2, <2>2, <2>3, <2>4
  <1>4. CASE ~Take /\ Drain
    <2>1. gen = "draining"
      BY <1>4 DEF Drain
    <2>2. CASE Head(queue) = "done"
      BY <1>1, <1>4, <2>1, <2>2 DEF Drain, Defers
    <2>3. CASE Head(queue) \in Finals
      BY <1>1, <1>4, <2>1, <2>3 DEF Drain, Defers
    <2>4. CASE Head(queue) \in {"callback", "phase", "graph", "error"}
      BY <1>1, <1>4, <2>1, <2>4 DEF Drain, Defers
    <2> QED
      BY <1>2, <2>2, <2>3, <2>4
  <1> QED
    BY <1>3, <1>4

\* run_agent ends the queue with one terminal event, or with none when the
\* client has gone or a write of the fallback raised.
LEMMA AgentQueues ==
    ASSUME AgentResumes \/ AgentDeadline
    PROVE  /\ \/ /\ agent' = "ended"
                 /\ \E e \in Finals \union {"error"} : queue' = queue \o <<e>> \o <<"done">>
              \/ /\ agent' = "raised" \/ left
                 /\ agent' \in Over
                 /\ queue' = queue \o <<>> \o <<"done">>
           /\ agent \in {"waiting", "woken"} /\ ended'
           /\ UNCHANGED <<workerVars, ready, graphDirty, emitter, emitted, genVars>>
  <1> USE DEF Over, EndQueue, ClientGone
  <1>1. ASSUME NEW before, FallbackTurn(before)
        PROVE  /\ \/ agent' = "ended" /\ queue' = queue \o <<"final">> \o <<"done">>
                  \/ agent' = "raised" /\ queue' = queue \o <<>> \o <<"done">>
               /\ ended'
    BY <1>1 DEF FallbackTurn
  <1>2. CASE AgentAnswers
    <2>1. UNCHANGED <<workerVars, ready, graphDirty, emitter, emitted, genVars>>
      BY <1>2 DEF AgentAnswers
    <2>2. PICK k \in WriteCounts :
            \/ EndQueue(<<IF k = AllWrites THEN "final" ELSE "final_unsaved">>, "ended")
            \/ FallbackTurn(hist \o Messages(k, "answer"))
      BY <1>2 DEF AgentAnswers
    <2>3. CASE EndQueue(<<IF k = AllWrites THEN "final" ELSE "final_unsaved">>, "ended")
      BY <1>2, <2>1, <2>3 DEF AgentAnswers
    <2>4. CASE FallbackTurn(hist \o Messages(k, "answer"))
      BY <1>1, <1>2, <2>1, <2>4 DEF AgentAnswers
    <2> QED
      BY <2>2, <2>3, <2>4
  <1>3. CASE AgentRejects \/ AgentDropped
    BY <1>3 DEF AgentRejects, AgentDropped
  <1>4. CASE AgentFails
    <2>1. UNCHANGED <<workerVars, ready, graphDirty, emitter, emitted, genVars>> /\ FallbackTurn(hist)
      BY <1>4 DEF AgentFails
    <2> QED
      BY <1>1, <1>4, <2>1 DEF AgentFails
  <1>5. CASE AgentDeadline
    <2>1. UNCHANGED <<workerVars, ready, graphDirty, emitter, emitted, genVars>>
      BY <1>5 DEF AgentDeadline
    <2>2. CASE ClientGone
      BY <1>5, <2>1, <2>2 DEF AgentDeadline
    <2>3. CASE ~ClientGone
      <3>1. FallbackTurn(hist)
        BY <1>5, <2>3 DEF AgentDeadline
      <3> QED
        BY <1>1, <1>5, <2>1, <3>1 DEF AgentDeadline
    <2> QED
      BY <2>2, <2>3
  <1> QED
    BY <1>2, <1>3, <1>4, <1>5 DEF AgentResumes

\* A pass of the emitter queues phases and a snapshot of the graph.
LEMMA EmitQueues ==
    ASSUME EmitPass \/ EmitRaises
    PROVE  /\ queue' \in {queue \o NewPhases \o <<"graph">>, queue \o NewPhases \o <<>>,
                          queue \o NewPhases}
           /\ emitter = "polling" /\ emitted' = phases /\ ~graphDirty'
           /\ emitter' \in {"polling", "raised", "ended"}
           /\ emitter' = "ended" => ended
           /\ UNCHANGED <<workerVars, ready, agent, ended, genVars, cancel, sessionVars>>
  BY DEF EmitPass, EmitRaises

\* The steps that touch neither the queue nor what was put aside or sent.
QueueIdle == Worker \/ AgentStarts \/ CreateTasks \/ Join \/ Resume \/ Leave \/ CloseOrphan
                \/ ConnectionFinalized \/ UNCHANGED vars

\* They leave queue and events alone, and end no run_agent.
LEMMA QueueIdleKeeps ==
    ASSUME QueueIdle
    PROVE  /\ UNCHANGED <<queue, deferred, sent>>
           /\ agent' = agent \/ (agent \in {"absent", "created"} /\ agent' \in {"created", "waiting"})
              \/ CreateTasks
           /\ gen' # gen => gen' \in {"getting", "draining", "failed", "left", "orphaned",
                                       "abandoned"} \/ (gen = "finalYield" /\ gen' = "flushing")
           /\ left => left'
  <1>1. CASE Worker
    <2>1. UNCHANGED <<queue, agent, genVars>>
      BY <1>1 DEF Worker, WorkerCallback, WorkerPhase, ToolEnds, SinkReturns, WorkerReturns
    <2> QED
      BY <2>1
  <1>2. CASE AgentStarts \/ CreateTasks \/ UNCHANGED vars
    BY <1>2 DEF AgentStarts, CreateTasks
  <1>3. CASE Join \/ Resume \/ ConnectionFinalized
    BY <1>3 DEF Join, Resume, ConnectionFinalized, Close
  <1>4. CASE Leave \/ CloseOrphan
    BY <1>4 DEF Leave, LeaveAwaiting, LeaveAtYield, LeaveAtStart, NeverIterated, CloseOrphan,
                HangUp, Close
  <1> QED
    BY <1>1, <1>2, <1>3, <1>4 DEF QueueIdle

-----------------------------------------------------------------------------
(* One ending                                                              *)

Terminals == Finals \union {"error"}

\* The terminal events of the stream that are queued, put aside or sent.
Pending == CountIn(Terminals, queue) + Len(deferred) + CountIn(Terminals, sent)

\* run_agent ends the queue with one terminal event, which goes through the
\* queue and the deferred events to the client and is never joined by another;
\* a final event is sent when nothing else is left to send.
EndingInv ==
    /\ agent \notin Over => Pending = 0
    /\ Pending <= 1
    /\ agent = "ended" /\ ~left => Pending = 1
    /\ gen \in {"flushing", "finalYield", "completed"} => CountIn(Terminals, queue) = 0
    /\ CountIn(Finals, sent) # 0 =>
         gen \in {"flushing", "finalYield", "orphaned"} \union Closed
    /\ FinalIsLast
    /\ gen = "completed" => agent = "ended" /\ deferred = <<>>

\* What the invariant says while the generator is still draining the queue.
LEMMA CountTypes ==
    ASSUME TypeOK
    PROVE  /\ queue \in Seq(QueueEvents) /\ sent \in Seq(Events \union {"start"})
           /\ deferred \in Seq(Finals) /\ Len(deferred) \in Nat
           /\ \A S : CountIn(S, queue) \in Nat /\ CountIn(S, sent) \in Nat
           /\ CountIn(Finals, sent) = 0 => \A i \in DOMAIN sent : sent[i] \notin Finals
           /\ CountIn(Terminals, sent) = 0 => CountIn(Finals, sent) = 0
  <1>1. /\ queue \in Seq(QueueEvents) /\ sent \in Seq(Events \union {"start"})
        /\ deferred \in Seq(Finals) /\ Len(deferred) \in Nat
    BY DEF TypeOK, DataOK
  <1>2. \A S : CountIn(S, queue) \in Nat /\ CountIn(S, sent) \in Nat
    BY <1>1, CountIsNat
  <1>3. CountIn(Finals, sent) = 0 <=> \A i \in DOMAIN sent : sent[i] \notin Finals
    BY <1>1, CountIsNat
  <1>4. CountIn(Terminals, sent) = 0 <=> \A i \in DOMAIN sent : sent[i] \notin Terminals
    BY <1>1, CountIsNat
  <1> QED
    BY <1>1, <1>2, <1>3, <1>4 DEF Terminals

\* Before the stream starts nothing is queued.
LEMMA EndingInit == Init => EndingInv
  <1> SUFFICES ASSUME Init PROVE EndingInv
    OBVIOUS
  <1>1. /\ queue = <<>> /\ deferred = <<>> /\ sent = <<>> /\ agent = "absent" /\ gen = "created"
    BY DEF Init
  <1>2. Pending = 0 /\ CountIn(Finals, sent) = 0
    BY <1>1, CountOne DEF Pending
  <1> QED
    BY <1>1, <1>2 DEF EndingInv, FinalIsLast, Over

\* What the loop and the emitter queue is no terminal event.
LEMMA ProgressKeepsEnding ==
    ASSUME WorkerInv, EndingInv, emitted <= phases, RunCallback \/ EmitPass \/ EmitRaises
    PROVE  EndingInv'
  <1>1. TypeOK /\ phases \in Nat /\ emitted \in Nat
    BY DEF WorkerInv, TypeInv, TypeOK, StatesOK
  <1>2. CountIn(Terminals, queue') = CountIn(Terminals, queue)
    <2>1. CASE RunCallback
      <3>1. queue' \in {queue, Append(queue, "callback")}
        BY <2>1 DEF RunCallback
      <3>2. CountIn(Terminals, Append(queue, "callback")) = CountIn(Terminals, queue) + 0
        <4>1. queue \in Seq(QueueEvents) /\ "callback" \in QueueEvents
          BY <1>1, CountTypes
        <4>2. CountIn(Terminals, Append(queue, "callback"))
                = CountIn(Terminals, queue) + (IF "callback" \in Terminals THEN 1 ELSE 0)
          BY <4>1, CountAppend
        <4> QED
          BY <4>2 DEF Terminals
      <3>3. CountIn(Terminals, queue) \in Nat
        BY <1>1, CountTypes
      <3>4. CASE queue' = queue
        BY <3>4
      <3>5. CASE queue' = Append(queue, "callback")
        <4>1. CountIn(Terminals, queue') = CountIn(Terminals, queue) + 0
          BY <3>2, <3>5
        <4> QED
          BY <3>3, <4>1
      <3> QED
        BY <3>1, <3>4, <3>5
    <2>2. CASE EmitPass \/ EmitRaises
      <3> DEFINE half == queue \o NewPhases
      <3>1. queue' \in {half \o <<"graph">>, half \o <<>>, half}
        BY <2>2, EmitQueues
      <3>2. NewPhases \in Seq(QueueEvents) /\ CountIn(Terminals, NewPhases) = 0
        BY <1>1, NewPhasesType, NewPhasesCount DEF Terminals, TypeOK
      <3>3. half \in Seq(QueueEvents) /\ CountIn(Terminals, half) = CountIn(Terminals, queue) + 0
        BY <1>1, <3>2, CountTypes, CountConcat
      <3>4. CountIn(Terminals, queue) \in Nat
        BY <1>1, CountTypes
      <3>5. CountIn(Terminals, <<"graph">>) = 0 /\ CountIn(Terminals, <<>>) = 0
        BY CountOne DEF Terminals
      <3>6. <<"graph">> \in Seq(QueueEvents) /\ <<>> \in Seq(QueueEvents)
        OBVIOUS
      <3> HIDE DEF half
      <3>7. /\ CountIn(Terminals, half \o <<"graph">>) = CountIn(Terminals, half) + 0
            /\ CountIn(Terminals, half \o <<>>) = CountIn(Terminals, half) + 0
        <4>1. CountIn(Terminals, half \o <<"graph">>)
                = CountIn(Terminals, half) + CountIn(Terminals, <<"graph">>)
          BY <3>3, <3>6, CountConcat
        <4>2. CountIn(Terminals, half \o <<>>)
                = CountIn(Terminals, half) + CountIn(Terminals, <<>>)
          BY <3>3, <3>6, CountConcat
        <4> QED
          BY <3>5, <4>1, <4>2
      <3>8. /\ CountIn(Terminals, half \o <<"graph">>) = CountIn(Terminals, queue)
            /\ CountIn(Terminals, half \o <<>>) = CountIn(Terminals, queue)
            /\ CountIn(Terminals, half) = CountIn(Terminals, queue)
        BY <3>3, <3>4, <3>7
      <3> QED
        BY <3>1, <3>8, Zenon
    <2> QED
      BY <2>1, <2>2
  <1>3. UNCHANGED <<gen, deferred, sent, left>>
    BY DEF RunCallback, EmitPass, EmitRaises
  <1>4. agent' = agent \/ (agent \notin Over /\ agent' \notin Over)
    BY DEF RunCallback, EmitPass, EmitRaises, Over
  <1>5. Pending' = Pending /\ FinalIsLast' = FinalIsLast
    BY <1>2, <1>3 DEF Pending, FinalIsLast
  <1>6. CountIn(Finals, sent)' = CountIn(Finals, sent)
    BY <1>3
  <1> QED
    BY <1>2, <1>3, <1>4, <1>5, <1>6 DEF EndingInv, Over

\* run_agent adds the terminal event when there was none.
LEMMA AgentKeepsEnding ==
    ASSUME WorkerInv, EndingInv, AgentResumes \/ AgentDeadline
    PROVE  EndingInv'
  <1>1. TypeOK
    BY DEF WorkerInv, TypeInv
  <1>2. /\ agent \notin Over /\ UNCHANGED <<gen, deferred, sent, left>>
    BY AgentQueues DEF Over
  <1>3. gen \notin {"flushing", "finalYield", "completed"}
    BY <1>2 DEF WorkerInv, DoneIsLast
  <1>4. Pending = 0
    BY <1>2 DEF EndingInv
  <1>5. <<"done">> \in Seq(QueueEvents) /\ CountIn(Terminals, <<"done">>) = 0
    BY CountOne DEF Terminals
  <1>6. ASSUME NEW events \in Seq(QueueEvents), queue' = queue \o events \o <<"done">>
        PROVE  CountIn(Terminals, queue') = CountIn(Terminals, queue) + CountIn(Terminals, events)
    <2> DEFINE half == queue \o events
    <2>1. /\ half \in Seq(QueueEvents)
          /\ CountIn(Terminals, half) = CountIn(Terminals, queue) + CountIn(Terminals, events)
      BY <1>1, CountTypes, CountConcat
    <2>2. CountIn(Terminals, half) \in Nat
      BY <2>1, CountIsNat
    <2> HIDE DEF half
    <2>3. CountIn(Terminals, half \o <<"done">>) = CountIn(Terminals, half) + 0
      BY <1>5, <2>1, CountConcat
    <2> QED
      BY <1>6, <2>1, <2>2, <2>3 DEF half
  <1>7. CASE /\ agent' = "ended"
             /\ \E e \in Finals \union {"error"} : queue' = queue \o <<e>> \o <<"done">>
    <2>1. PICK e \in Terminals : queue' = queue \o <<e>> \o <<"done">>
      BY <1>7 DEF Terminals
    <2>2. <<e>> \in Seq(QueueEvents) /\ CountIn(Terminals, <<e>>) = 1
      BY CountOne DEF Terminals
    <2>3. CountIn(Terminals, queue') = CountIn(Terminals, queue) + 1
      BY <1>6, <2>1, <2>2
    <2>4. Pending' = 1
      BY <1>1, <1>2, <1>4, <2>3, CountTypes DEF Pending
    <2> QED
      BY <1>2, <1>3, <1>7, <2>4 DEF EndingInv, FinalIsLast, Over
  <1>8. CASE /\ agent' = "raised" \/ left
             /\ agent' \in Over
             /\ queue' = queue \o <<>> \o <<"done">>
    <2>1. <<>> \in Seq(QueueEvents) /\ CountIn(Terminals, <<>>) = 0
      BY CountOne
    <2>2. CountIn(Terminals, queue') = CountIn(Terminals, queue) + 0
      BY <1>6, <1>8, <2>1
    <2>3. Pending' = 0
      BY <1>1, <1>2, <1>4, <2>2, CountTypes DEF Pending
    <2> QED
      BY <1>2, <1>3, <1>8, <2>3 DEF EndingInv, FinalIsLast, Over
  <1> QED
    BY <1>7, <1>8, AgentQueues

\* The generator moves the terminal event on.
LEMMA TakeKeepsEnding ==
    ASSUME WorkerInv, EndingInv, Take \/ (Drain /\ queue # <<>>)
    PROVE  EndingInv'
  <1>1. TypeOK
    BY DEF WorkerInv, TypeInv
  <1> DEFINE x == Head(queue)
  <1>2. /\ queue # <<>> /\ queue' = Tail(queue) /\ gen \in {"getting", "draining"}
        /\ UNCHANGED <<agent, left>>
    BY <1>1, TakesTheHead
  <1>3. /\ CountIn(Terminals, queue) = CountIn(Terminals, queue') + (IF x \in Terminals THEN 1 ELSE 0)
        /\ CountIn(Terminals, queue') \in Nat
    <2>1. queue \in Seq(QueueEvents) /\ Tail(queue) \in Seq(QueueEvents)
      BY <1>1, <1>2, CountTypes
    <2> QED
      BY <1>2, <2>1, CountTail
  <1>4. CountIn(Finals, sent) = 0 /\ \A i \in DOMAIN sent : sent[i] \notin Finals
    BY <1>1, <1>2, CountTypes DEF EndingInv
  <1>5. gen' \in {"getting", "draining", "joining", "atYield", "drainYield"}
    BY <1>1, <1>2, TakesTheHead
  <1>6. CASE x = "done" /\ UNCHANGED <<deferred, sent>>
    <2>1. Pending' = Pending
      BY <1>1, <1>3, <1>6, CountTypes DEF Pending, Terminals
    <2> QED
      BY <1>2, <1>4, <1>5, <1>6, <2>1 DEF EndingInv, FinalIsLast
  <1>7. CASE x \in Finals /\ sent' = sent /\ deferred' = Append(deferred, x)
    <2>1. Len(deferred') = Len(deferred) + 1
      BY <1>1, <1>7, CountTypes
    <2>2. Pending' = Pending
      BY <1>1, <1>3, <1>7, <2>1, CountTypes DEF Pending, Terminals
    <2> QED
      BY <1>2, <1>4, <1>5, <1>7, <2>2 DEF EndingInv, FinalIsLast
  <1>8. CASE /\ x \in {"callback", "phase", "graph", "error"} /\ deferred' = deferred
             /\ sent' = Append(sent, x)
    <2>1. /\ CountIn(Terminals, sent') = CountIn(Terminals, sent) + (IF x \in Terminals THEN 1 ELSE 0)
          /\ CountIn(Finals, sent') = CountIn(Finals, sent) + (IF x \in Finals THEN 1 ELSE 0)
      BY <1>1, <1>8, CountTypes, CountAppend
    <2>2. Pending' = Pending
      BY <1>1, <1>3, <1>8, <2>1, CountTypes DEF Pending
    <2>3. CountIn(Finals, sent') = 0
      BY <1>4, <1>8, <2>1
    <2>4. \A i \in DOMAIN sent' : sent'[i] \notin Finals
      BY <1>1, <1>4, <1>8, CountTypes
    <2> QED
      BY <1>2, <1>5, <2>2, <2>3, <2>4 DEF EndingInv, FinalIsLast
  <1> QED
    BY <1>1, <1>6, <1>7, <1>8, TakesTheHead

\* The deferred final event is sent when no terminal event has been, or the
\* generator ends.
LEMMA FlushKeepsEnding ==
    ASSUME WorkerInv, EndingInv, LeftMeansGone, Flush
    PROVE  EndingInv'
  <1>1. TypeOK
    BY DEF WorkerInv, TypeInv
  <1>2. gen = "flushing" /\ UNCHANGED <<queue, agent, left>> /\ agent \in Over /\ ~left
    BY DEF Flush, WorkerInv, DoneIsLast, LeftMeansGone
  <1>3. CASE deferred # <<>>
    <2>1. /\ gen' = "finalYield" /\ sent' = Append(sent, Head(deferred))
          /\ deferred' = Tail(deferred)
      BY <1>3 DEF Flush
    <2>2. Len(deferred) = 1 /\ CountIn(Terminals, sent) = 0 /\ Head(deferred) \in Finals
      <3>1. /\ Len(deferred) \in Nat /\ Len(deferred) # 0 /\ Head(deferred) \in Finals
            /\ CountIn(Terminals, queue) \in Nat /\ CountIn(Terminals, sent) \in Nat
        BY <1>1, <1>3, CountTypes
      <3> QED
        <4>1. Pending <= 1
          BY DEF EndingInv
        <4>2. \A a, b, c \in Nat : b # 0 /\ a + b + c <= 1 => b = 1 /\ c = 0
          OBVIOUS
        <4>3. Len(deferred) = 1 /\ CountIn(Terminals, sent) = 0
          BY <3>1, <4>1, <4>2, Zenon DEF Pending
        <4> QED
          BY <3>1, <4>3
    <2>3. Len(deferred') = 0
      BY <1>1, <1>3, <2>1, <2>2, CountTypes
    <2>4. CountIn(Terminals, sent') = CountIn(Terminals, sent) + 1
      <3>1. sent \in Seq(Events \union {"start"}) /\ Head(deferred) \in Events \union {"start"}
        BY <1>1, <2>2, CountTypes
      <3>2. CountIn(Terminals, sent')
              = CountIn(Terminals, sent) + (IF Head(deferred) \in Terminals THEN 1 ELSE 0)
        BY <2>1, <3>1, CountAppend
      <3> QED
        BY <2>2, <3>2 DEF Terminals
    <2>5. Pending' = Pending
      BY <1>1, <1>2, <2>2, <2>3, <2>4, CountTypes DEF Pending
    <2>6. FinalIsLast'
      <3>1. \A i \in DOMAIN sent : sent[i] \notin Finals
        BY <1>1, <2>2, CountTypes
      <3> QED
        BY <1>1, <2>1, <3>1, CountTypes DEF FinalIsLast
    <2> QED
      BY <1>2, <2>1, <2>5, <2>6 DEF EndingInv
  <1>4. CASE deferred = <<>>
    <2>1. UNCHANGED <<sent, deferred>>
          /\ gen' = IF agent = "raised" THEN "failed" ELSE "completed"
      BY <1>4 DEF Flush, Close
    <2>2. agent = "raised" \/ agent = "ended"
      BY <1>2 DEF Over
    <2> QED
      BY <1>2, <1>4, <2>1, <2>2 DEF EndingInv, Pending, FinalIsLast
  <1> QED
    BY <1>3, <1>4

\* Every step keeps the invariant.
LEMMA EndingStep ==
    WorkerInv /\ LeftMeansGone /\ emitted <= phases /\ EndingInv /\ [Next]_vars => EndingInv'
  <1> SUFFICES ASSUME WorkerInv, LeftMeansGone, emitted <= phases, EndingInv, [Next]_vars
               PROVE  EndingInv'
    OBVIOUS
  <1>1. CASE RunCallback \/ EmitPass \/ EmitRaises
    BY <1>1, ProgressKeepsEnding
  <1>2. CASE AgentResumes \/ AgentDeadline
    BY <1>2, AgentKeepsEnding
  <1>3. CASE Take \/ (Drain /\ queue # <<>>)
    BY <1>3, TakeKeepsEnding
  <1>4. CASE Flush
    BY <1>4, FlushKeepsEnding
  <1>5. CASE Drain /\ queue = <<>>
    <2>1. gen = "draining" /\ gen' = "flushing" /\ UNCHANGED <<queue, deferred, sent, agent, left>>
      BY <1>5 DEF Drain
    <2>2. CountIn(Terminals, queue) = 0
      BY <1>5, CountOne
    <2> QED
      BY <2>1, <2>2 DEF EndingInv, Pending, FinalIsLast
  <1>6. CASE Iterate
    <2>1. gen' = "atStart" /\ sent' = <<"start">> /\ UNCHANGED <<queue, deferred, agent, left>>
          /\ gen = "created"
      BY <1>6 DEF Iterate
    <2>2. agent = "absent" /\ Pending = 0
      BY <2>1 DEF WorkerInv, NoTasksYet, EndingInv, Over
    <2>3. TypeOK
      BY DEF WorkerInv, TypeInv
    <2>4. CountIn(Terminals, sent') = 0 /\ CountIn(Finals, sent') = 0
      BY <2>1, CountOne DEF Terminals
    <2>5. Pending' = 0
      BY <2>1, <2>2, <2>3, <2>4, CountTypes DEF Pending
    <2>6. FinalIsLast'
      BY <2>1 DEF FinalIsLast
    <2> QED
      BY <2>1, <2>2, <2>4, <2>5, <2>6 DEF EndingInv, Over
  <1>7. CASE QueueIdle
    <2>1. UNCHANGED <<queue, deferred, sent>> /\ (left => left')
      BY <1>7, QueueIdleKeeps
    <2>2. agent' = agent \/ (agent \notin Over /\ agent' \notin Over)
      <3>1. CASE CreateTasks
        BY <3>1 DEF CreateTasks, WorkerInv, NoTasksYet, Over
      <3> QED
        BY <1>7, <3>1, QueueIdleKeeps DEF Over
    <2>3. /\ gen' # gen => gen' \in {"getting", "draining", "failed", "left", "orphaned", "abandoned"}
                           \/ (gen = "finalYield" /\ gen' = "flushing")
      BY <1>7, QueueIdleKeeps
    <2>4. CountIn(Finals, sent) # 0 => gen' \notin {"getting", "draining"} \/ gen' = gen
      <3>1. gen' # gen /\ gen' \in {"getting", "draining"} =>
              gen \in {"atStart", "atYield", "joining", "drainYield"}
        <4>1. CASE Leave \/ CloseOrphan \/ ConnectionFinalized \/ AgentStarts \/ Worker
                    \/ UNCHANGED vars
          BY <4>1 DEF Leave, LeaveAwaiting, LeaveAtYield, LeaveAtStart, NeverIterated, CloseOrphan,
                ConnectionFinalized, AgentStarts, Worker, WorkerCallback, WorkerPhase, ToolEnds,
                SinkReturns, WorkerReturns, Close
        <4>2. CASE CreateTasks \/ Join \/ Resume
          BY <4>2 DEF CreateTasks, Join, Resume, Close
        <4> QED
          BY <1>7, <4>1, <4>2 DEF QueueIdle
      <3> QED
        BY <3>1 DEF EndingInv
    <2>5. Pending' = Pending /\ FinalIsLast' /\ CountIn(Finals, sent)' = CountIn(Finals, sent)
      BY <2>1 DEF Pending, FinalIsLast, EndingInv
    <2> QED
      BY <2>1, <2>2, <2>3, <2>4, <2>5 DEF EndingInv, Over
  <1> QED
    BY <1>1, <1>2, <1>3, <1>4, <1>5, <1>6, <1>7
       DEF Next, Generator, QueueIdle

-----------------------------------------------------------------------------
(* Nothing lost                                                            *)

\* The states of the generator that has drained the queue after its "done".
Drained == {"flushing", "finalYield", "completed"}

\* The queue ends for good: the result is the last callback posted, run_agent
\* resumes after all of them, the emitter makes its last pass after run_agent,
\* and the generator stops reading after both.
ClosingInv ==
    /\ gen = "created" => sent = <<>>
    /\ \A i \in DOMAIN ready : ready[i] = "result" => i = Len(ready)
    /\ agent = "woken" \/ (agent \in Over /\ ~cancel) => ready = <<>>
    /\ ended <=> agent \in Over
    /\ emitter = "ended" => agent \in Over /\ (~cancel => emitted = phases /\ ~graphDirty)
    /\ gen \in {"draining", "drainYield"} \union Drained => emitter = "ended"
    /\ gen \in Drained /\ ~cancel => queue = <<>>

\* Before the stream starts nothing is over.
LEMMA ClosingInit == Init => ClosingInv
  BY DEF Init, ClosingInv, Drained, Over

\* Steps of the worker: it posts nothing once run_agent has its result.
LEMMA WorkerKeepsClosing ==
    ASSUME WorkerInv, ClosingInv, Worker
    PROVE  ClosingInv'
  <1>1. ready \in Seq({"callback", "result"})
    BY DEF WorkerInv, TypeInv, TypeOK, DataOK
  <1>2. /\ UNCHANGED <<queue, agent, ended, emitter, emitted, gen, sent, cancel>>
        /\ worker # "returned"
        /\ ready' \in {ready, Append(ready, "callback"), Append(ready, "result")}
    BY DEF Worker, WorkerCallback, WorkerPhase, ToolEnds, SinkReturns, WorkerReturns, Post
  <1>3. \A i \in DOMAIN ready : ready[i] = "callback"
    BY <1>2 DEF WorkerInv, ResultComesLast
  <1>4. agent # "woken" /\ (agent \in Over => cancel)
    BY <1>2 DEF WorkerInv, WokenByResult, EndsWithWorker
  <1>5. \A i \in DOMAIN ready' : ready'[i] = "result" => i = Len(ready')
    BY <1>1, <1>2, <1>3
  <1> QED
    BY <1>2, <1>4, <1>5 DEF ClosingInv

\* Callbacks the loop runs: the result wakes run_agent after all others.
LEMMA RunCallbackKeepsClosing ==
    ASSUME WorkerInv, ClosingInv, RunCallback
    PROVE  ClosingInv'
  <1>1. /\ ready \in Seq({"callback", "result"}) /\ ready # <<>> /\ ready' = Tail(ready)
        /\ UNCHANGED <<phases, graphDirty, ended, emitter, emitted, gen, sent, cancel>>
    BY DEF RunCallback, WorkerInv, TypeInv, TypeOK, DataOK
  <1>2. agent # "woken" /\ (agent \in Over => cancel)
    BY <1>1 DEF ClosingInv
  <1>3. \A i \in DOMAIN ready' : ready'[i] = "result" => i = Len(ready')
    BY <1>1 DEF ClosingInv
  <1>4. gen \in Drained => agent \in Over
    BY DEF WorkerInv, DoneIsLast, Drained
  <1>5. CASE Head(ready) = "callback"
    <2>1. agent' = agent
      BY <1>5 DEF RunCallback
    <2> QED
      BY <1>1, <1>2, <1>3, <1>4, <2>1 DEF ClosingInv
  <1>6. CASE Head(ready) # "callback"
    <2>1. ready[1] = "result" /\ 1 \in DOMAIN ready
      BY <1>1, <1>6
    <2>2. Len(ready) = 1
      BY <2>1 DEF ClosingInv
    <2>3. ready' = <<>>
      BY <1>1, <2>2
    <2>4. agent' = IF agent = "waiting" THEN "woken" ELSE agent
      BY <1>6 DEF RunCallback
    <2> QED
      BY <1>1, <1>2, <1>3, <1>4, <2>3, <2>4 DEF ClosingInv, Over
  <1> QED
    BY <1>5, <1>6

\* run_agent ends after its result, or has told the worker to stop.
LEMMA AgentKeepsClosing ==
    ASSUME WorkerInv, ClosingInv, AgentResumes \/ AgentDeadline
    PROVE  ClosingInv'
  <1>1. /\ agent' \in Over /\ agent \notin Over /\ (agent = "woken" \/ cancel')
        /\ cancel' \in {cancel, TRUE} /\ ended'
        /\ UNCHANGED <<ready, gen, sent, emitter, emitted, phases, graphDirty>>
    BY AgentEnds, AgentQueues DEF Over
  <1>2. gen \notin Drained
    BY <1>1 DEF WorkerInv, DoneIsLast, Drained
  <1> QED
    BY <1>1, <1>2 DEF ClosingInv, Over

\* The last pass of the emitter sees every phase and the graph as it is.
LEMMA EmitKeepsClosing ==
    ASSUME WorkerInv, ClosingInv, EmitPass \/ EmitRaises
    PROVE  ClosingInv'
  <1>1. /\ emitter = "polling" /\ emitted' = phases /\ ~graphDirty'
        /\ emitter' \in {"polling", "raised", "ended"}
        /\ emitter' = "ended" => ended
        /\ UNCHANGED <<phases, ready, agent, ended, gen, sent, cancel>>
    BY EmitQueues
  <1> QED
    BY <1>1 DEF ClosingInv, Drained

\* The generator reads on until both are over.
LEMMA GeneratorKeepsClosing ==
    ASSUME WorkerInv, ClosingInv, Generator
    PROVE  ClosingInv'
  <1>1. CASE Take \/ (Drain /\ queue # <<>>)
    <2>1. /\ UNCHANGED <<taskVars, emitter>> /\ gen \in {"getting", "draining"}
          /\ gen' \in {gen, "joining", "atYield", "drainYield"}
          /\ gen' \in {"draining", "drainYield"} => gen = "draining"
          /\ gen' # "created"
      <3>1. TypeOK
        BY DEF WorkerInv, TypeInv
      <3> QED
        BY <1>1, <3>1, TakesTheHead
    <2> QED
      BY <2>1 DEF ClosingInv, Drained
  <1>2. CASE Drain /\ queue = <<>>
    BY <1>2 DEF Drain, ClosingInv, Drained
  <1>3. CASE Iterate \/ Join \/ Resume
    BY <1>3 DEF Iterate, Join, Resume, Close, ClosingInv, Drained
  <1>4. CASE CreateTasks
    <2>1. agent = "absent"
      BY <1>4 DEF CreateTasks, WorkerInv, NoTasksYet
    <2> QED
      BY <1>4, <2>1 DEF CreateTasks, ClosingInv, Drained, Over
  <1>5. CASE Flush
    BY <1>5 DEF Flush, Close, ClosingInv, Drained
  <1> QED
    BY <1>1, <1>2, <1>3, <1>4, <1>5 DEF Generator

\* Every step keeps the invariant.
LEMMA ClosingStep == WorkerInv /\ ClosingInv /\ [Next]_vars => ClosingInv'
  <1> SUFFICES ASSUME WorkerInv, ClosingInv, [Next]_vars PROVE ClosingInv'
    OBVIOUS
  <1>1. CASE AgentStarts
    BY <1>1 DEF AgentStarts, ClosingInv, Drained, Over, WorkerInv, DoneIsLast
  <1>2. CASE Leave \/ CloseOrphan \/ ConnectionFinalized
    BY <1>2 DEF Leave, LeaveAwaiting, LeaveAtYield, LeaveAtStart, NeverIterated, CloseOrphan,
                ConnectionFinalized, HangUp, TellWorker, Close, ClosingInv, Drained
  <1>3. CASE UNCHANGED vars
    BY <1>3 DEF ClosingInv
  <1> QED
    BY <1>1, <1>2, <1>3, WorkerKeepsClosing, RunCallbackKeepsClosing, AgentKeepsClosing,
       EmitKeepsClosing, GeneratorKeepsClosing DEF Next

\* Callbacks are posted, queued or sent, phases waiting, queued or sent.
CountsInv ==
    /\ CountIn({"callback"}, sent) + CountIn({"callback"}, queue) + CountIn({"callback"}, ready) = calls
    /\ CountIn({"phase"}, sent) + CountIn({"phase"}, queue) = emitted
    /\ emitted <= phases

\* Counts of the three sequences are numbers.
LEMMA CountNats ==
    ASSUME TypeOK
    PROVE  /\ \A S : /\ CountIn(S, queue) \in Nat /\ CountIn(S, sent) \in Nat
                     /\ CountIn(S, ready) \in Nat
           /\ calls \in Nat /\ phases \in Nat /\ emitted \in Nat
           /\ ready \in Seq({"callback", "result"})
  <1>1. ready \in Seq({"callback", "result"}) /\ calls \in Nat /\ phases \in Nat /\ emitted \in Nat
    BY DEF TypeOK, StatesOK, DataOK
  <1>2. \A S : CountIn(S, ready) \in Nat
    BY <1>1, CountIsNat
  <1> QED
    BY <1>1, <1>2, CountTypes

\* Before the stream starts there is nothing to count.
LEMMA CountsInit == Init => CountsInv
  <1> SUFFICES ASSUME Init PROVE CountsInv
    OBVIOUS
  <1>1. /\ queue = <<>> /\ ready = <<>> /\ sent = <<>> /\ calls = 0 /\ phases = 0 /\ emitted = 0
    BY DEF Init
  <1>2. CountIn({"callback"}, <<>>) = 0 /\ CountIn({"phase"}, <<>>) = 0
    BY CountOne
  <1> QED
    BY <1>1, <1>2 DEF CountsInv

\* The worker counts what it posts.
LEMMA WorkerKeepsCounts ==
    ASSUME TypeOK, CountsInv, Worker
    PROVE  CountsInv'
  <1>1. /\ UNCHANGED <<queue, sent, emitted>>
        /\ phases' \in {phases, phases + 1}
        /\ \/ calls' = calls + 1 /\ ready' = Append(ready, "callback")
           \/ calls' = calls /\ ready' = Append(ready, "result")
           \/ UNCHANGED <<calls, ready>>
    BY DEF Worker, WorkerCallback, WorkerPhase, ToolEnds, SinkReturns, WorkerReturns, Post
  <1>2. CountIn({"callback"}, Append(ready, "callback")) = CountIn({"callback"}, ready) + 1
    <2>1. CountIn({"callback"}, Append(ready, "callback"))
            = CountIn({"callback"}, ready) + (IF "callback" \in {"callback"} THEN 1 ELSE 0)
      BY CountNats, CountAppend
    <2> QED
      BY <2>1
  <1>3. CountIn({"callback"}, Append(ready, "result")) = CountIn({"callback"}, ready)
    <2>1. CountIn({"callback"}, Append(ready, "result"))
            = CountIn({"callback"}, ready) + (IF "result" \in {"callback"} THEN 1 ELSE 0)
      BY CountNats, CountAppend
    <2> QED
      BY <2>1, CountNats
  <1>4. /\ CountIn({"callback"}, queue') = CountIn({"callback"}, queue)
        /\ CountIn({"callback"}, sent') = CountIn({"callback"}, sent)
        /\ CountIn({"phase"}, queue') = CountIn({"phase"}, queue)
        /\ CountIn({"phase"}, sent') = CountIn({"phase"}, sent)
    BY <1>1
  <1>5. \/ calls' = calls + 1 /\ CountIn({"callback"}, ready') = CountIn({"callback"}, ready) + 1
        \/ calls' = calls /\ CountIn({"callback"}, ready') = CountIn({"callback"}, ready)
    BY <1>1, <1>2, <1>3, Zenon
  <1>6. CountIn({"phase"}, sent') + CountIn({"phase"}, queue') = emitted' /\ emitted' <= phases'
    BY <1>1, <1>4, CountNats DEF CountsInv
  <1>7. CountIn({"callback"}, sent') + CountIn({"callback"}, queue') + CountIn({"callback"}, ready')
          = calls'
    <2>1. CASE calls' = calls + 1 /\ CountIn({"callback"}, ready') = CountIn({"callback"}, ready) + 1
      BY <1>4, <2>1, CountNats DEF CountsInv
    <2>2. CASE calls' = calls /\ CountIn({"callback"}, ready') = CountIn({"callback"}, ready)
      BY <1>4, <2>2 DEF CountsInv
    <2> QED
      BY <1>5, <2>1, <2>2
  <1> QED
    BY <1>6, <1>7 DEF CountsInv

\* The loop moves a callback to the queue.
LEMMA RunCallbackKeepsCounts ==
    ASSUME TypeOK, CountsInv, RunCallback
    PROVE  CountsInv'
  <1>1. /\ ready # <<>> /\ ready' = Tail(ready)
        /\ UNCHANGED <<sent, emitted, phases, calls>>
        /\ queue' = IF Head(ready) = "callback" THEN Append(queue, "callback") ELSE queue
    BY DEF RunCallback
  <1>2. CountIn({"callback"}, ready)
          = CountIn({"callback"}, ready') + (IF Head(ready) \in {"callback"} THEN 1 ELSE 0)
        /\ CountIn({"callback"}, ready') \in Nat
    BY <1>1, CountNats, CountTail
  <1>3. ASSUME NEW S
        PROVE  CountIn(S, Append(queue, "callback"))
                 = CountIn(S, queue) + (IF "callback" \in S THEN 1 ELSE 0)
    <2>1. queue \in Seq(QueueEvents) /\ "callback" \in QueueEvents
      BY CountTypes
    <2> QED
      BY <2>1, CountAppend
  <1>4. /\ CountIn({"callback"}, Append(queue, "callback")) = CountIn({"callback"}, queue) + 1
        /\ CountIn({"phase"}, Append(queue, "callback")) = CountIn({"phase"}, queue)
    <2>1. CountIn({"callback"}, Append(queue, "callback"))
            = CountIn({"callback"}, queue) + (IF "callback" \in {"callback"} THEN 1 ELSE 0)
      BY <1>3
    <2>2. CountIn({"phase"}, Append(queue, "callback"))
            = CountIn({"phase"}, queue) + (IF "callback" \in {"phase"} THEN 1 ELSE 0)
      BY <1>3
    <2> QED
      BY <2>1, <2>2, CountNats
  <1>5. CASE Head(ready) = "callback"
    <2>1. queue' = Append(queue, "callback")
      BY <1>1, <1>5
    <2>2. /\ CountIn({"callback"}, queue') = CountIn({"callback"}, queue) + 1
          /\ CountIn({"phase"}, queue') = CountIn({"phase"}, queue)
      BY <1>4, <2>1, Zenon
    <2>3. CountIn({"callback"}, ready) = CountIn({"callback"}, ready') + 1
      BY <1>2, <1>5
    <2>4. \A a, b, c \in Nat : a + (b + 1) + c = a + b + (c + 1)
      OBVIOUS
    <2>5. /\ CountIn({"callback"}, sent) \in Nat /\ CountIn({"callback"}, queue) \in Nat
          /\ CountIn({"callback"}, ready') \in Nat
      BY <1>2, CountNats, Zenon
    <2>6. CountIn({"callback"}, sent) + CountIn({"callback"}, queue') + CountIn({"callback"}, ready')
            = calls
      <3>1. CountIn({"callback"}, sent) + (CountIn({"callback"}, queue) + 1)
                + CountIn({"callback"}, ready')
              = CountIn({"callback"}, sent) + CountIn({"callback"}, queue)
                + (CountIn({"callback"}, ready') + 1)
        BY <2>4, <2>5, Zenon
      <3>2. CountIn({"callback"}, sent) + CountIn({"callback"}, queue)
                + CountIn({"callback"}, ready) = calls
        BY Zenon DEF CountsInv
      <3> QED
        BY <2>2, <2>3, <3>1, <3>2, Zenon
    <2>7. CountIn({"phase"}, sent) + CountIn({"phase"}, queue') = emitted /\ emitted <= phases
      BY <2>2, Zenon DEF CountsInv
    <2> QED
      BY <1>1, <2>6, <2>7, Zenon DEF CountsInv
  <1>6. CASE Head(ready) # "callback"
    <2>1. queue' = queue
      BY <1>1, <1>6
    <2>2. CountIn({"callback"}, ready) = CountIn({"callback"}, ready')
      BY <1>2, <1>6
    <2> QED
      BY <1>1, <2>1, <2>2 DEF CountsInv
  <1> QED
    BY <1>5, <1>6

\* run_agent queues neither callbacks nor phases.
LEMMA AgentKeepsCounts ==
    ASSUME TypeOK, CountsInv, AgentResumes \/ AgentDeadline
    PROVE  CountsInv'
  <1>1. UNCHANGED <<ready, sent, emitted, phases, calls>>
    BY AgentQueues
  <1>2. PICK events \in Seq(Terminals) :
          /\ queue' = queue \o events \o <<"done">>
          /\ events = <<>> \/ \E e \in Terminals : events = <<e>>
    <2>1. ASSUME NEW e \in Terminals, queue' = queue \o <<e>> \o <<"done">>
          PROVE  \E events \in Seq(Terminals) :
                   /\ queue' = queue \o events \o <<"done">>
                   /\ events = <<>> \/ \E f \in Terminals : events = <<f>>
      <3>1. <<e>> \in Seq(Terminals)
        OBVIOUS
      <3> QED
        BY <2>1, <3>1, Zenon
    <2>2. ASSUME queue' = queue \o <<>> \o <<"done">>
          PROVE  \E events \in Seq(Terminals) :
                   /\ queue' = queue \o events \o <<"done">>
                   /\ events = <<>> \/ \E f \in Terminals : events = <<f>>
      <3>1. <<>> \in Seq(Terminals)
        OBVIOUS
      <3> QED
        BY <2>2, <3>1, Zenon
    <2> QED
      BY <2>1, <2>2, AgentQueues DEF Terminals
  <1>3. ASSUME NEW S, S \intersect (Terminals \union {"done"}) = {}
        PROVE  CountIn(S, queue') = CountIn(S, queue)
    <2> DEFINE half == queue \o events
    <2>1. events \in Seq(QueueEvents) /\ <<"done">> \in Seq(QueueEvents)
      BY DEF Terminals
    <2>2. CountIn(S, events) = 0 /\ CountIn(S, <<"done">>) = 0
      BY <1>2, <1>3, CountOne
    <2>3. half \in Seq(QueueEvents) /\ CountIn(S, half) = CountIn(S, queue) + CountIn(S, events)
      BY <2>1, CountTypes, CountConcat
    <2> HIDE DEF half
    <2>4. CountIn(S, half \o <<"done">>) = CountIn(S, half) + CountIn(S, <<"done">>)
      BY <2>1, <2>3, CountConcat
    <2>5. CountIn(S, half \o <<"done">>) = CountIn(S, queue)
      BY <2>2, <2>3, <2>4, CountNats
    <2> QED
      BY <1>2, <2>5 DEF half
  <1>4. /\ CountIn({"callback"}, queue') = CountIn({"callback"}, queue)
        /\ CountIn({"phase"}, queue') = CountIn({"phase"}, queue)
    BY <1>3 DEF Terminals
  <1> QED
    BY <1>1, <1>4 DEF CountsInv

\* The emitter queues every phase it has not emitted.
LEMMA EmitKeepsCounts ==
    ASSUME TypeOK, CountsInv, EmitPass \/ EmitRaises
    PROVE  CountsInv'
  <1>1. /\ UNCHANGED <<ready, sent, phases, calls>> /\ emitted' = phases
        /\ queue' \in {queue \o NewPhases \o <<"graph">>, queue \o NewPhases \o <<>>,
                       queue \o NewPhases}
    BY EmitQueues
  <1>2. ASSUME NEW S, "graph" \notin S
        PROVE  CountIn(S, queue') = CountIn(S, queue) + CountIn(S, NewPhases)
    <2> DEFINE half == queue \o NewPhases
    <2>1. NewPhases \in Seq(QueueEvents)
      BY NewPhasesType DEF TypeOK
    <2>2. half \in Seq(QueueEvents) /\ CountIn(S, half) = CountIn(S, queue) + CountIn(S, NewPhases)
      BY <2>1, CountTypes, CountConcat
    <2>3. <<"graph">> \in Seq(QueueEvents) /\ <<>> \in Seq(QueueEvents)
      OBVIOUS
    <2>4. CountIn(S, <<"graph">>) = 0 /\ CountIn(S, <<>>) = 0
      BY <1>2, CountOne
    <2>5. CountIn(S, half) \in Nat
      BY <2>2, CountIsNat
    <2>6. queue' \in {half \o <<"graph">>, half \o <<>>, half}
      BY <1>1
    <2> HIDE DEF half
    <2>7. CountIn(S, half \o <<"graph">>) = CountIn(S, half) + CountIn(S, <<"graph">>)
      BY <2>2, <2>3, CountConcat
    <2>8. CountIn(S, half \o <<>>) = CountIn(S, half) + CountIn(S, <<>>)
      BY <2>2, <2>3, CountConcat
    <2>9. CountIn(S, half \o <<"graph">>) = CountIn(S, half) /\ CountIn(S, half \o <<>>) = CountIn(S, half)
      BY <2>4, <2>5, <2>7, <2>8
    <2>10. CountIn(S, queue') = CountIn(S, half)
      BY <2>6, <2>9, Zenon
    <2> QED
      BY <2>2, <2>10
  <1>3. /\ CountIn({"callback"}, NewPhases) = 0
        /\ CountIn({"phase"}, NewPhases) = phases - emitted
    BY CountNats, NewPhasesCount DEF CountsInv
  <1>4. /\ CountIn({"callback"}, queue') = CountIn({"callback"}, queue) + 0
        /\ CountIn({"phase"}, queue') = CountIn({"phase"}, queue) + (phases - emitted)
    BY <1>2, <1>3
  <1> QED
    BY <1>1, <1>4, CountNats DEF CountsInv

\* The generator sends what it takes.
LEMMA TakeKeepsCounts ==
    ASSUME TypeOK, CountsInv, Take \/ (Drain /\ queue # <<>>)
    PROVE  CountsInv'
  <1> DEFINE x == Head(queue)
  <1>1. /\ queue # <<>> /\ queue' = Tail(queue)
        /\ UNCHANGED <<ready, emitted, phases, calls>>
        /\ \/ x \in {"done"} \union Finals /\ sent' = sent
           \/ x \in {"callback", "phase", "graph", "error"} /\ sent' = Append(sent, x)
    BY TakesTheHead
  <1>2. ASSUME NEW S, S \intersect ({"done"} \union Finals) = {}
        PROVE  CountIn(S, sent') + CountIn(S, queue') = CountIn(S, sent) + CountIn(S, queue)
    <2>1. CountIn(S, queue) = CountIn(S, queue') + (IF x \in S THEN 1 ELSE 0)
          /\ CountIn(S, queue') \in Nat
      BY <1>1, CountTypes, CountTail
    <2>2. CASE x \in {"done"} \union Finals /\ sent' = sent
      <3>1. x \notin S /\ CountIn(S, sent') = CountIn(S, sent)
        BY <1>2, <2>2
      <3> QED
        BY <2>1, <3>1
    <2>3. CASE x \in {"callback", "phase", "graph", "error"} /\ sent' = Append(sent, x)
      <3>1. sent \in Seq(Events \union {"start"}) /\ x \in Events \union {"start"}
        BY <2>3, CountTypes
      <3>2. CountIn(S, sent') = CountIn(S, sent) + (IF x \in S THEN 1 ELSE 0)
        BY <2>3, <3>1, CountAppend
      <3>3. CountIn(S, sent) \in Nat
        BY CountTypes
      <3> QED
        BY <2>1, <3>2, <3>3
    <2> QED
      BY <1>1, <2>2, <2>3
  <1>3. /\ CountIn({"callback"}, sent') + CountIn({"callback"}, queue')
             = CountIn({"callback"}, sent) + CountIn({"callback"}, queue)
        /\ CountIn({"phase"}, sent') + CountIn({"phase"}, queue')
             = CountIn({"phase"}, sent) + CountIn({"phase"}, queue)
    BY <1>2
  <1> QED
    BY <1>1, <1>3 DEF CountsInv

\* Every step keeps the counts.
LEMMA CountsStep == WorkerInv /\ ClosingInv /\ CountsInv /\ [Next]_vars => CountsInv'
  <1> SUFFICES ASSUME WorkerInv, ClosingInv, CountsInv, [Next]_vars PROVE CountsInv'
    OBVIOUS
  <1>t. TypeOK
    BY DEF WorkerInv, TypeInv
  <1>1. CASE Worker
    BY <1>1, <1>t, WorkerKeepsCounts
  <1>2. CASE QueueIdle /\ ~Worker
    <2>1. UNCHANGED <<queue, sent>>
      BY <1>2, QueueIdleKeeps
    <2>2. UNCHANGED <<ready, emitted, phases, calls>>
      BY <1>2 DEF QueueIdle, AgentStarts, CreateTasks, Join, Resume, Leave, LeaveAwaiting,
           LeaveAtYield, LeaveAtStart, NeverIterated, CloseOrphan, ConnectionFinalized, HangUp
    <2> QED
      BY <2>1, <2>2 DEF CountsInv
  <1>3. CASE Iterate
    <2>1. sent = <<>> /\ sent' = <<"start">> /\ UNCHANGED <<queue, ready, emitted, phases, calls>>
      BY <1>3 DEF Iterate, ClosingInv
    <2>2. /\ CountIn({"callback"}, <<>>) = CountIn({"callback"}, <<"start">>)
          /\ CountIn({"phase"}, <<>>) = CountIn({"phase"}, <<"start">>)
      BY CountOne
    <2> QED
      BY <2>1, <2>2 DEF CountsInv
  <1>4. CASE Flush
    <2>1. UNCHANGED <<queue, ready, emitted, phases, calls>>
      BY <1>4 DEF Flush
    <2>2. ASSUME NEW S, S \intersect Finals = {} PROVE CountIn(S, sent') = CountIn(S, sent)
      <3>1. CASE deferred = <<>>
        BY <1>4, <3>1 DEF Flush
      <3>2. CASE deferred # <<>>
        <4>1. sent' = Append(sent, Head(deferred)) /\ Head(deferred) \in Finals
          BY <1>4, <1>t, <3>2, CountTypes DEF Flush
        <4>2. sent \in Seq(Events \union {"start"}) /\ Head(deferred) \in Events \union {"start"}
          BY <1>t, <4>1, CountTypes
        <4>3. CountIn(S, sent') = CountIn(S, sent) + (IF Head(deferred) \in S THEN 1 ELSE 0)
          BY <4>1, <4>2, CountAppend
        <4>4. CountIn(S, sent) \in Nat /\ Head(deferred) \notin S
          BY <1>t, <2>2, <4>1, CountTypes
        <4> QED
          BY <4>3, <4>4
      <3> QED
        BY <3>1, <3>2
    <2>3. /\ CountIn({"callback"}, sent') = CountIn({"callback"}, sent)
          /\ CountIn({"phase"}, sent') = CountIn({"phase"}, sent)
      BY <2>2
    <2> QED
      BY <2>1, <2>3 DEF CountsInv
  <1>5. CASE Drain /\ queue = <<>>
    <2>1. UNCHANGED <<queue, sent, ready, emitted, phases, calls>>
      BY <1>5 DEF Drain
    <2> QED
      BY <2>1 DEF CountsInv
  <1> QED
    BY <1>t, <1>1, <1>2, <1>3, <1>4, <1>5, RunCallbackKeepsCounts, AgentKeepsCounts,
       EmitKeepsCounts, TakeKeepsCounts DEF Next, Generator, QueueIdle

\* All that is known of the stream.
StreamInv == WorkerInv /\ LeftMeansGone /\ ClosingInv /\ CountsInv /\ EndingInv

\* The parts of the invariant keep each other.
LEMMA StreamStep == StreamInv /\ [Next]_vars => StreamInv'
  BY WorkerInvStep, LeftMeansGoneStep, ClosingStep, CountsStep, EndingStep
     DEF StreamInv, CountsInv

\* They hold of every state.
LEMMA StreamInvariant == Spec => []StreamInv
  <1>1. Init => StreamInv
    BY WorkerInvInit, LeftMeansGoneInit, ClosingInit, CountsInit, EndingInit DEF StreamInv
  <1> QED
    BY <1>1, StreamStep, PTL DEF Spec

\* A stream that ran to its end has sent exactly one terminal event, and a
\* final event is the last it sent.
THEOREM StreamsEndOnce == Spec => []OneEnding
  <1>1. StreamInv => OneEnding
    <2> SUFFICES ASSUME StreamInv PROVE OneTerminalEvent
      BY DEF OneEnding, StreamInv, EndingInv
    <2> SUFFICES ASSUME gen = "completed" PROVE CountIn(Terminals, sent) = 1
      BY DEF OneTerminalEvent, CountIn, Terminals
    <2>1. TypeOK /\ ~left
      BY DEF StreamInv, WorkerInv, TypeInv, LeftMeansGone
    <2>2. Pending = 1 /\ CountIn(Terminals, queue) = 0 /\ deferred = <<>>
      BY <2>1 DEF StreamInv, EndingInv
    <2>3. CountIn(Terminals, sent) \in Nat
      BY <2>1, CountTypes
    <2> QED
      BY <2>2, <2>3 DEF Pending
  <1> QED
    BY <1>1, StreamInvariant, PTL

\* A stream that ran to its end before the deadline has sent every callback
\* event and every phase event of its worker, and the last graph.
THEOREM StreamsLoseNothing == Spec => []NothingLost
  <1>1. StreamInv => NothingLost
    <2> SUFFICES ASSUME StreamInv, gen = "completed", ~cancel
                 PROVE  /\ CountIn({"callback"}, sent) = calls /\ CountIn({"phase"}, sent) = phases
                        /\ ~graphDirty
      BY DEF NothingLost, Count, CountIn
    <2>1. TypeOK /\ agent \in Over
      BY DEF StreamInv, WorkerInv, TypeInv, EndingInv, Over
    <2>2. queue = <<>> /\ ready = <<>> /\ emitted = phases /\ ~graphDirty
      BY <2>1 DEF StreamInv, ClosingInv, Drained
    <2>3. CountIn({"callback"}, <<>>) = 0 /\ CountIn({"phase"}, <<>>) = 0
      BY CountOne
    <2> QED
      BY <2>1, <2>2, <2>3, CountNats DEF StreamInv, CountsInv
  <1> QED
    BY <1>1, StreamInvariant, PTL

-----------------------------------------------------------------------------
(* What a final event says                                                 *)

\* The elements of a concatenation.
LEMMA RangeConcat ==
    ASSUME NEW A, NEW s \in Seq(A), NEW t \in Seq(A)
    PROVE  Range(s \o t) = Range(s) \union Range(t)
  <1>1. Range(s) \subseteq Range(s \o t)
    <2> SUFFICES ASSUME NEW i \in DOMAIN s PROVE s[i] \in Range(s \o t)
      BY DEF Range
    <2>1. i \in DOMAIN (s \o t) /\ (s \o t)[i] = s[i]
      OBVIOUS
    <2> QED
      BY <2>1 DEF Range
  <1>2. Range(t) \subseteq Range(s \o t)
    <2> SUFFICES ASSUME NEW i \in DOMAIN t PROVE t[i] \in Range(s \o t)
      BY DEF Range
    <2>1. Len(s) + i \in DOMAIN (s \o t) /\ (s \o t)[Len(s) + i] = t[i]
      OBVIOUS
    <2> QED
      BY <2>1 DEF Range
  <1>3. Range(s \o t) \subseteq Range(s) \union Range(t)
    <2> SUFFICES ASSUME NEW i \in DOMAIN (s \o t) PROVE (s \o t)[i] \in Range(s) \union Range(t)
      BY DEF Range
    <2>1. CASE i <= Len(s)
      <3>1. i \in DOMAIN s /\ (s \o t)[i] = s[i]
        BY <2>1
      <3> QED
        BY <3>1 DEF Range
    <2>2. CASE i > Len(s)
      <3>1. i - Len(s) \in DOMAIN t /\ (s \o t)[i] = t[i - Len(s)]
        BY <2>2
      <3> QED
        BY <3>1 DEF Range
    <2> QED
      BY <2>1, <2>2
  <1> QED
    BY <1>1, <1>2, <1>3

\* The elements of short sequences.
LEMMA RangeOne == Range(<<>>) = {} /\ \A x : Range(<<x>>) = {x}
  BY DEF Range

\* An element appended.
LEMMA RangeAppend ==
    ASSUME NEW A, NEW s \in Seq(A), NEW x \in A
    PROVE  Range(Append(s, x)) = Range(s) \union {x}
  <1>1. Append(s, x) = s \o <<x>> /\ <<x>> \in Seq(A)
    OBVIOUS
  <1>2. Range(s \o <<x>>) = Range(s) \union Range(<<x>>)
    BY <1>1, RangeConcat
  <1> QED
    BY <1>1, <1>2, RangeOne

\* The first element taken.
LEMMA RangeTail ==
    ASSUME NEW A, NEW s \in Seq(A), s # <<>>
    PROVE  Range(s) = {Head(s)} \union Range(Tail(s))
  <1>1. s = <<Head(s)>> \o Tail(s) /\ <<Head(s)>> \in Seq(A) /\ Tail(s) \in Seq(A)
    OBVIOUS
  <1>2. Range(<<Head(s)>> \o Tail(s)) = Range(<<Head(s)>>) \union Range(Tail(s))
    BY <1>1, RangeConcat
  <1> QED
    BY <1>1, <1>2, RangeOne

\* The whole turn is in the session; an answer has its artifacts there and a
\* worker that makes no more.
Whole ==
    /\ Len(hist) > 1 /\ hist[Len(hist) - 1] = "user" /\ noted
    /\ hist[Len(hist)] = "answer" => Made \subseteq stored /\ worker = "returned"

\* A final event that is on its way tells of a whole turn, an error event that
\* is still queued of none; what the sink confirmed is stored.
SavedInv ==
    /\ sunk \subseteq stored
    /\ "final" \in Range(queue) \union Range(deferred) \union Range(sent) => Whole
    /\ "error" \in Range(queue) /\ ~left => hist = <<>>

\* Until run_agent is over there is no terminal event anywhere.
LEMMA NoTerminalBefore ==
    ASSUME StreamInv, agent \notin Over
    PROVE  (Range(queue) \union Range(deferred) \union Range(sent)) \intersect Terminals = {}
  <1>1. TypeOK /\ Pending = 0
    BY DEF StreamInv, WorkerInv, TypeInv, EndingInv
  <1>2. /\ queue \in Seq(QueueEvents) /\ sent \in Seq(Events \union {"start"})
        /\ deferred \in Seq(Finals) /\ Len(deferred) \in Nat
        /\ CountIn(Terminals, queue) \in Nat /\ CountIn(Terminals, sent) \in Nat
    BY <1>1, CountTypes
  <1>3. \A a, b, c \in Nat : a + b + c = 0 => a = 0 /\ b = 0 /\ c = 0
    OBVIOUS
  <1>4. CountIn(Terminals, queue) = 0 /\ Len(deferred) = 0 /\ CountIn(Terminals, sent) = 0
    BY <1>1, <1>2, <1>3, Zenon DEF Pending
  <1>5. \A i \in DOMAIN queue : queue[i] \notin Terminals
    BY <1>2, <1>4, CountIsNat
  <1>6. \A i \in DOMAIN sent : sent[i] \notin Terminals
    BY <1>2, <1>4, CountIsNat
  <1>7. DOMAIN deferred = {}
    BY <1>2, <1>4
  <1> QED
    BY <1>5, <1>6, <1>7 DEF Range

\* Four writes save the question and its answer.
LEMMA AllMessages ==
    ASSUME NEW a \in {"answer", "fallback", "interrupted"}, NEW before \in Seq(Saved)
    PROVE  LET new == before \o Messages(AllWrites, a)
           IN  Len(new) > 1 /\ new[Len(new) - 1] = "user" /\ new[Len(new)] = a
  <1>1. Messages(AllWrites, a) = <<"user", a>>
    <2>1. <<"user", a>> \in Seq({"user", a}) /\ Len(<<"user", a>>) = 2
      OBVIOUS
    <2>2. \A s \in Seq({"user", a}) : Len(s) = 2 => SubSeq(s, 1, 2) = s
      OBVIOUS
    <2>3. Messages(AllWrites, a) = SubSeq(<<"user", a>>, 1, 2)
      BY DEF Messages, AllWrites
    <2> QED
      BY <2>1, <2>2, <2>3, Zenon
  <1>2. <<"user", a>> \in Seq(Saved)
    OBVIOUS
  <1> QED
    BY <1>1, <1>2

\* The queue when run_agent is over.
LEMMA EndQueueRange ==
    ASSUME TypeOK, NEW events \in Seq(Events), NEW how, EndQueue(events, how)
    PROVE  Range(queue') = Range(queue) \union Range(events) \union {"done"}
  <1> DEFINE half == queue \o events
  <1>1. queue \in Seq(QueueEvents) /\ events \in Seq(QueueEvents) /\ <<"done">> \in Seq(QueueEvents)
    BY CountTypes
  <1>2. half \in Seq(QueueEvents) /\ Range(half) = Range(queue) \union Range(events)
    BY <1>1, RangeConcat
  <1> HIDE DEF half
  <1>3. Range(half \o <<"done">>) = Range(half) \union Range(<<"done">>)
    <2>1. \A t \in Seq(QueueEvents) : Range(half \o t) = Range(half) \union Range(t)
      BY <1>2, RangeConcat
    <2> QED
      BY <1>1, <2>1
  <1>4. queue' = half \o <<"done">>
    BY DEF EndQueue, half
  <1> QED
    BY <1>2, <1>3, <1>4, RangeOne

\* A fallback turn reports itself only when it is whole.
LEMMA FallbackIsWhole ==
    ASSUME TypeOK, NEW before \in Seq(Saved), FallbackTurn(before),
           "final" \notin Range(queue), "error" \notin Range(queue)
    PROVE  "error" \notin Range(queue') /\ ("final" \in Range(queue') => Whole')
  <1>1. PICK k \in WriteCounts :
            /\ hist' = before \o Messages(k, "fallback")
            /\ noted' = (k = AllWrites)
            /\ IF k = AllWrites THEN EndQueue(<<"final">>, "ended") ELSE EndQueue(<<>>, "raised")
    BY DEF FallbackTurn
  <1>2. CASE k = AllWrites
    <2>1. Range(queue') = Range(queue) \union {"final"} \union {"done"}
      <3>1. <<"final">> \in Seq(Events) /\ EndQueue(<<"final">>, "ended")
        BY <1>1, <1>2
      <3> QED
        BY <3>1, EndQueueRange, RangeOne
    <2>2. /\ Len(hist') > 1 /\ hist'[Len(hist') - 1] = "user" /\ hist'[Len(hist')] = "fallback"
      BY <1>1, <1>2, AllMessages
    <2>3. noted'
      BY <1>1, <1>2
    <2> QED
      BY <2>1, <2>2, <2>3 DEF Whole
  <1>3. CASE k # AllWrites
    <2>1. <<>> \in Seq(Events) /\ EndQueue(<<>>, "raised")
      BY <1>1, <1>3
    <2>2. Range(queue') = Range(queue) \union {} \union {"done"}
      BY <2>1, EndQueueRange, RangeOne
    <2> QED
      BY <2>2
  <1> QED
    BY <1>2, <1>3

\* run_agent reports a whole turn, a failed one, or none.
LEMMA AgentReports ==
    ASSUME StreamInv, SavedInv, NoEarlyTurn, AgentResumes \/ AgentDeadline
    PROVE  SavedInv'
  <1>1. TypeOK /\ agent \notin Over /\ hist \in Seq(Saved)
    BY AgentQueues DEF StreamInv, WorkerInv, TypeInv, TypeOK, DataOK, Over
  <1>2. /\ "final" \notin Range(queue) /\ "error" \notin Range(queue)
        /\ "final" \notin Range(deferred) /\ "final" \notin Range(sent)
    BY <1>1, NoTerminalBefore DEF Terminals
  <1>3. UNCHANGED <<workerVars, deferred, sent, left>>
    BY AgentQueues
  <1>4. stored \subseteq stored'
    BY DEF AgentResumes, AgentAnswers, AgentRejects, AgentFails, AgentDropped, AgentDeadline
  <1> SUFFICES /\ "final" \in Range(queue') => Whole'
               /\ "error" \in Range(queue') /\ ~left' => hist' = <<>>
    BY <1>2, <1>3, <1>4 DEF SavedInv
  <1>5. CASE AgentAnswers
    <2>1. PICK k \in WriteCounts :
            /\ stored' = IF k >= 3 THEN stored \union Uncollected ELSE stored
            /\ \/ /\ hist' = hist \o Messages(k, "answer")
                  /\ noted' = (k = AllWrites)
                  /\ EndQueue(<<IF k = AllWrites THEN "final" ELSE "final_unsaved">>, "ended")
               \/ FallbackTurn(hist \o Messages(k, "answer"))
      BY <1>5 DEF AgentAnswers
    <2>2. CASE FallbackTurn(hist \o Messages(k, "answer"))
      <3>1. hist \o Messages(k, "answer") \in Seq(Saved)
        BY <1>1, MessagesType
      <3> QED
        BY <1>1, <1>2, <2>2, <3>1, FallbackIsWhole
    <2>3. CASE /\ hist' = hist \o Messages(k, "answer")
               /\ noted' = (k = AllWrites)
               /\ EndQueue(<<IF k = AllWrites THEN "final" ELSE "final_unsaved">>, "ended")
      <3> DEFINE e == IF k = AllWrites THEN "final" ELSE "final_unsaved"
      <3>1. <<e>> \in Seq(Events)
        OBVIOUS
      <3>2. Range(queue') = Range(queue) \union {e} \union {"done"}
        BY <1>1, <2>3, <3>1, EndQueueRange, RangeOne
      <3>3. CASE k # AllWrites
        BY <1>2, <3>2, <3>3
      <3>4. CASE k = AllWrites
        <4>1. Len(hist') > 1 /\ hist'[Len(hist') - 1] = "user" /\ noted'
          BY <1>1, <2>3, <3>4, AllMessages
        <4>2. stored' = stored \union (Made \ sunk)
          BY <2>1, <3>4 DEF Uncollected, AllWrites
        <4>3. Made' \subseteq stored'
          BY <1>3, <4>2 DEF SavedInv, Made
        <4>4. worker' = "returned"
          BY <1>3, <1>5 DEF AgentAnswers, StreamInv, WorkerInv, WokenByResult
        <4> QED
          BY <1>2, <3>2, <3>4, <4>1, <4>3, <4>4 DEF Whole
      <3> QED
        BY <3>3, <3>4
    <2> QED
      BY <2>1, <2>2, <2>3
  <1>6. CASE AgentRejects
    <2>1. <<"error">> \in Seq(Events) /\ EndQueue(<<"error">>, "ended") /\ hist' = hist /\ ~left
      BY <1>6 DEF AgentRejects, ClientGone
    <2>2. Range(queue') = Range(queue) \union {"error"} \union {"done"}
      BY <1>1, <2>1, EndQueueRange, RangeOne
    <2>3. hist = <<>>
      BY <1>1, <2>1 DEF NoEarlyTurn, Over
    <2> QED
      BY <1>2, <2>1, <2>2, <2>3
  <1>7. CASE FallbackTurn(hist)
    BY <1>1, <1>2, <1>7, FallbackIsWhole
  <1>8. CASE EndQueue(<<>>, "ended")
    <2>1. <<>> \in Seq(Events)
      OBVIOUS
    <2>2. Range(queue') = Range(queue) \union {} \union {"done"}
      BY <1>1, <1>8, <2>1, EndQueueRange, RangeOne
    <2> QED
      BY <1>2, <2>2
  <1> QED
    BY <1>5, <1>6, <1>7, <1>8 DEF AgentResumes, AgentFails, AgentDropped, AgentDeadline

\* No step but those of run_agent brings a terminal event into the stream.
LEMMA TerminalsMove ==
    ASSUME StreamInv, [Next]_vars, ~(AgentResumes \/ AgentDeadline)
    PROVE  /\ "final" \in Range(queue') \union Range(deferred') \union Range(sent')
                => "final" \in Range(queue) \union Range(deferred) \union Range(sent)
           /\ "error" \in Range(queue') => "error" \in Range(queue)
  <1>1. /\ TypeOK /\ queue \in Seq(QueueEvents) /\ sent \in Seq(Events \union {"start"})
        /\ deferred \in Seq(Finals)
    BY CountTypes DEF StreamInv, WorkerInv, TypeInv
  <1>2. CASE RunCallback
    <2>1. queue' \in {queue, Append(queue, "callback")} /\ UNCHANGED <<deferred, sent>>
      BY <1>2 DEF RunCallback
    <2>2. Range(Append(queue, "callback")) = Range(queue) \union {"callback"}
      <3>1. "callback" \in QueueEvents
        OBVIOUS
      <3> QED
        BY <1>1, <3>1, RangeAppend
    <2>3. CASE queue' = queue
      BY <2>1, <2>3
    <2>4. CASE queue' = Append(queue, "callback")
      <3>1. Range(queue') = Range(queue) \union {"callback"}
        BY <2>2, <2>4
      <3> QED
        BY <2>1, <3>1
    <2> QED
      BY <2>1, <2>3, <2>4
  <1>3. CASE EmitPass \/ EmitRaises
    <2> DEFINE half == queue \o NewPhases
    <2>1. queue' \in {half \o <<"graph">>, half \o <<>>, half} /\ UNCHANGED <<deferred, sent>>
      BY <1>3, EmitQueues
    <2>2. NewPhases \in Seq(QueueEvents) /\ Range(NewPhases) \subseteq {"phase"}
      BY <1>1, NewPhasesType DEF NewPhases, Range, TypeOK
    <2>3. half \in Seq(QueueEvents) /\ Range(half) = Range(queue) \union Range(NewPhases)
      BY <1>1, <2>2, RangeConcat
    <2>4. <<"graph">> \in Seq(QueueEvents) /\ <<>> \in Seq(QueueEvents)
      OBVIOUS
    <2> HIDE DEF half
    <2>5. /\ Range(half \o <<"graph">>) = Range(half) \union Range(<<"graph">>)
          /\ Range(half \o <<>>) = Range(half) \union Range(<<>>)
      <3>1. \A t \in Seq(QueueEvents) : Range(half \o t) = Range(half) \union Range(t)
        BY <2>3, RangeConcat
      <3> QED
        BY <2>4, <3>1
    <2>6. /\ Range(half \o <<"graph">>) \subseteq Range(queue) \union {"phase", "graph"}
          /\ Range(half \o <<>>) \subseteq Range(queue) \union {"phase", "graph"}
          /\ Range(half) \subseteq Range(queue) \union {"phase", "graph"}
      BY <2>2, <2>3, <2>5, RangeOne
    <2>7. Range(queue') \subseteq Range(queue) \union {"phase", "graph"}
      BY <2>1, <2>6, Zenon
    <2> QED
      BY <2>1, <2>7
  <1>4. CASE Take \/ (Drain /\ queue # <<>>)
    <2>1. queue # <<>> /\ queue' = Tail(queue)
      BY <1>1, <1>4, TakesTheHead
    <2>2. Range(queue) = {Head(queue)} \union Range(queue')
      BY <1>1, <2>1, RangeTail
    <2>3. CASE UNCHANGED <<deferred, sent>>
      BY <2>2, <2>3
    <2>4. CASE /\ Head(queue) \in Finals /\ UNCHANGED sent
               /\ deferred' = Append(deferred, Head(queue))
      <3>1. Range(deferred') = Range(deferred) \union {Head(queue)}
        BY <1>1, <2>4, RangeAppend
      <3> QED
        BY <2>2, <2>4, <3>1
    <2>5. CASE /\ Head(queue) \in {"callback", "phase", "graph", "error"} /\ UNCHANGED deferred
               /\ sent' = Append(sent, Head(queue))
      <3>1. Range(sent') = Range(sent) \union {Head(queue)}
        <4>1. Head(queue) \in Events \union {"start"}
          BY <2>5
        <4> QED
          BY <1>1, <2>5, <4>1, RangeAppend
      <3> QED
        BY <2>2, <2>5, <3>1
    <2> QED
      BY <1>1, <1>4, <2>3, <2>4, <2>5, TakesTheHead
  <1>5. CASE Drain /\ queue = <<>>
    BY <1>5 DEF Drain
  <1>6. CASE Flush
    <2>1. CASE deferred = <<>>
      BY <1>6, <2>1 DEF Flush
    <2>2. CASE deferred # <<>>
      <3>1. /\ sent' = Append(sent, Head(deferred)) /\ deferred' = Tail(deferred)
            /\ queue' = queue
        BY <1>6, <2>2 DEF Flush
      <3>2. Head(deferred) \in Events \union {"start"}
        BY <1>1, <2>2
      <3>3. Range(sent') = Range(sent) \union {Head(deferred)}
        BY <1>1, <3>1, <3>2, RangeAppend
      <3>4. Range(deferred) = {Head(deferred)} \union Range(deferred')
        BY <1>1, <2>2, <3>1, RangeTail
      <3> QED
        BY <3>1, <3>3, <3>4
    <2> QED
      BY <2>1, <2>2
  <1>7. CASE Iterate
    <2>1. sent' = <<"start">> /\ UNCHANGED <<queue, deferred>>
      BY <1>7 DEF Iterate
    <2> QED
      BY <2>1, RangeOne
  <1>8. CASE QueueIdle
    BY <1>8, QueueIdleKeeps
  <1> QED
    BY <1>2, <1>3, <1>4, <1>5, <1>6, <1>7, <1>8 DEF Next, Generator, QueueIdle

\* A whole turn stays whole: nobody writes to the history any more, and the
\* worker of an answer is over.
LEMMA WholeStays ==
    ASSUME StreamInv, Whole, [Next]_vars, ~(AgentResumes \/ AgentDeadline)
    PROVE  Whole'
  <1>1. hist # <<>>
    BY DEF Whole
  <1>2. CASE Worker
    <2>1. worker # "returned" /\ UNCHANGED <<hist, noted>>
      BY <1>2 DEF Worker, WorkerCallback, WorkerPhase, ToolEnds, SinkReturns, WorkerReturns
    <2> QED
      BY <2>1 DEF Whole
  <1>3. CASE LeaveAwaiting \/ CloseOrphan
    <2>1. UNCHANGED <<hist, stored, noted, made, worker>>
      BY <1>1, <1>3 DEF LeaveAwaiting, CloseOrphan, HangUp, SaveInterrupted
    <2> QED
      BY <2>1 DEF Whole, Made
  <1>4. CASE AgentStarts
    <2>1. UNCHANGED <<hist, stored, noted, made>> /\ worker = "idle"
      BY <1>4 DEF AgentStarts, StreamInv, WorkerInv, StartedByAgent
    <2> QED
      BY <2>1 DEF Whole, Made
  <1>5. CASE ~Worker /\ ~LeaveAwaiting /\ ~CloseOrphan /\ ~AgentStarts
    <2>1. UNCHANGED <<hist, stored, noted, made, worker>>
      BY <1>5 DEF Next, RunCallback, EmitPass, EmitRaises, Generator, Iterate, CreateTasks, Take,
           Join, Drain, Flush, Resume, Leave, LeaveAtYield, LeaveAtStart, NeverIterated,
           ConnectionFinalized
    <2> QED
      BY <2>1 DEF Whole, Made
  <1> QED
    BY <1>2, <1>3, <1>4, <1>5

\* Before the stream starts nothing is reported.
LEMMA SavedInit == Init => SavedInv
  <1> SUFFICES ASSUME Init PROVE SavedInv
    OBVIOUS
  <1>1. queue = <<>> /\ deferred = <<>> /\ sent = <<>> /\ sunk = {}
    BY DEF Init
  <1> QED
    BY <1>1, RangeOne DEF SavedInv

\* Every step keeps the invariant.
LEMMA SavedStep == StreamInv /\ NoEarlyTurn /\ SavedInv /\ [Next]_vars => SavedInv'
  <1> SUFFICES ASSUME StreamInv, NoEarlyTurn, SavedInv, [Next]_vars,
                      ~(AgentResumes \/ AgentDeadline)
               PROVE  SavedInv'
    BY AgentReports
  <1>1. sunk' \subseteq stored'
    <2>1. CASE Worker
      BY <2>1 DEF Worker, WorkerCallback, WorkerPhase, ToolEnds, SinkReturns, WorkerReturns, SavedInv
    <2>2. CASE LeaveAwaiting \/ CloseOrphan
      BY <2>2 DEF LeaveAwaiting, CloseOrphan, HangUp, SaveInterrupted, SavedInv
    <2>3. CASE ~Worker /\ ~LeaveAwaiting /\ ~CloseOrphan
      <3>1. UNCHANGED <<sunk, stored>>
        BY <2>3 DEF Next, RunCallback, AgentStarts, EmitPass, EmitRaises, Generator, Iterate,
             CreateTasks, Take, Join, Drain, Flush, Resume, Leave, LeaveAtYield, LeaveAtStart,
             NeverIterated, ConnectionFinalized
      <3> QED
        BY <3>1 DEF SavedInv
    <2> QED
      BY <2>1, <2>2, <2>3
  <1>2. left' \/ (hist' = hist /\ (left => left'))
    <2>1. CASE LeaveAwaiting \/ CloseOrphan
      BY <2>1 DEF LeaveAwaiting, CloseOrphan, HangUp
    <2>2. CASE ~LeaveAwaiting /\ ~CloseOrphan
      <3>1. UNCHANGED <<hist, left>>
        BY <2>2 DEF Next, Worker, WorkerCallback, WorkerPhase, ToolEnds, SinkReturns,
             WorkerReturns, RunCallback, AgentStarts, EmitPass, EmitRaises, Generator, Iterate,
             CreateTasks, Take, Join, Drain, Flush, Resume, Leave, LeaveAtYield, LeaveAtStart,
             NeverIterated, ConnectionFinalized
      <3> QED
        BY <3>1
    <2> QED
      BY <2>1, <2>2
  <1> QED
    BY <1>1, <1>2, TerminalsMove, WholeStays DEF SavedInv

\* run_agent writes before it is over, the generator when the client leaves.
LEMMA NoEarlyTurnStep ==
    NoTasksYet /\ NoEarlyTurn /\ [Next]_vars => NoEarlyTurn'
  <1> SUFFICES ASSUME NoTasksYet, NoEarlyTurn, [Next]_vars PROVE NoEarlyTurn'
    OBVIOUS
  <1>1. CASE AgentResumes \/ AgentDeadline
    <2>1. agent' \in Over
      BY <1>1, AgentQueues DEF Over
    <2> QED
      BY <2>1 DEF NoEarlyTurn, Over
  <1>2. CASE LeaveAwaiting \/ CloseOrphan
    BY <1>2 DEF LeaveAwaiting, CloseOrphan, HangUp, NoEarlyTurn
  <1>3. CASE CreateTasks
    BY <1>3 DEF CreateTasks, NoTasksYet, NoEarlyTurn
  <1>4. CASE RunCallback \/ AgentStarts
    BY <1>4 DEF RunCallback, AgentStarts, NoEarlyTurn
  <1>5. CASE /\ ~(AgentResumes \/ AgentDeadline) /\ ~LeaveAwaiting /\ ~CloseOrphan /\ ~CreateTasks
             /\ ~RunCallback /\ ~AgentStarts
    <2>1. UNCHANGED <<agent, left, hist>>
      BY <1>5 DEF Next, Worker, WorkerCallback, WorkerPhase, ToolEnds, SinkReturns,
           WorkerReturns, EmitPass, EmitRaises, Generator, Iterate, Take, Join, Drain, Flush,
           Resume, Leave, LeaveAtYield, LeaveAtStart, NeverIterated, ConnectionFinalized
    <2> QED
      BY <2>1 DEF NoEarlyTurn
  <1> QED
    BY <1>1, <1>2, <1>3, <1>4, <1>5

\* All that is known of the stream and of its turn.
ReportInv == StreamInv /\ NoEarlyTurn /\ SavedInv

\* The parts of the invariant keep each other.
LEMMA ReportInvariant == Spec => []ReportInv
  <1>1. Init => ReportInv
    <2>1. Init => NoEarlyTurn
      BY DEF Init, NoEarlyTurn
    <2> QED
      BY <2>1, SavedInit, WorkerInvInit, LeftMeansGoneInit, ClosingInit, CountsInit, EndingInit
         DEF ReportInv, StreamInv
  <1>2. ReportInv /\ [Next]_vars => ReportInv'
    <2> SUFFICES ASSUME ReportInv, [Next]_vars PROVE ReportInv'
      OBVIOUS
    <2>1. StreamInv'
      BY StreamStep DEF ReportInv
    <2>2. NoEarlyTurn' /\ SavedInv'
      BY NoEarlyTurnStep, SavedStep DEF ReportInv, StreamInv, WorkerInv
    <2> QED
      BY <2>1, <2>2 DEF ReportInv
  <1> QED
    BY <1>1, <1>2, PTL DEF Spec

\* A final event that is not marked says that the whole turn is in the
\* session, with the artifacts of an answer.
THEOREM FinalsAreSaved == Spec => []FinalIsSaved
  <1>1. ReportInv => FinalIsSaved
    BY DEF ReportInv, SavedInv, Whole, FinalIsSaved
  <1> QED
    BY <1>1, ReportInvariant, PTL

-----------------------------------------------------------------------------
(* The contract                                                            *)

\* The refinement mapping of Contract, by name.
Link == IF left THEN "left" ELSE IF gen \in Closed THEN "ended" ELSE "open"
ReplySeen ==
    IF "final" \in Range(sent) THEN "final"
    ELSE IF "final_unsaved" \in Range(sent) THEN "unsaved"
    ELSE IF "error" \in Range(sent) THEN "error" ELSE "none"

\* What k writes leave of a turn is what the contract lets an answer write.
LEMMA MessagesAreWritten ==
    ASSUME NEW k \in WriteCounts, NEW a \in {"answer", "fallback", "interrupted"}
    PROVE  Messages(k, a) \in Contract!Written(a) /\ (k = 0 => Messages(k, a) = <<>>)
  <1>1. <<"user", a>> \in Seq({"user", a}) /\ Len(<<"user", a>>) = 2
        /\ <<"user", a>>[1] = "user"
    OBVIOUS
  <1>2. \A s \in Seq({"user", a}) : Len(s) = 2 =>
           SubSeq(s, 1, 2) = s /\ SubSeq(s, 1, 1) = <<s[1]>> /\ SubSeq(s, 1, 0) = <<>>
    <2> SUFFICES ASSUME NEW s \in Seq({"user", a}), Len(s) = 2
                 PROVE  SubSeq(s, 1, 2) = s /\ SubSeq(s, 1, 1) = <<s[1]>>
                        /\ SubSeq(s, 1, 0) = <<>>
      OBVIOUS
    <2>1. SubSeq(s, 1, 2) = s
      OBVIOUS
    <2>2. SubSeq(s, 1, 1) = <<s[1]>>
      <3>1. /\ SubSeq(s, 1, 1) \in Seq({"user", a})
            /\ Len(SubSeq(s, 1, 1)) = 1
            /\ SubSeq(s, 1, 1)[1] = s[1]
        OBVIOUS
      <3>2. \A r \in Seq({"user", a}) : Len(r) = 1 => r = <<r[1]>>
        OBVIOUS
      <3> QED
        BY <3>1, <3>2
    <2>3. SubSeq(s, 1, 0) = <<>>
      <3>1. SubSeq(s, 1, 0) \in Seq({"user", a}) /\ Len(SubSeq(s, 1, 0)) = 0
        OBVIOUS
      <3>2. \A r \in Seq({"user", a}) : Len(r) = 0 => r = <<>>
        OBVIOUS
      <3> QED
        BY <3>1, <3>2
    <2> QED
      BY <2>1, <2>2, <2>3
  <1>3. (IF k < 2 THEN k ELSE 2) \in {0, 1, 2} /\ (k = 0 => (IF k < 2 THEN k ELSE 2) = 0)
    BY DEF WriteCounts, AllWrites
  <1>4. /\ SubSeq(<<"user", a>>, 1, 2) = <<"user", a>>
        /\ SubSeq(<<"user", a>>, 1, 1) = <<"user">>
        /\ SubSeq(<<"user", a>>, 1, 0) = <<>>
    BY <1>1, <1>2
  <1> DEFINE n == IF k < 2 THEN k ELSE 2
  <1>5. Messages(k, a) = SubSeq(<<"user", a>>, 1, n)
    BY DEF Messages
  <1>6. n \in {0, 1, 2} /\ (k = 0 => n = 0)
    BY <1>3
  <1> HIDE DEF n
  <1>7. Messages(k, a) \in {<<"user", a>>, <<"user">>, <<>>} /\ (k = 0 => Messages(k, a) = <<>>)
    BY <1>4, <1>5, <1>6
  <1> QED
    BY <1>7, Zenon DEF Contract!Written

\* What the client has seen changes only with a terminal event.
LEMMA ReplyFollowsTerminals ==
    ASSUME Range(sent') \intersect Terminals = Range(sent) \intersect Terminals
    PROVE  ReplySeen' = ReplySeen
  BY DEF ReplySeen, Terminals

\* run_agent writes a turn of an open stream, and changes nothing the
\* contract sees when the client has gone.
LEMMA AgentSavesTurn ==
    ASSUME ReportInv, AgentResumes \/ AgentDeadline, "build" \notin Faults
    PROVE  /\ Link' = Link /\ ReplySeen' = ReplySeen
           /\ \/ hist' = hist
              \/ /\ Link = "open" /\ hist = <<>>
                 /\ \E a \in {"answer", "fallback"} : hist' \in Contract!Written(a)
  <1>1. UNCHANGED <<gen, left, sent>> /\ agent \notin Over
    BY AgentQueues DEF Over
  <1>2. Link' = Link /\ ReplySeen' = ReplySeen
    BY <1>1 DEF Link, ReplySeen, Range
  <1>3. CASE left
    <2>1. [Next]_vars /\ LeftMeansGone
      BY DEF Next, ReportInv, StreamInv
    <2> QED
      BY <1>2, <1>3, <2>1, LeftIsSilent
  <1>4. CASE ~left
    <2>1. Link = "open" /\ hist = <<>>
      BY <1>1, <1>4 DEF Link, ReportInv, NoEarlyTurn, StreamInv, WorkerInv, DoneIsLast, NoTasksYet,
                        LeftMeansGone, AgentResumes, AgentAnswers, AgentRejects, AgentFails,
                        AgentDropped, AgentDeadline, Over
    <2>2. ASSUME NEW k \in WriteCounts, NEW a \in {"answer", "fallback"}
          PROVE  <<>> \o Messages(k, a) \in Contract!Written(a)
      BY MessagesAreWritten, MessagesAreOneTurn
    <2>3. ASSUME FallbackTurn(<<>>) PROVE hist' \in Contract!Written("fallback")
      BY <2>2, <2>3 DEF FallbackTurn
    <2>4. CASE AgentAnswers
      <3>1. PICK k \in WriteCounts :
              \/ hist' = hist \o Messages(k, "answer")
              \/ k = 0 /\ FallbackTurn(hist \o Messages(k, "answer"))
        BY <2>4 DEF AgentAnswers
      <3>2. CASE hist' = hist \o Messages(k, "answer")
        <4>1. hist' \in Contract!Written("answer")
          BY <2>1, <2>2, <3>2
        <4> QED
          BY <1>2, <2>1, <4>1
      <3>3. CASE k = 0 /\ FallbackTurn(hist \o Messages(k, "answer"))
        <4>1. Messages(k, "answer") = <<>>
          BY <3>3, MessagesAreWritten
        <4>2. hist \o Messages(k, "answer") = <<>>
          BY <2>1, <4>1
        <4>3. hist' \in Contract!Written("fallback")
          BY <2>3, <3>3, <4>2
        <4> QED
          BY <1>2, <2>1, <4>3
      <3> QED
        BY <3>1, <3>2, <3>3
    <2>5. CASE AgentRejects \/ AgentDropped
      BY <1>2, <2>5 DEF AgentRejects, AgentDropped
    <2>6. CASE AgentFails
      <3>1. hist' \in Contract!Written("fallback")
        BY <2>1, <2>3, <2>6 DEF AgentFails
      <3> QED
        BY <1>2, <2>1, <3>1
    <2>7. CASE AgentDeadline
      <3>1. hist' \in Contract!Written("fallback")
        BY <1>4, <2>1, <2>3, <2>7 DEF AgentDeadline, ClientGone
      <3> QED
        BY <1>2, <2>1, <3>1
    <2> QED
      BY <2>4, <2>5, <2>6, <2>7 DEF AgentResumes
  <1> QED
    BY <1>3, <1>4

\* A taken event is a reply of the contract if it is an error, and nothing to
\* it otherwise.
LEMMA TakeReplies ==
    ASSUME ReportInv, Take \/ (Drain /\ queue # <<>>)
    PROVE  /\ hist' = hist /\ Link' = "open" /\ Link = "open"
           /\ \/ ReplySeen' = ReplySeen
              \/ ReplySeen = "none" /\ ReplySeen' = "error" /\ hist = <<>>
  <1>1. /\ TypeOK /\ queue \in Seq(QueueEvents) /\ sent \in Seq(Events \union {"start"})
    BY CountTypes DEF ReportInv, StreamInv, WorkerInv, TypeInv
  <1>2. /\ queue # <<>> /\ queue' = Tail(queue) /\ hist' = hist /\ left' = left
        /\ gen \in {"getting", "draining"}
        /\ gen' \in {"getting", "draining", "joining", "atYield", "drainYield"}
    BY <1>1, TakesTheHead
  <1>3. ~left /\ Link = "open" /\ Link' = "open"
    BY <1>2 DEF Link, ReportInv, StreamInv, LeftMeansGone
  <1>4. CASE sent' = sent
    BY <1>2, <1>3, <1>4 DEF ReplySeen, Range
  <1>5. CASE /\ Head(queue) \in {"callback", "phase", "graph", "error"}
             /\ sent' = Append(sent, Head(queue))
    <2>1. Range(sent') = Range(sent) \union {Head(queue)}
      <3>1. Head(queue) \in Events \union {"start"}
        BY <1>5
      <3> QED
        BY <1>1, <1>5, <3>1, RangeAppend
    <2>2. CASE Head(queue) # "error"
      <3>1. Range(sent') \intersect Terminals = Range(sent) \intersect Terminals
        BY <1>5, <2>1, <2>2 DEF Terminals
      <3> QED
        BY <1>2, <1>3, <3>1, ReplyFollowsTerminals
    <2>3. CASE Head(queue) = "error"
      <3>1. "error" \in Range(queue)
        <4>1. Range(queue) = {Head(queue)} \union Range(Tail(queue))
          BY <1>1, <1>2, RangeTail
        <4> QED
          BY <2>3, <4>1
      <3>2. hist = <<>>
        BY <1>3, <3>1 DEF ReportInv, SavedInv
      <3>3. CountIn(Terminals, queue) # 0
        <4>1. 1 \in DOMAIN queue /\ queue[1] \in Terminals
          BY <1>1, <1>2, <2>3 DEF Terminals
        <4> QED
          BY <1>1, <4>1, CountIsNat
      <3>4. CountIn(Terminals, sent) = 0
        <4>1. /\ CountIn(Terminals, queue) \in Nat /\ CountIn(Terminals, sent) \in Nat
              /\ Len(deferred) \in Nat
          BY <1>1, CountTypes
        <4>2. Pending <= 1
          BY DEF ReportInv, StreamInv, EndingInv
        <4>3. \A a, b, c \in Nat : a # 0 /\ a + b + c <= 1 => c = 0
          OBVIOUS
        <4> QED
          BY <3>3, <4>1, <4>2, <4>3, Zenon DEF Pending
      <3>5. \A i \in DOMAIN sent : sent[i] \notin Terminals
        BY <1>1, <3>4, CountIsNat
      <3>6. Range(sent) \intersect Terminals = {}
        BY <3>5 DEF Range
      <3>7. ReplySeen = "none" /\ ReplySeen' = "error"
        BY <2>1, <2>3, <3>6 DEF ReplySeen, Terminals
      <3> QED
        BY <1>2, <1>3, <3>2, <3>7
    <2> QED
      BY <2>2, <2>3
  <1> QED
    BY <1>1, <1>4, <1>5, TakesTheHead

\* The final event is the one reply; without it the response ends.
LEMMA FlushReplies ==
    ASSUME ReportInv, OneTurn, Flush
    PROVE  /\ hist' = hist /\ Link = "open"
           /\ \/ ReplySeen' = ReplySeen /\ Link' = "ended"
              \/ /\ ReplySeen = "none" /\ Link' = "open"
                 /\ \/ ReplySeen' = "final" /\ Len(hist) = 2
                    \/ ReplySeen' = "unsaved"
  <1>1. /\ TypeOK /\ deferred \in Seq(Finals) /\ sent \in Seq(Events \union {"start"})
    BY CountTypes DEF ReportInv, StreamInv, WorkerInv, TypeInv
  <1>2. gen = "flushing" /\ hist' = hist /\ left' = left /\ ~left
    BY DEF Flush, ReportInv, StreamInv, LeftMeansGone
  <1>3. Link = "open"
    BY <1>2 DEF Link
  <1>4. CASE deferred = <<>>
    <2>1. sent' = sent /\ gen' \in {"failed", "completed"}
      BY <1>4 DEF Flush, Close
    <2> QED
      BY <1>2, <1>3, <2>1 DEF Link, ReplySeen, Range
  <1>5. CASE deferred # <<>>
    <2> DEFINE e == Head(deferred)
    <2>1. gen' = "finalYield" /\ sent' = Append(sent, e) /\ e \in Finals
      BY <1>1, <1>5 DEF Flush
    <2>2. Range(sent') = Range(sent) \union {e}
      <3>1. e \in Events \union {"start"}
        BY <2>1
      <3> QED
        BY <1>1, <2>1, <3>1, RangeAppend
    <2>3. CountIn(Terminals, sent) = 0
      <3>1. /\ CountIn(Terminals, queue) \in Nat /\ CountIn(Terminals, sent) \in Nat
            /\ Len(deferred) \in Nat /\ Len(deferred) # 0
        BY <1>1, <1>5, CountTypes
      <3>2. Pending <= 1
        BY DEF ReportInv, StreamInv, EndingInv
      <3>3. \A a, b, c \in Nat : b # 0 /\ a + b + c <= 1 => c = 0
        OBVIOUS
      <3> QED
        BY <3>1, <3>2, <3>3, Zenon DEF Pending
    <2>4. Range(sent) \intersect Terminals = {}
      <3>1. \A i \in DOMAIN sent : sent[i] \notin Terminals
        BY <1>1, <2>3, CountIsNat
      <3> QED
        BY <3>1 DEF Range
    <2>5. ReplySeen = "none" /\ ReplySeen' = IF e = "final" THEN "final" ELSE "unsaved"
      BY <2>1, <2>2, <2>4 DEF ReplySeen, Terminals
    <2>6. Link' = "open"
      BY <1>2, <2>1 DEF Link
    <2>7. e = "final" => Len(hist) = 2
      <3> SUFFICES ASSUME e = "final" PROVE Len(hist) = 2
        OBVIOUS
      <3>1. "final" \in Range(deferred)
        <4>1. Range(deferred) = {e} \union Range(Tail(deferred))
          BY <1>1, <1>5, RangeTail
        <4> QED
          BY <4>1
      <3>2. Len(hist) > 1
        BY <3>1 DEF ReportInv, SavedInv, Whole
      <3>3. Len(hist) <= 2
        <4>1. PICK a \in {"answer", "fallback", "interrupted"}, k \in 0..2 :
                hist = SubSeq(<<"user", a>>, 1, k)
          BY DEF OneTurn
        <4>2. <<"user", a>> \in Seq({"user", a}) /\ Len(<<"user", a>>) = 2
          OBVIOUS
        <4>3. \A s \in Seq({"user", a}) : Len(s) = 2 => Len(SubSeq(s, 1, k)) = k
          OBVIOUS
        <4>4. Len(hist) = k
          BY <4>1, <4>2, <4>3
        <4> QED
          BY <4>4
      <3>4. Len(hist) \in Nat
        BY <1>1 DEF TypeOK, DataOK
      <3>5. \A n \in Nat : n > 1 /\ n <= 2 => n = 2
        OBVIOUS
      <3> QED
        BY <3>2, <3>3, <3>4, <3>5, Zenon
    <2> QED
      BY <1>2, <1>3, <2>1, <2>5, <2>6, <2>7
  <1> QED
    BY <1>4, <1>5

\* The client leaves, or the stream is closed before it starts or fails.
LEMMA LeaveIsLeave ==
    ASSUME ReportInv, QueueIdle
    PROVE  /\ ReplySeen' = ReplySeen
           /\ \/ UNCHANGED hist /\ Link' = Link
              \/ UNCHANGED hist /\ Link = "open" /\ Link' = "ended"
              \/ /\ Link = "open" /\ Link' = "left"
                 /\ hist' = hist \/ (hist = <<>> /\ hist' \in Contract!Written("interrupted"))
  <1>1. ReplySeen' = ReplySeen
    BY QueueIdleKeeps DEF ReplySeen, Range
  <1>2. CASE LeaveAwaiting \/ CloseOrphan
    <2>1. Link = "open" /\ Link' = "left"
      BY <1>2 DEF LeaveAwaiting, CloseOrphan, HangUp, Close, Link, ReportInv, StreamInv, LeftMeansGone
    <2>2. hist' = hist \/ (hist = <<>> /\ \E k \in WriteCounts : hist' = Messages(k, "interrupted"))
      BY <1>2 DEF LeaveAwaiting, CloseOrphan, HangUp, SaveInterrupted
    <2> QED
      BY <1>1, <2>1, <2>2, MessagesAreWritten
  <1>3. CASE Worker \/ AgentStarts \/ UNCHANGED vars
    <2>1. UNCHANGED <<hist, gen, left>>
      BY <1>3 DEF Worker, WorkerCallback, WorkerPhase, ToolEnds, SinkReturns, WorkerReturns,
           AgentStarts
    <2> QED
      BY <1>1, <2>1 DEF Link
  <1>4. CASE CreateTasks \/ Join \/ Resume \/ ConnectionFinalized \/ LeaveAtYield \/ LeaveAtStart
              \/ NeverIterated
    BY <1>1, <1>4 DEF CreateTasks, Join, Resume, ConnectionFinalized, LeaveAtYield, LeaveAtStart,
         NeverIterated, Close, Link, ReportInv, StreamInv, LeftMeansGone
  <1> QED
    BY <1>2, <1>3, <1>4 DEF QueueIdle, Leave

\* Every step is a step of the contract or leaves it alone.
LEMMA ContractStep ==
    ASSUME ReportInv, OneTurn, [Next]_vars, "build" \notin Faults
    PROVE  [Contract!Next]_(Contract!contractVars)
  <1> DEFINE Same == hist' = hist /\ Link' = Link /\ ReplySeen' = ReplySeen
  <1>1. ASSUME NEW a \in {"answer", "fallback"}, hist' \in Contract!Written(a), hist = <<>>,
               Link = "open", Link' = Link, ReplySeen' = ReplySeen
        PROVE  Contract!Next
    BY <1>1 DEF Contract!Next, Contract!SaveTurn, Contract!Answers, Link, ReplySeen
  <1>2. ASSUME hist' = hist, Link = "open", Link' = "open", ReplySeen = "none",
               \/ ReplySeen' = "final" /\ Len(hist) = 2
               \/ ReplySeen' = "unsaved"
               \/ ReplySeen' = "error" /\ hist = <<>>
        PROVE  Contract!Next
    BY <1>2 DEF Contract!Next, Contract!Reply, Link, ReplySeen
  <1>3. ASSUME hist' = hist, Link = "open", Link' = "ended", ReplySeen' = ReplySeen
        PROVE  Contract!Next
    BY <1>3 DEF Contract!Next, Contract!End, Link, ReplySeen
  <1>4. ASSUME Link = "open", Link' = "left", ReplySeen' = ReplySeen,
               hist' = hist \/ (hist = <<>> /\ hist' \in Contract!Written("interrupted"))
        PROVE  Contract!Next
    <2>1. <<>> \in Contract!Written("interrupted")
      BY DEF Contract!Written
    <2> QED
      BY <1>4, <2>1 DEF Contract!Next, Contract!Leave, Link, ReplySeen
  <1>5. ASSUME Same PROVE UNCHANGED Contract!contractVars
    BY <1>5 DEF Contract!contractVars, Link, ReplySeen
  <1> HIDE DEF Same
  <1>6. CASE AgentResumes \/ AgentDeadline
    BY <1>1, <1>5, <1>6, AgentSavesTurn DEF Same
  <1>7. CASE Take \/ (Drain /\ queue # <<>>)
    BY <1>2, <1>5, <1>7, TakeReplies DEF Same
  <1>8. CASE Flush
    BY <1>2, <1>3, <1>8, FlushReplies
  <1>9. CASE QueueIdle
    BY <1>3, <1>4, <1>5, <1>9, LeaveIsLeave DEF Same
  <1>10. CASE RunCallback \/ EmitPass \/ EmitRaises
    <2>1. UNCHANGED <<hist, left, gen, sent>>
      BY <1>10 DEF RunCallback, EmitPass, EmitRaises
    <2> QED
      BY <1>5, <2>1 DEF Same, Link, ReplySeen, Range
  <1>11. CASE Drain /\ queue = <<>>
    <2>1. UNCHANGED <<hist, left, sent>> /\ gen = "draining" /\ gen' = "flushing"
      BY <1>11 DEF Drain
    <2> QED
      BY <1>5, <2>1 DEF Same, Link, ReplySeen, Range
  <1>12. CASE Iterate
    <2>1. UNCHANGED <<hist, left>> /\ gen = "created" /\ gen' = "atStart" /\ sent' = <<"start">>
          /\ sent = <<>>
      BY <1>12 DEF Iterate, ReportInv, StreamInv, ClosingInv
    <2>2. Range(sent') = {"start"} /\ Range(sent) = {}
      BY <2>1, RangeOne
    <2>3. ReplySeen' = ReplySeen
      BY <2>2, ReplyFollowsTerminals DEF Terminals
    <2> QED
      BY <1>5, <2>1, <2>3 DEF Same, Link
  <1> QED
    BY <1>6, <1>7, <1>8, <1>9, <1>10, <1>11, <1>12 DEF Next, Generator, QueueIdle

\* Unless building the response raises after its turn was saved, a stream
\* keeps the contract: its turn, its one reply and its end are those of
\* StreamContract, whatever its tasks and its client do in which order.
THEOREM StreamsKeepTheContract ==
    ASSUME "build" \notin Faults
    PROVE  Spec => ImplementsContract
  <1>1. Init => Contract!Init
    <2> SUFFICES ASSUME Init PROVE Contract!Init
      OBVIOUS
    <2>1. ~left /\ gen = "created" /\ sent = <<>> /\ hist = <<>>
      BY DEF Init
    <2>2. Range(sent) = {}
      BY <2>1, RangeOne
    <2> QED
      BY <2>1, <2>2 DEF Contract!Init
  <1>2. ReportInv /\ OneTurn /\ [Next]_vars => [Contract!Next]_(Contract!contractVars)
    BY ContractStep
  <1>3. Spec => []OneTurn
    BY AtMostOneTurn
  <1> QED
    BY <1>1, <1>2, <1>3, ReportInvariant, PTL DEF Spec, ImplementsContract, Contract!Spec
=============================================================================
