--------------------------- MODULE ToolLoopProofs ---------------------------
(***************************************************************************)
(* Theorems about ToolLoop, for every limit and every set of results, and  *)
(* about ToolBatch, the calls it dispatches, for any number of calls, any   *)
(* tools and any outcomes of theirs.                                       *)
(***************************************************************************)
EXTENDS ToolLoop, ToolBatch, FiniteSetTheorems, SequenceTheorems, WellFoundedInduction, TLAPS

-----------------------------------------------------------------------------
(* Counting results                                                        *)

\* How often a result has been seen is a number.
LEMMA TallyType ==
    ASSUME TypeOK, NEW n \in Nat, NEW results \in [1..n -> Observations],
           NEW k \in Nat, NEW o \in Observations
    PROVE  Tally(results, k, o) \in Nat
  <1> DEFINE seen == { i \in DOMAIN results : i <= k /\ results[i] = o }
  <1>1. IsFiniteSet(1..n)
    BY FS_Interval
  <1>2. IsFiniteSet(seen)
    BY <1>1, FS_Subset
  <1>3. Cardinality(seen) \in Nat
    BY <1>2, FS_CardinalityType
  <1> QED
    BY <1>3 DEF Tally, TypeOK

\* A nonempty set of indexes has a last one.
LEMMA LastIndex ==
    ASSUME NEW k \in Nat, NEW S \in SUBSET (1..k), S # {}
    PROVE  \E i \in S : \A j \in S : j <= i
  <1> DEFINE T == { k - i : i \in S }
  <1>1. T \subseteq Nat
    <2> SUFFICES ASSUME NEW i \in S PROVE k - i \in Nat
      OBVIOUS
    <2>1. i \in 1..k
      OBVIOUS
    <2> QED
      BY <2>1
  <1>2. \E x \in T : \A y \in T : ~(<<y, x>> \in OpToRel(<, Nat))
    <2>1. T # {}
      OBVIOUS
    <2> HIDE DEF T
    <2> QED
      BY <1>1, <2>1, NatLessThanWellFounded, WFMin
  <1>3. PICK x \in T : \A y \in T : ~(y < x)
    BY <1>1, <1>2 DEF OpToRel
  <1>4. PICK i \in S : x = k - i
    OBVIOUS
  <1>5. ASSUME NEW j \in S PROVE j <= i
    <2>1. ~(k - j < k - i)
      BY <1>3, <1>4
    <2>2. i \in 1..k /\ j \in 1..k
      OBVIOUS
    <2> QED
      BY <2>1, <2>2
  <1> QED
    BY <1>5

\* If no result of a batch was one too many, none has been seen that often.
LEMMA TallyStaysBelow ==
    ASSUME TypeOK, NEW n \in Nat, NEW results \in [1..n -> Observations],
           NEW k \in 1..n, NEW o \in Observations,
           counts[o] < RepeatLimit, \A i \in 1..k : ~Repeats(results, i)
    PROVE  Tally(results, k, o) < RepeatLimit
  <1> DEFINE seen == { i \in 1..k : results[i] = o }
             counted == { i \in DOMAIN results : i <= k /\ results[i] = o }
  <1>1. counts[o] \in Nat
    BY DEF TypeOK
  <1>2. CASE seen = {}
    <2>1. counted = {}
      BY <1>2
    <2>2. Cardinality(counted) = 0
      BY <2>1, FS_EmptySet, Zenon
    <2>3. Tally(results, k, o) = counts[o] + 0
      BY <2>2 DEF Tally
    <2> QED
      BY <1>1, <2>3
  <1>3. CASE seen # {}
    <2>1. seen \in SUBSET (1..k) /\ k \in Nat
      OBVIOUS
    <2>2. PICK i \in seen : \A j \in seen : j <= i
      <3> HIDE DEF seen
      <3> QED
        BY <1>3, <2>1, LastIndex
    <2>3. { j \in DOMAIN results : j <= i /\ results[j] = o } = counted
      BY <2>2
    <2>4. Tally(results, i, results[i]) = Tally(results, k, o)
      BY <2>2, <2>3 DEF Tally
    <2>5. Tally(results, k, o) \in Nat
      BY TallyType
    <2>6. ~Repeats(results, i)
      BY <2>2
    <2> QED
      BY <2>4, <2>5, <2>6 DEF Repeats, RepeatLimit
  <1> QED
    BY <1>2, <1>3

-----------------------------------------------------------------------------
(* The invariant                                                           *)

\* The batch that is being run is the last exchange, still unanswered, and
\* those before it are complete.
LastIsOpen ==
    /\ exchange # <<>>
    /\ Last(exchange).answered = 0
    /\ \A i \in DOMAIN exchange : i < Len(exchange) => Complete(exchange[i])

InLoop == {"top", "model", "dispatch", "tools"}

\* What holds at each place of the loop; a summary follows a repetition or the
\* last iteration.
IInv ==
    /\ TypeOK
    /\ pc \in {"top", "model"} => WellFormed
    /\ pc \in {"dispatch", "tools"} => LastIsOpen
    /\ NoFourthRepeat
    /\ pc \in InLoop => ran = counts
    /\ pc \in InLoop => status = "success"
    /\ pc = "summary" =>
         /\ status \in {"partial", "failed"}
         /\ status = "partial" =>
                \E o \in Observations : o.failed /\ counts[o] >= RepeatLimit
    /\ OutcomeIsHonest

\* The loop starts with nothing shown, seen or made.
LEMMA IInvInit == Init => IInv
  <1> SUFFICES ASSUME Init PROVE IInv
    OBVIOUS
  <1>1. TypeOK
    <2>1. 0 \in 0..MaxIterations
      BY LimitsAssumption
    <2>2. <<>> \in Seq(Exchanges)
      OBVIOUS
    <2>3. [o \in Observations |-> 0] \in [Observations -> Nat]
      OBVIOUS
    <2> QED
      BY <2>1, <2>2, <2>3 DEF Init, TypeOK, Statuses
  <1>2. WellFormed
    BY DEF Init, WellFormed
  <1>3. 0 <= RepeatLimit - 1 + MaxToolsPerCycle
    BY LimitsAssumption DEF RepeatLimit
  <1> QED
    BY <1>1, <1>2, <1>3 DEF Init, IInv, NoFourthRepeat, OutcomeIsHonest, InLoop, RepeatLimit

\* Trimming keeps exchanges of the turn, and complete ones complete.
LEMMA TrimmedType ==
    ASSUME exchange \in Seq(Exchanges), WellFormed, NEW kept \in Trimmed
    PROVE  kept \in Seq(Exchanges) /\ \A i \in DOMAIN kept : Complete(kept[i])
  <1>1. CASE kept = exchange
    BY <1>1 DEF WellFormed
  <1>2. CASE kept = <<>>
    BY <1>2
  <1>3. CASE kept \in Whole
    <2> DEFINE complete == { i \in DOMAIN exchange : Complete(exchange[i]) }
    <2>1. PICK f \in [1..Cardinality(complete) -> complete] :
              kept = [i \in DOMAIN f |-> exchange[f[i]]]
      BY <1>3 DEF Whole
    <2>2. IsFiniteSet(complete)
      <3>1. IsFiniteSet(DOMAIN exchange)
        BY FS_Interval
      <3> QED
        BY <3>1, FS_Subset
    <2>3. Cardinality(complete) \in Nat
      BY <2>2, FS_CardinalityType
    <2> HIDE DEF complete
    <2>4. DOMAIN kept = 1..Cardinality(complete)
      BY <2>1
    <2>5. \A i \in DOMAIN kept : kept[i] \in Exchanges /\ Complete(kept[i])
      BY <2>1 DEF complete
    <2>6. kept = [i \in 1..Cardinality(complete) |-> kept[i]]
      BY <2>1
    <2> QED
      BY <2>3, <2>4, <2>5, <2>6
  <1> QED
    BY <1>1, <1>2, <1>3 DEF Trimmed

\* A batch has as many calls as its message, or as a cycle allows.
LEMMA BatchType ==
    ASSUME exchange \in Seq(Exchanges), exchange # <<>>
    PROVE  /\ Batch \in 1..Last(exchange).calls
           /\ Last(exchange) \in Exchanges
  <1>1. Last(exchange) \in Exchanges
    BY DEF Last
  <1> QED
    BY <1>1, LimitsAssumption DEF Batch, Exchanges

\* A batch produces no result more often than it has calls.
LEMMA ProducedInBatch ==
    ASSUME NEW n \in Nat, NEW results \in [1..n -> Observations], NEW o \in Observations
    PROVE  Produced(results, o) \in 0..n
  <1>1. IsFiniteSet(1..n) /\ Cardinality(1..n) = n
    BY FS_Interval
  <1>2. { i \in DOMAIN results : results[i] = o } \subseteq 1..n
    OBVIOUS
  <1> QED
    BY <1>1, <1>2, FS_Subset, FS_CardinalityType DEF Produced

\* Reading the results of a batch ends it: the loop goes on with its exchange
\* complete and no result seen too often, or with a summary.
LEMMA FinishToolsStep ==
    ASSUME IInv, NEW results \in [1..Batch -> Observations], FinishTools(results)
    PROVE  IInv'
  <1> USE DEF RepeatLimit
  <1>1. pc = "tools" /\ LastIsOpen /\ TypeOK
    BY DEF FinishTools, IInv
  <1> DEFINE last == Last(exchange)
  <1>2. Batch \in 1..last.calls /\ last \in Exchanges /\ Len(exchange) \in Nat \ {0}
    BY <1>1, BatchType DEF TypeOK, LastIsOpen
  <1>3. Batch \in Nat /\ last.calls \in 1..MaxCalls /\ MaxCalls \in Nat
    BY <1>2, LimitsAssumption DEF Exchanges
  <1>4. PICK k \in ReadUpTo(results) :
            /\ counts' = [o \in Observations |-> Tally(results, k, o)]
            /\ exchange' = [exchange EXCEPT ![Len(exchange)].answered = k + Skipped(last.calls)]
            /\ IF Repeats(results, k)
               THEN pc' = "summary" /\ status' = IF results[k].failed THEN "partial" ELSE "failed"
               ELSE pc' = "top" /\ UNCHANGED status
    BY DEF FinishTools
  <1>5. k \in 1..Batch /\ (k = Batch \/ Repeats(results, k))
        /\ \A i \in 1..(k - 1) : ~Repeats(results, i)
    <2>1. Len(results) = Batch
      BY <1>3
    <2> QED
      BY <2>1 DEF ReadUpTo
  <1>6. counts' \in [Observations -> Nat]
    <2>1. k \in Nat
      BY <1>3, <1>5
    <2>2. \A o \in Observations : Tally(results, k, o) \in Nat
      BY <1>1, <1>3, <2>1, TallyType
    <2> QED
      BY <1>4, <2>2
  <1>7. exchange' \in Seq(Exchanges) /\ Len(exchange') = Len(exchange)
        /\ exchange'[Len(exchange)] = [last EXCEPT !.answered = k + Skipped(last.calls)]
        /\ \A i \in DOMAIN exchange : i < Len(exchange) => exchange'[i] = exchange[i]
    <2>1. k + Skipped(last.calls) \in 0..last.calls
      BY <1>2, <1>3, <1>5 DEF Skipped
    <2>2. [last EXCEPT !.answered = k + Skipped(last.calls)] \in Exchanges
      <3> DEFINE n == k + Skipped(last.calls)
      <3>1. n \in 0..MaxCalls /\ n <= last.calls
        BY <1>3, <2>1
      <3> HIDE DEF last, n
      <3>2. last \in [calls : 1..MaxCalls, answered : 0..MaxCalls]
        BY <1>2 DEF Exchanges
      <3>3. [last EXCEPT !.answered = n] \in [calls : 1..MaxCalls, answered : 0..MaxCalls]
            /\ [last EXCEPT !.answered = n].calls = last.calls
            /\ [last EXCEPT !.answered = n].answered = n
        BY <3>1, <3>2
      <3>4. [last EXCEPT !.answered = n] \in Exchanges
        BY <3>1, <3>3 DEF Exchanges
      <3> QED
        BY <3>4 DEF n
    <2>3. exchange' = [exchange EXCEPT ![Len(exchange)] =
                          [last EXCEPT !.answered = k + Skipped(last.calls)]]
      BY <1>4 DEF Last
    <2> HIDE DEF last
    <2> QED
      BY <1>1, <1>2, <2>2, <2>3 DEF TypeOK
  <1>11. ran' = [o \in Observations |-> ran[o] + Produced(results, o)]
    BY DEF FinishTools
  <1>12. \A o \in Observations : Produced(results, o) \in 0..Batch
    BY <1>3, ProducedInBatch
  <1>13. ran' \in [Observations -> Nat]
    BY <1>1, <1>3, <1>11, <1>12 DEF TypeOK
  <1>14. \A o \in Observations : ran'[o] <= RepeatLimit - 1 + MaxToolsPerCycle
    <2> SUFFICES ASSUME NEW o \in Observations
                 PROVE  ran'[o] <= RepeatLimit - 1 + MaxToolsPerCycle
      OBVIOUS
    <2>1. ran[o] = counts[o] /\ counts[o] < RepeatLimit /\ ran[o] \in Nat
      BY <1>1 DEF IInv, NoFourthRepeat, InLoop, TypeOK
    <2>2. Batch <= MaxToolsPerCycle /\ MaxToolsPerCycle \in Nat
      BY <1>3, LimitsAssumption DEF Batch
    <2>3. Produced(results, o) \in 0..Batch /\ ran'[o] = ran[o] + Produced(results, o)
      BY <1>11, <1>12
    <2> QED
      BY <1>3, <2>1, <2>2, <2>3
  <1>8. TypeOK'
    BY <1>1, <1>4, <1>6, <1>7, <1>13 DEF TypeOK, FinishTools, Statuses
  <1>9. CASE Repeats(results, k)
    <2>1. pc' = "summary"
      BY <1>4, <1>9
    <2>2. counts'[results[k]] >= RepeatLimit /\ results[k] \in Observations
      BY <1>3, <1>4, <1>5, <1>9 DEF Repeats
    <2>3. status' \in {"partial", "failed"} /\ (status' = "partial" => results[k].failed)
      BY <1>4, <1>9
    <2> QED
      BY <1>8, <1>14, <2>1, <2>2, <2>3 DEF IInv, NoFourthRepeat, OutcomeIsHonest, InLoop
  <1>10. CASE ~Repeats(results, k)
    <2>1. pc' = "top" /\ status' = status /\ k = Batch
      BY <1>4, <1>5, <1>10
    <2>2. \A i \in 1..k : ~Repeats(results, i)
      BY <1>3, <1>5, <1>10
    <2>3. \A o \in Observations : counts[o] < RepeatLimit
      BY <1>1 DEF IInv, NoFourthRepeat
    <2>4. \A o \in Observations : Tally(results, k, o) < RepeatLimit
      BY <1>1, <1>3, <1>5, <2>2, <2>3, TallyStaysBelow
    <2>5. NoFourthRepeat'
      BY <1>4, <1>14, <2>4 DEF NoFourthRepeat
    <2>7. ran' = counts'
      <3>1. \A o \in Observations : Tally(results, k, o) = counts[o] + Produced(results, o)
        <4> SUFFICES ASSUME NEW o \in Observations
                     PROVE  Tally(results, k, o) = counts[o] + Produced(results, o)
          OBVIOUS
        <4>1. { i \in DOMAIN results : i <= k /\ results[i] = o }
                = { i \in DOMAIN results : results[i] = o }
          BY <1>3, <2>1
        <4> QED
          BY <4>1 DEF Tally, Produced
      <3>2. ran = counts
        BY <1>1 DEF IInv, InLoop
      <3> QED
        BY <1>4, <1>11, <3>1, <3>2
    <2>6. WellFormed'
      <3>1. k + Skipped(last.calls) = last.calls
        BY <1>2, <1>3, <2>1 DEF Skipped
      <3>2. Complete(exchange'[Len(exchange)])
        BY <1>2, <1>7, <3>1 DEF Complete, Exchanges
      <3>3. DOMAIN exchange' = 1..Len(exchange) /\ DOMAIN exchange = 1..Len(exchange)
        BY <1>1, <1>2, <1>7 DEF TypeOK
      <3>4. ASSUME NEW i \in DOMAIN exchange, i # Len(exchange) PROVE Complete(exchange'[i])
        <4>1. i < Len(exchange)
          BY <1>2, <3>3, <3>4
        <4>2. exchange'[i] = exchange[i] /\ Complete(exchange[i])
          BY <1>1, <1>7, <4>1 DEF LastIsOpen
        <4> QED
          BY <4>2 DEF Complete
      <3> QED
        BY <3>2, <3>3, <3>4 DEF WellFormed
    <2> QED
      BY <1>1, <1>8, <2>1, <2>5, <2>6, <2>7 DEF IInv, OutcomeIsHonest, InLoop
  <1> QED
    BY <1>9, <1>10

\* Every step keeps the invariant.
LEMMA IInvStep == IInv /\ [Next]_vars => IInv'
  <1> SUFFICES ASSUME IInv, [Next]_vars PROVE IInv'
    OBVIOUS
  <1>1. ASSUME NEW results \in [1..Batch -> Observations], FinishTools(results) PROVE IInv'
    BY <1>1, FinishToolsStep
  <1> USE DEF IInv, TypeOK, NoFourthRepeat, OutcomeIsHonest, InLoop, Statuses
  <1>2. CASE AskModel
    <2>1. exchange' \in Seq(Exchanges) /\ WellFormed'
      BY <1>2, TrimmedType DEF AskModel, WellFormed
    <2>2. iteration' \in 0..MaxIterations
      BY <1>2, LimitsAssumption DEF AskModel
    <2> QED
      BY <1>2, <2>1, <2>2 DEF AskModel
  <1>3. CASE CancelledAtTop \/ CancelledAfterModel \/ CancelledAtDispatch
    BY <1>3 DEF CancelledAtTop, CancelledAfterModel, CancelledAtDispatch, ReturnCancelled, Return
  <1>4. CASE Exhausted
    BY <1>4 DEF Exhausted
  <1>5. CASE ModelUnreachable \/ ModelRaises \/ ModelAnswers
    BY <1>5 DEF ModelUnreachable, ModelRaises, ModelAnswers, Return
  <1>6. ASSUME NEW n \in 1..MaxCalls, ModelCalls(n) PROVE IInv'
    <2> DEFINE call == [calls |-> n, answered |-> 0]
    <2>1. call \in Exchanges
      BY LimitsAssumption DEF Exchanges
    <2>2. exchange' \in Seq(Exchanges) /\ exchange' # <<>> /\ Last(exchange') = call
          /\ \A i \in DOMAIN exchange' : i < Len(exchange') => i \in DOMAIN exchange /\ exchange'[i] = exchange[i]
      <3> HIDE DEF call
      <3> QED
        BY <1>6, <2>1 DEF ModelCalls, Last, call
    <2>3. LastIsOpen'
      BY <1>6, <2>2 DEF LastIsOpen, ModelCalls, WellFormed, Complete, Last
    <2> QED
      BY <1>6, <2>2, <2>3 DEF ModelCalls
  <1>7. CASE Dispatch
    BY <1>7 DEF Dispatch, LastIsOpen, Complete, Last
  <1>8. CASE Summarize
    BY <1>8 DEF Summarize, Return, FinalOutcome
  <1>9. CASE Cancel
    BY <1>9 DEF Cancel, WellFormed, LastIsOpen, Complete, Last
  <1>10. CASE UNCHANGED vars
    BY <1>10 DEF vars, WellFormed, LastIsOpen, Complete, Last
  <1> QED
    BY <1>2, <1>3, <1>4, <1>5, <1>6, <1>7, <1>1, <1>8, <1>9, <1>10 DEF Next, Loop

\* Every variable keeps its type, with any number of calls in a message.
THEOREM LoopTypes == Spec => []TypeOK
  <1>1. IInv => TypeOK
    BY DEF IInv
  <1> QED
    BY <1>1, IInvInit, IInvStep, PTL DEF Spec

\* Every prompt of the loop shows complete tool exchanges.
THEOREM PromptsAreWellFormed == Spec => []PromptsWellFormed
  <1>1. IInv => PromptsWellFormed
    BY DEF IInv, PromptsWellFormed
  <1> QED
    BY <1>1, IInvInit, IInvStep, PTL DEF Spec

\* The model is not asked again once a result has come back three times, and no
\* result is produced more often than one batch above the two tolerated.
THEOREM RepetitionStops == Spec => []NoFourthRepeat
  <1>1. IInv => NoFourthRepeat
    BY DEF IInv
  <1> QED
    BY <1>1, IInvInit, IInvStep, PTL DEF Spec

\* The outcome says what the user gets.
THEOREM OutcomesAreHonest == Spec => []OutcomeIsHonest
  <1>1. IInv => OutcomeIsHonest
    BY DEF IInv
  <1> QED
    BY <1>1, IInvInit, IInvStep, PTL DEF Spec


-----------------------------------------------------------------------------
(* The calls of a batch                                                    *)

\* There are finitely many calls.
LEMMA CallsAreFinite ==
    ASSUME NEW S \in SUBSET Calls
    PROVE  IsFiniteSet(S) /\ Cardinality(S) \in Nat
  <1>1. IsFiniteSet(Calls)
    BY FS_Interval, BatchAssumption DEF Calls
  <1>2. IsFiniteSet(S)
    BY <1>1, FS_Subset
  <1> QED
    BY <1>2, FS_CardinalityType

\* A nonempty set of positions has its last one as maximum.
LEMMA MaxIsLast ==
    ASSUME NEW n \in Nat, NEW S \in SUBSET (1..n), S # {}
    PROVE  Max(S) \in S /\ \A i \in S : i <= Max(S)
  <1>1. \E i \in S : \A j \in S : i >= j
    <2>1. PICK i \in S : \A j \in S : j <= i
      BY LastIndex
    <2>2. \A j \in S : i >= j
      BY <2>1
    <2> QED
      BY <2>2
  <1>2. Max(S) \in S /\ \A j \in S : Max(S) >= j
    BY <1>1 DEF Max
  <1> QED
    BY <1>2

\* Functions on an initial segment of the numbers are sequences.
LEMMA SegmentIsSeq ==
    ASSUME NEW S, NEW n \in Nat, NEW f \in [1..n -> S]
    PROVE  f \in Seq(S) /\ Len(f) = n
  OBVIOUS

Distinct(s) == \A i, j \in DOMAIN s : s[i] = s[j] => i = j

\* Sequences without repetitions and without common elements are joined to one
\* without repetitions.
LEMMA JoinDistinct ==
    ASSUME NEW S, NEW s \in Seq(S), NEW t \in Seq(S), Distinct(s), Distinct(t),
           \A i \in DOMAIN s, j \in DOMAIN t : s[i] # t[j]
    PROVE  /\ s \o t \in Seq(S) /\ Distinct(s \o t)
           /\ \A i \in DOMAIN (s \o t) : \/ \E k \in DOMAIN s : (s \o t)[i] = s[k]
                                         \/ \E k \in DOMAIN t : (s \o t)[i] = t[k]
  <1> DEFINE u == s \o t
  <1>1. /\ Len(s) \in Nat /\ Len(t) \in Nat /\ DOMAIN s = 1..Len(s) /\ DOMAIN t = 1..Len(t)
        /\ u \in Seq(S) /\ Len(u) = Len(s) + Len(t) /\ DOMAIN u = 1..Len(u)
        /\ \A i \in DOMAIN u : u[i] = IF i <= Len(s) THEN s[i] ELSE t[i - Len(s)]
    OBVIOUS
  <1> HIDE DEF u
  <1>2. ASSUME NEW i \in DOMAIN u
        PROVE  \/ i \in DOMAIN s /\ u[i] = s[i]
               \/ i - Len(s) \in DOMAIN t /\ u[i] = t[i - Len(s)] /\ i \notin DOMAIN s
    BY <1>1
  <1>3. ASSUME NEW i \in DOMAIN u, NEW j \in DOMAIN u, u[i] = u[j] PROVE i = j
    <2>1. CASE i \in DOMAIN s /\ j \in DOMAIN s
      BY <1>2, <1>3, <2>1, <1>1 DEF Distinct
    <2>2. CASE i \notin DOMAIN s /\ j \notin DOMAIN s
      <3>1. i - Len(s) = j - Len(s)
        BY <1>2, <1>3, <2>2 DEF Distinct
      <3> QED
        BY <1>1, <3>1
    <2>3. CASE (i \in DOMAIN s) # (j \in DOMAIN s)
      BY <1>2, <1>3, <2>3
    <2> QED
      BY <2>1, <2>2, <2>3
  <1>4. u \in Seq(S) /\ Distinct(u)
    BY <1>1, <1>3 DEF Distinct
  <1>5. \A i \in DOMAIN u : \/ \E k \in DOMAIN s : u[i] = s[k]
                            \/ \E k \in DOMAIN t : u[i] = t[k]
    BY <1>2
  <1> QED
    BY <1>4, <1>5 DEF u

\* Sequence u holds all elements of s.
Covers(u, s) == \A k \in DOMAIN s : \E i \in DOMAIN u : u[i] = s[k]

\* Joined sequences hold all elements of both.
LEMMA JoinHolds ==
    ASSUME NEW S, NEW s \in Seq(S), NEW t \in Seq(S)
    PROVE  Covers(s \o t, s) /\ Covers(s \o t, t)
  <1> DEFINE u == s \o t
  <1>1. /\ Len(s) \in Nat /\ Len(t) \in Nat /\ DOMAIN s = 1..Len(s) /\ DOMAIN t = 1..Len(t)
        /\ u \in Seq(S) /\ Len(u) = Len(s) + Len(t) /\ DOMAIN u = 1..Len(u)
        /\ \A i \in DOMAIN u : u[i] = IF i <= Len(s) THEN s[i] ELSE t[i - Len(s)]
    OBVIOUS
  <1> HIDE DEF u
  <1>2. ASSUME NEW k \in DOMAIN s PROVE \E i \in DOMAIN u : u[i] = s[k]
    <2>1. k \in DOMAIN u /\ u[k] = s[k]
      BY <1>1
    <2> QED
      BY <2>1
  <1>3. ASSUME NEW k \in DOMAIN t PROVE \E i \in DOMAIN u : u[i] = t[k]
    <2>1. /\ Len(s) + k \in DOMAIN u /\ ~(Len(s) + k <= Len(s))
          /\ (Len(s) + k) - Len(s) = k
      BY <1>1
    <2>2. u[Len(s) + k] = t[k]
      BY <1>1, <2>1
    <2> QED
      BY <2>1, <2>2
  <1> QED
    BY <1>2, <1>3 DEF u, Covers

-----------------------------------------------------------------------------
(* Which calls run together                                                *)

\* A call that runs alone has no other beside it, and the second batch waits
\* for the first.
Exclusive == \A c, d \in Calls : Alone(c) /\ Inside(c) /\ Inside(d) => c = d
InTurn    == \A c, d \in Calls : c <= cut /\ cut < d /\ stage[d] # "todo" => stage[c] = "returned"

Stages   == {"todo", "entered", "started", "ended", "returned"}
StagesOK == cut \in Calls /\ stage \in [Calls -> Stages]

\* What a call does next.
After(where) == IF where = "todo"    THEN "entered"
           ELSE IF where = "entered" THEN "started"
           ELSE IF where = "started" THEN "ended" ELSE "returned"

\* A step of a batch is the next one of one call, or the safety net's.
LEMMA StepIsOfCall ==
    ASSUME [BatchNext]_(batchVars)
    PROVE  /\ UNCHANGED <<shape, cut>>
           /\ \/ UNCHANGED stage
              \/ \E c \in Calls :
                    /\ stage[c] \in Stages \ {"returned"}
                    /\ stage' = [stage EXCEPT ![c] = After(stage[c])]
                    /\ stage[c] = "todo" => MayEnter(c)
  <1>1. CASE UNCHANGED batchVars
    BY <1>1 DEF batchVars
  <1>2. CASE SaveRest \/ SaveFails
    BY <1>2 DEF SaveRest, SaveFails
  <1>3. ASSUME NEW c \in Calls,
               \/ Enter(c) \/ OnToolStart(c) \/ OnToolEnd(c)
               \/ MissesTheEnd(c) \/ ReturnFrom(c)
        PROVE  /\ UNCHANGED <<shape, cut>>
               /\ stage[c] \in Stages \ {"returned"}
               /\ stage' = [stage EXCEPT ![c] = After(stage[c])]
               /\ stage[c] = "todo" => MayEnter(c)
    <2>1. CASE Enter(c)
      BY <2>1 DEF Enter, After, Stages
    <2>2. CASE OnToolStart(c)
      BY <2>2 DEF OnToolStart, After, Stages
    <2>3. CASE OnToolEnd(c)
      BY <2>3 DEF OnToolEnd, After, Stages
    <2>4. CASE MissesTheEnd(c)
      BY <2>4 DEF MissesTheEnd, After, Stages
    <2>5. CASE ReturnFrom(c)
      BY <2>5 DEF ReturnFrom, After, Stages
    <2> QED
      BY <1>3, <2>1, <2>2, <2>3, <2>4, <2>5
  <1> QED
    BY <1>1, <1>2, <1>3 DEF BatchNext

\* Who enters alone finds nobody inside.
LEMMA EntersAlone ==
    ASSUME StagesOK, NEW c \in Calls, NEW d \in Calls,
           MayEnter(c), BatchOf(c) = BatchOf(d), Alone(c), d \in BatchOf(d)
    PROVE  ~Inside(d)
  <1> DEFINE inside == { e \in BatchOf(c) : Inside(e) }
  <1>1. Cardinality(inside) < 1
    BY DEF MayEnter, Alone
  <1>2. BatchOf(c) \subseteq Calls
    BY BatchAssumption DEF BatchOf, Calls, StagesOK
  <1>3. inside \in SUBSET Calls
    BY <1>2
  <1> HIDE DEF inside
  <1>4. IsFiniteSet(inside) /\ Cardinality(inside) = 0
    BY <1>1, <1>3, CallsAreFinite
  <1>5. inside = {}
    BY <1>4, FS_EmptySet
  <1> QED
    BY <1>5 DEF inside

\* The order of calls is kept.
LEMMA OrderStays ==
    ASSUME StagesOK, Exclusive, InTurn, [BatchNext]_(batchVars)
    PROVE  StagesOK' /\ Exclusive' /\ InTurn'
  <1>1. UNCHANGED <<shape, cut>>
    BY StepIsOfCall
  <1>2. CASE UNCHANGED stage
    BY <1>1, <1>2 DEF StagesOK, Exclusive, InTurn, Inside, Alone, Concurrency, Plans,
                      BatchOf
  <1>3. ASSUME NEW c \in Calls, stage[c] \in Stages \ {"returned"},
               stage' = [stage EXCEPT ![c] = After(stage[c])],
               stage[c] = "todo" => MayEnter(c)
        PROVE  StagesOK' /\ Exclusive' /\ InTurn'
    <2>1. /\ After(stage[c]) \in Stages \ {"todo"}
          /\ stage'[c] = After(stage[c]) /\ \A d \in Calls \ {c} : stage'[d] = stage[d]
      BY <1>3 DEF After, Stages, StagesOK
    <2>2. StagesOK'
      BY <1>1, <1>3, <2>1 DEF StagesOK
    <2>3. \A d \in Calls : Alone(d)' <=> Alone(d)
      BY <1>1 DEF Alone, Concurrency, Plans, BatchOf
    <2>4. \A d \in Calls : stage[d] # "todo" /\ Inside(d)' => Inside(d)
      BY <1>3, <2>1 DEF Inside, After, Stages
    <2>5. ASSUME stage[c] = "todo", NEW d \in Calls, d # c, Inside(d)',
                 Alone(c) \/ Alone(d)
          PROVE  FALSE
      <3>1. Inside(d) /\ MayEnter(c)
        BY <1>3, <2>1, <2>5 DEF Inside
      <3>2. CASE (c <= cut) = (d <= cut)
        <4>1. BatchOf(c) = BatchOf(d) /\ d \in BatchOf(d)
          BY <3>2, BatchAssumption DEF BatchOf, Calls, StagesOK
        <4>2. Alone(c)
          BY <2>5, <4>1 DEF Alone
        <4> QED
          BY <3>1, <4>1, <4>2, EntersAlone
      <3>3. CASE c <= cut /\ ~(d <= cut)
        BY <2>5, <3>1, <3>3, BatchAssumption DEF InTurn, Inside, StagesOK, Calls
      <3>4. CASE ~(c <= cut) /\ d <= cut
        <4>1. d \in 1..(c - 1) /\ d \notin BatchOf(c)
          BY <3>4, BatchAssumption DEF BatchOf, Calls, StagesOK
        <4>2. stage[d] = "returned"
          BY <3>1, <4>1 DEF MayEnter
        <4> QED
          BY <3>1, <4>2 DEF Inside
      <3> QED
        BY <3>2, <3>3, <3>4
    <2>6. Exclusive'
      <3> SUFFICES ASSUME NEW d \in Calls, NEW e \in Calls,
                          Alone(d), Inside(d)', Inside(e)'
                   PROVE  d = e
        BY <2>3 DEF Exclusive
      <3>1. CASE stage[c] = "todo" /\ (d = c \/ e = c)
        BY <2>5, <3>1
      <3>2. CASE ~(stage[c] = "todo" /\ (d = c \/ e = c))
        <4>1. Inside(d) /\ Inside(e)
          BY <1>3, <2>1, <2>4, <3>2 DEF Inside
        <4> QED
          BY <4>1 DEF Exclusive
      <3> QED
        BY <3>1, <3>2
    <2>7. InTurn'
      <3> SUFFICES ASSUME NEW d \in Calls, NEW e \in Calls, d <= cut, cut < e,
                          stage'[e] # "todo"
                   PROVE  stage'[d] = "returned"
        BY <1>1 DEF InTurn
      <3>1. CASE e = c /\ stage[c] = "todo"
        <4>1. d \in 1..(c - 1) /\ d \notin BatchOf(c) /\ d # c
          BY <3>1, BatchAssumption DEF BatchOf, Calls, StagesOK
        <4> QED
          BY <1>3, <2>1, <3>1, <4>1 DEF MayEnter
      <3>2. CASE ~(e = c /\ stage[c] = "todo")
        <4>1. stage[d] = "returned"
          BY <2>1, <3>2 DEF InTurn
        <4> QED
          BY <1>3, <2>1, <4>1
      <3> QED
        BY <3>1, <3>2
    <2> QED
      BY <2>2, <2>6, <2>7
  <1> QED
    BY <1>2, <1>3, StepIsOfCall

-----------------------------------------------------------------------------
(* Artifacts                                                               *)

Makes(c) == shape[c].out \in {"made", "mixed"}
Has(c)   == \E i \in DOMAIN artifacts : artifacts[i] = c

\* An artifact is collected after its call was counted in, and once; a call
\* that is alone and whose end is missed finds the count as it left it.
Gathered ==
    /\ artifacts \in Seq(Calls) /\ Distinct(artifacts)
    /\ before \in [Calls -> Nat]
    /\ \A i \in DOMAIN artifacts :
         /\ before[artifacts[i]] < i
         /\ Makes(artifacts[i]) => stage[artifacts[i]] \in {"ended", "returned"}
         /\ ~Makes(artifacts[i]) =>
              shape[artifacts[i]].out = "unheard" /\ stage[artifacts[i]] = "returned"
    /\ \A c \in Calls :
         /\ before[c] <= Len(artifacts)
         /\ Makes(c) /\ stage[c] \in {"ended", "returned"} => Has(c)
         /\ shape[c].out = "unheard" /\ Alone(c) =>
              /\ Inside(c) => before[c] = Len(artifacts)
              /\ stage[c] = "returned" => Has(c)

\* Until the turn is written, what is stored is what the sink has marked; it is
\* stored once; a turn is written when all calls have returned.
Stored ==
    /\ sunk \subseteq DOMAIN artifacts
    /\ saved \in Seq(DOMAIN artifacts) /\ Distinct(saved)
    /\ turn \in {"open", "saved", "failed"}
    /\ turn # "open" => AllReturned
    /\ turn = "open" => /\ \A i \in DOMAIN saved : saved[i] \in sunk
                        /\ \A x \in sunk : \E i \in DOMAIN saved : saved[i] = x
    /\ StoredOrTold

\* Who runs alone stays the same.
LEMMA AloneStays ==
    ASSUME UNCHANGED <<shape, cut>>
    PROVE  \A c : Alone(c)' <=> Alone(c)
  BY DEF Alone, Concurrency, Plans, BatchOf

\* The artifact of one more call.
LEMMA OneMore ==
    ASSUME artifacts \in Seq(Calls), NEW c \in Calls, artifacts' = Append(artifacts, c)
    PROVE  /\ artifacts' \in Seq(Calls) /\ Len(artifacts) \in Nat
           /\ Len(artifacts') = Len(artifacts) + 1
           /\ DOMAIN artifacts = 1..Len(artifacts) /\ DOMAIN artifacts' = 1..(Len(artifacts) + 1)
           /\ artifacts'[Len(artifacts) + 1] = c
           /\ \A i \in DOMAIN artifacts : artifacts'[i] = artifacts[i]
  OBVIOUS

\* A call that is inside and moves on without an artifact.
LEMMA CollectedStays ==
    ASSUME StagesOK, Gathered, UNCHANGED <<shape, cut, artifacts, before>>, NEW c \in Calls,
           stage' = [stage EXCEPT ![c] = After(stage[c])],
           Inside(c), Makes(c) /\ stage[c] \in {"started", "ended"} => Has(c),
           shape[c].out = "unheard" /\ Alone(c) => stage[c] # "ended"
    PROVE  Gathered'
  <1>1. /\ stage'[c] = After(stage[c]) /\ \A d \in Calls : d # c => stage'[d] = stage[d]
        /\ stage[c] \in {"entered", "started", "ended"}
    BY DEF StagesOK, Inside
  <1>2. \A d \in Calls : (Makes(d)' <=> Makes(d)) /\ (Has(d)' <=> Has(d))
    BY DEF Makes, Has
  <1>3. ASSUME NEW i \in DOMAIN artifacts
        PROVE  /\ Makes(artifacts[i]) => stage'[artifacts[i]] \in {"ended", "returned"}
               /\ ~Makes(artifacts[i]) =>
                    shape[artifacts[i]].out = "unheard" /\ stage'[artifacts[i]] = "returned"
    <2>1. artifacts[i] \in Calls
      BY ElementOfSeq DEF Gathered
    <2> QED
      BY <1>1, <2>1 DEF Gathered, After
  <1>4. ASSUME NEW d \in Calls
        PROVE  /\ Makes(d) /\ stage'[d] \in {"ended", "returned"} => Has(d)
               /\ shape[d].out = "unheard" /\ Alone(d) =>
                    /\ Inside(d)' => before[d] = Len(artifacts)
                    /\ stage'[d] = "returned" => Has(d)
    BY <1>1 DEF Gathered, After, Inside
  <1>5. \A d \in Calls : Alone(d)' <=> Alone(d)
    BY AloneStays
  <1> QED
    BY <1>2, <1>3, <1>4, <1>5 DEF Gathered, Distinct, Makes, Has

\* A call that is inside and moves on with its artifact, which it had not.
LEMMA CollectedGrows ==
    ASSUME StagesOK, Exclusive, Gathered, UNCHANGED <<shape, cut, before>>, NEW c \in Calls,
           stage' = [stage EXCEPT ![c] = After(stage[c])],
           artifacts' = Append(artifacts, c),
           Inside(c), \/ Makes(c) /\ stage[c] = "started"
                      \/ shape[c].out = "unheard" /\ stage[c] = "ended"
    PROVE  Gathered'
  <1>0. /\ stage'[c] = After(stage[c]) /\ \A d \in Calls : d # c => stage'[d] = stage[d]
        /\ After(stage[c]) \in {"ended", "returned"}
        /\ shape[c].out = "unheard" => After(stage[c]) = "returned" /\ ~Makes(c)
    BY DEF StagesOK, Inside, After, Makes
  <1>1. /\ artifacts' \in Seq(Calls) /\ Len(artifacts) \in Nat
        /\ Len(artifacts') = Len(artifacts) + 1
        /\ DOMAIN artifacts = 1..Len(artifacts) /\ DOMAIN artifacts' = 1..(Len(artifacts) + 1)
        /\ artifacts'[Len(artifacts) + 1] = c
        /\ \A i \in DOMAIN artifacts : artifacts'[i] = artifacts[i]
    BY OneMore DEF Gathered
  <1>2. \A i \in DOMAIN artifacts : artifacts[i] # c /\ artifacts[i] \in Calls
    <2>1. \A i \in DOMAIN artifacts : artifacts[i] \in Calls
      BY ElementOfSeq DEF Gathered
    <2> QED
      BY <2>1 DEF Gathered, Makes
  <1>3. \A d \in Calls : /\ Makes(d)' <=> Makes(d)
                         /\ Alone(d)' <=> Alone(d)
    BY AloneStays DEF Makes
  <1>4. Has(c)' /\ \A d \in Calls : Has(d) => Has(d)'
    <2>1. Len(artifacts) + 1 \in DOMAIN artifacts'
      BY <1>1
    <2> QED
      BY <1>1, <2>1 DEF Has
  <1>5. Distinct(artifacts')
    <2>1. ASSUME NEW i \in DOMAIN artifacts', NEW j \in DOMAIN artifacts', artifacts'[i] = artifacts'[j]
          PROVE  i = j
      <3>1. CASE i \in DOMAIN artifacts /\ j \in DOMAIN artifacts
        BY <1>1, <2>1, <3>1 DEF Gathered, Distinct
      <3>2. CASE i \notin DOMAIN artifacts /\ j \notin DOMAIN artifacts
        BY <1>1, <3>2
      <3>3. CASE (i \in DOMAIN artifacts) # (j \in DOMAIN artifacts)
        BY <1>1, <1>2, <2>1, <3>3
      <3> QED
        BY <3>1, <3>2, <3>3
    <2> QED
      BY <2>1 DEF Distinct
  <1>6. ASSUME NEW i \in DOMAIN artifacts'
        PROVE  /\ before[artifacts'[i]] < i
               /\ Makes(artifacts'[i]) => stage'[artifacts'[i]] \in {"ended", "returned"}
               /\ ~Makes(artifacts'[i]) =>
                    shape[artifacts'[i]].out = "unheard" /\ stage'[artifacts'[i]] = "returned"
    <2>1. CASE i \in DOMAIN artifacts
      <3>1. artifacts'[i] = artifacts[i] /\ artifacts[i] # c /\ artifacts[i] \in Calls
        BY <1>1, <1>2, <2>1
      <3>2. stage'[artifacts[i]] = stage[artifacts[i]]
        BY <1>0, <3>1
      <3> QED
        BY <2>1, <3>1, <3>2 DEF Gathered
    <2>2. CASE i = Len(artifacts) + 1
      <3>1. artifacts'[i] = c /\ before[c] <= Len(artifacts) /\ before[c] \in Nat
        BY <1>1, <2>2 DEF Gathered
      <3>2. Makes(c) \/ shape[c].out = "unheard"
        OBVIOUS
      <3> QED
        BY <1>0, <1>1, <2>2, <3>1, <3>2
    <2> QED
      BY <1>1, <2>1, <2>2
  <1>7. ASSUME NEW d \in Calls
        PROVE  /\ before[d] <= Len(artifacts')
               /\ Makes(d) /\ stage'[d] \in {"ended", "returned"} => Has(d)'
               /\ shape[d].out = "unheard" /\ Alone(d) =>
                    /\ Inside(d)' => before[d] = Len(artifacts')
                    /\ stage'[d] = "returned" => Has(d)'
    <2>1. before[d] \in Nat /\ before[d] <= Len(artifacts)
      BY DEF Gathered
    <2>2. before[d] <= Len(artifacts')
      BY <1>1, <2>1
    <2>3. CASE d = c
      BY <1>0, <1>4, <2>2, <2>3 DEF Inside, Makes
    <2>4. CASE d # c
      <3>1. stage'[d] = stage[d] /\ (Inside(d)' <=> Inside(d))
        BY <1>0, <2>4 DEF Inside
      <3>2. ~(Alone(d) /\ Inside(d))
        BY <2>4 DEF Exclusive
      <3> QED
        BY <1>4, <2>2, <3>1, <3>2 DEF Gathered
    <2> QED
      BY <2>3, <2>4
  <1> QED
    BY <1>1, <1>3, <1>5, <1>6, <1>7 DEF Gathered, Makes

\* Every step collects artifacts properly.
LEMMA CollectedStep ==
    ASSUME StagesOK, Exclusive, Gathered, [BatchNext]_(batchVars)
    PROVE  Gathered'
  <1>1. ASSUME NEW c \in Calls, Enter(c) PROVE Gathered'
    <2>1. /\ stage[c] = "todo" /\ stage' = [stage EXCEPT ![c] = "entered"]
          /\ before' = [before EXCEPT ![c] = Len(artifacts)] /\ UNCHANGED <<shape, cut, artifacts>>
      BY <1>1 DEF Enter
    <2>2. /\ stage'[c] = "entered" /\ before'[c] = Len(artifacts)
          /\ \A d \in Calls : d # c => stage'[d] = stage[d] /\ before'[d] = before[d]
      BY <2>1 DEF StagesOK, Gathered
    <2>3. \A i \in DOMAIN artifacts : artifacts[i] \in Calls /\ artifacts[i] # c
      <3>1. \A i \in DOMAIN artifacts : artifacts[i] \in Calls
        BY ElementOfSeq DEF Gathered
      <3> QED
        BY <2>1, <3>1 DEF Gathered
    <2>4. Len(artifacts) \in Nat
      BY LenProperties DEF Gathered
    <2>5. \A d \in Calls : /\ Makes(d)' <=> Makes(d)
                           /\ Has(d)' <=> Has(d)
                           /\ Alone(d)' <=> Alone(d)
      BY <2>1, AloneStays DEF Makes, Has
    <2>6. \A i \in DOMAIN artifacts :
            /\ before'[artifacts[i]] < i
            /\ Makes(artifacts[i]) => stage'[artifacts[i]] \in {"ended", "returned"}
            /\ ~Makes(artifacts[i]) =>
                 shape[artifacts[i]].out = "unheard" /\ stage'[artifacts[i]] = "returned"
      BY <2>2, <2>3 DEF Gathered
    <2>7. ASSUME NEW d \in Calls
          PROVE  /\ before'[d] <= Len(artifacts)
                 /\ Makes(d) /\ stage'[d] \in {"ended", "returned"} => Has(d)
                 /\ shape[d].out = "unheard" /\ Alone(d) =>
                      /\ Inside(d)' => before'[d] = Len(artifacts)
                      /\ stage'[d] = "returned" => Has(d)
      BY <2>2, <2>4 DEF Gathered, Inside
    <2>8. before' \in [Calls -> Nat]
      BY <2>1, <2>4 DEF Gathered
    <2> QED
      BY <2>1, <2>5, <2>6, <2>7, <2>8 DEF Gathered, Makes
  <1>2. ASSUME NEW c \in Calls, OnToolStart(c) PROVE Gathered'
    <2>1. /\ stage[c] = "entered" /\ stage' = [stage EXCEPT ![c] = After(stage[c])]
          /\ UNCHANGED <<shape, cut, artifacts, before>> /\ Inside(c)
      BY <1>2 DEF OnToolStart, After, Inside
    <2> QED
      BY <2>1, CollectedStays
  <1>3. ASSUME NEW c \in Calls, OnToolEnd(c) PROVE Gathered'
    <2>1. /\ stage[c] = "started" /\ stage' = [stage EXCEPT ![c] = After(stage[c])]
          /\ UNCHANGED <<shape, cut, before>> /\ Inside(c)
          /\ artifacts' = IF Makes(c) THEN Append(artifacts, c) ELSE artifacts
      BY <1>3 DEF OnToolEnd, After, Inside, Makes
    <2>2. CASE Makes(c)
      BY <2>1, <2>2, CollectedGrows
    <2>3. CASE ~Makes(c)
      BY <2>1, <2>3, CollectedStays
    <2> QED
      BY <2>2, <2>3
  <1>4. ASSUME NEW c \in Calls, MissesTheEnd(c) PROVE Gathered'
    <2>1. /\ stage[c] = "started" /\ stage' = [stage EXCEPT ![c] = After(stage[c])]
          /\ UNCHANGED <<shape, cut, artifacts, before>> /\ Inside(c) /\ ~Makes(c)
      BY <1>4 DEF MissesTheEnd, After, Inside, Makes
    <2> QED
      BY <2>1, CollectedStays
  <1>5. ASSUME NEW c \in Calls, ReturnFrom(c) PROVE Gathered'
    <2>1. /\ stage[c] = "ended" /\ stage' = [stage EXCEPT ![c] = After(stage[c])]
          /\ UNCHANGED <<shape, cut, before>> /\ Inside(c)
      BY <1>5 DEF ReturnFrom, After, Inside
    <2>2. Makes(c) => Has(c) /\ Len(artifacts) # before[c]
      <3>1. ASSUME Makes(c) PROVE Has(c)
        BY <2>1, <3>1 DEF Gathered
      <3>2. ASSUME NEW i \in DOMAIN artifacts, artifacts[i] = c PROVE Len(artifacts) # before[c]
        <4>1. before[c] < i /\ before[c] \in Nat /\ i \in 1..Len(artifacts) /\ Len(artifacts) \in Nat
          BY <3>2, LenProperties DEF Gathered
        <4> QED
          BY <4>1
      <3> QED
        BY <3>1, <3>2 DEF Has
    <2>3. CASE shape[c].out = "unheard" /\ Len(artifacts) = before[c]
      <3>1. artifacts' = Append(artifacts, c)
        BY <1>5, <2>3 DEF ReturnFrom, Absorb, HasArtifactDict
      <3> QED
        BY <2>1, <2>3, <3>1, CollectedGrows
    <2>4. CASE ~(shape[c].out = "unheard" /\ Len(artifacts) = before[c])
      <3>1. artifacts' = artifacts
        BY <1>5, <2>2, <2>4 DEF ReturnFrom, Absorb, HasArtifactDict, Makes
      <3>2. ~(shape[c].out = "unheard" /\ Alone(c))
        BY <2>1, <2>4 DEF Gathered
      <3> QED
        BY <2>1, <2>2, <3>1, <3>2, CollectedStays
    <2> QED
      BY <2>3, <2>4
  <1>6. CASE SaveRest \/ SaveFails \/ UNCHANGED batchVars
    <2>1. UNCHANGED <<shape, cut, stage, before, artifacts>>
      BY <1>6 DEF SaveRest, SaveFails, batchVars
    <2>2. \A d : Alone(d)' <=> Alone(d)
      BY <2>1, AloneStays
    <2> QED
      BY <2>1, <2>2 DEF Gathered, Makes, Has, Inside, Distinct
  <1> QED
    BY <1>1, <1>2, <1>3, <1>4, <1>5, <1>6 DEF BatchNext

\* Positions that are stored remain positions when artifacts are added.
LEMMA WiderSeq ==
    ASSUME NEW S, NEW T, S \subseteq T, NEW s \in Seq(S)
    PROVE  s \in Seq(T)
  <1>1. Len(s) \in Nat /\ s \in [1..Len(s) -> S]
    OBVIOUS
  <1>2. s \in [1..Len(s) -> T]
    BY <1>1
  <1> QED
    BY <1>1, <1>2, SegmentIsSeq

\* The sink stores the artifacts that are new, once.
LEMMA SinkStores ==
    ASSUME artifacts \in Seq(Calls), Stored, NEW c \in Calls,
           artifacts' = artifacts \/ artifacts' = Append(artifacts, c),
           Sink(Len(artifacts)) \/ UNCHANGED <<sunk, saved>>,
           turn = "open", UNCHANGED turn
    PROVE  Stored'
  <1>1. PICK n, m : n = Len(artifacts) /\ m = Len(artifacts')
    OBVIOUS
  <1>2. /\ n \in Nat /\ m \in Nat /\ n <= m /\ DOMAIN artifacts = 1..n /\ DOMAIN artifacts' = 1..m
    BY <1>1
  <1>3. 1..n \subseteq 1..m
    BY <1>2
  <1>4. /\ saved \in Seq(1..m) /\ Distinct(saved) /\ sunk \subseteq 1..m
        /\ \A i \in DOMAIN saved : saved[i] \in sunk /\ saved[i] <= n
        /\ \A x \in sunk : \E i \in DOMAIN saved : saved[i] = x
    <2>1. saved \in Seq(1..m) /\ Distinct(saved) /\ sunk \subseteq 1..m
      BY <1>2, <1>3, WiderSeq DEF Stored
    <2>2. \A i \in DOMAIN saved : saved[i] \in 1..n
      BY <1>2, ElementOfSeq DEF Stored
    <2> QED
      BY <1>2, <2>1, <2>2 DEF Stored
  <1>5. CASE UNCHANGED <<sunk, saved>>
    BY <1>2, <1>4, <1>5 DEF Stored, Distinct, StoredOrTold
  <1>6. CASE Sink(Len(artifacts)) /\ ~UNCHANGED <<sunk, saved>>
    <2> DEFINE new == [i \in 1..(m - n) |-> n + i]
    <2>1. sunk' = sunk \union ((n + 1)..m) /\ saved' = saved \o new
      BY <1>1, <1>6 DEF Sink
    <2>2. m - n \in Nat /\ new \in [1..(m - n) -> 1..m] /\ \A i \in 1..(m - n) : new[i] \in (n + 1)..m
      BY <1>2
    <2>3. new \in Seq(1..m) /\ DOMAIN new = 1..(m - n)
      BY <2>2, SegmentIsSeq
    <2>4. Distinct(new)
      BY <1>2 DEF Distinct
    <2>5. \A i \in DOMAIN saved, j \in DOMAIN new : saved[i] # new[j]
      <3> SUFFICES ASSUME NEW i \in DOMAIN saved, NEW j \in DOMAIN new PROVE saved[i] # new[j]
        OBVIOUS
      <3>1. new[j] \in (n + 1)..m /\ saved[i] <= n /\ saved[i] \in 1..m
        BY <1>4, <2>2, <2>3, ElementOfSeq
      <3> QED
        BY <1>2, <3>1
    <2> HIDE DEF new
    <2> DEFINE all == saved \o new
    <2>6. /\ all \in Seq(1..m) /\ Distinct(all)
          /\ \A i \in DOMAIN all : \/ \E k \in DOMAIN saved : all[i] = saved[k]
                                   \/ \E k \in DOMAIN new : all[i] = new[k]
      <3>1. saved \in Seq(1..m) /\ Distinct(saved)
        BY <1>4
      <3>2. new \in Seq(1..m)
        BY <2>3
      <3> QED
        BY <2>4, <2>5, <3>1, <3>2, JoinDistinct
    <2>11. Covers(all, saved) /\ Covers(all, new)
      BY <1>4, <2>3, JoinHolds
    <2>9. \A x \in (n + 1)..m : \E k \in DOMAIN new : new[k] = x
      <3> SUFFICES ASSUME NEW x \in (n + 1)..m PROVE \E k \in DOMAIN new : new[k] = x
        OBVIOUS
      <3>1. x - n \in 1..(m - n) /\ n + (x - n) = x
        BY <1>2
      <3> QED
        BY <2>3, <3>1 DEF new
    <2>0. saved' = all
      BY <2>1
    <2> HIDE DEF all
    <2>7. sunk' \subseteq 1..m
      BY <1>2, <1>4, <2>1
    <2>8. \A i \in DOMAIN all : all[i] \in sunk'
      BY <1>4, <2>1, <2>2, <2>3, <2>6
    <2>10. \A x \in sunk' : \E i \in DOMAIN all : all[i] = x
      BY <1>4, <2>1, <2>9, <2>11 DEF Covers
    <2> QED
      BY <1>2, <2>0, <2>6, <2>7, <2>8, <2>10 DEF Stored, Distinct, StoredOrTold
  <1> QED
    BY <1>5, <1>6

\* What is saved in the end had not been marked, and is all the rest.
LEMMA RestIsStored ==
    ASSUME artifacts \in Seq(Calls), Stored, turn = "open",
           NEW order \in InOrder(DOMAIN artifacts \ sunk)
    PROVE  /\ saved \o order \in Seq(DOMAIN artifacts) /\ Distinct(saved \o order)
           /\ { (saved \o order)[i] : i \in DOMAIN (saved \o order) } = DOMAIN artifacts
  <1> DEFINE rest == DOMAIN artifacts \ sunk
  <1>3. IsFiniteSet(rest) /\ Cardinality(rest) \in Nat
    <2>1. IsFiniteSet(DOMAIN artifacts)
      BY FS_Interval
    <2> QED
      BY <2>1, FS_Subset, FS_CardinalityType
  <1>4. /\ order \in [1..Cardinality(rest) -> rest]
        /\ \A i, j \in DOMAIN order : i < j => order[i] < order[j]
    BY DEF InOrder
  <1>6. rest \subseteq DOMAIN artifacts /\ rest \subseteq Nat
    BY DEF rest
  <1>13. DOMAIN artifacts = rest \union sunk
    BY DEF Stored
  <1>9. \A i \in DOMAIN saved, j \in DOMAIN order : saved[i] # order[j]
    BY <1>4 DEF Stored, rest
  <1> HIDE DEF rest
  <1>5. order \in Seq(rest) /\ DOMAIN order = 1..Cardinality(rest)
    BY <1>3, <1>4, SegmentIsSeq
  <1>7. order \in Seq(DOMAIN artifacts)
    BY <1>5, <1>6, WiderSeq
  <1>8. Distinct(order)
    <2> SUFFICES ASSUME NEW i \in DOMAIN order, NEW j \in DOMAIN order, order[i] = order[j], i < j
                 PROVE  FALSE
      BY <1>3, <1>5 DEF Distinct
    <2>1. order[i] < order[j] /\ order[i] \in Nat
      BY <1>4, <1>6
    <2> QED
      BY <2>1
  <1>14. \A x \in rest : \E k \in DOMAIN order : order[k] = x
    <2> DEFINE places == 1..Cardinality(rest)
    <2>1. order \in Injection(places, rest)
      BY <1>4, <1>5, <1>8 DEF Injection, IsInjective, Distinct
    <2>2. Cardinality(places) = Cardinality(rest)
      BY <1>3, FS_Interval
    <2>3. order \in Surjection(places, rest)
      <3> HIDE DEF places
      <3> QED
        BY <1>3, <2>1, <2>2, FS_Injection
    <2> QED
      BY <1>5, <2>3 DEF Surjection
  <1> DEFINE all == saved \o order
  <1>0. saved \in Seq(DOMAIN artifacts) /\ Distinct(saved)
    BY DEF Stored
  <1>10. all \in Seq(DOMAIN artifacts) /\ Distinct(all)
    BY <1>0, <1>7, <1>8, <1>9, JoinDistinct
  <1>16. Covers(all, saved) /\ Covers(all, order)
    BY <1>0, <1>7, JoinHolds
  <1> HIDE DEF all
  <1>11. \A x \in DOMAIN artifacts : \E i \in DOMAIN all : all[i] = x
    BY <1>13, <1>14, <1>16 DEF Stored, Covers
  <1>12. \A i \in DOMAIN all : all[i] \in DOMAIN artifacts
    BY <1>10, ElementOfSeq
  <1>15. { all[i] : i \in DOMAIN all } = DOMAIN artifacts
    BY <1>11, <1>12
  <1> QED
    BY <1>10, <1>15 DEF all

\* Every step stores artifacts properly.
LEMMA StoredStep ==
    ASSUME Gathered, Stored, [BatchNext]_(batchVars)
    PROVE  Stored'
  <1>0. artifacts \in Seq(Calls)
    BY DEF Gathered
  <1>1. ASSUME NEW c \in Calls, OnToolEnd(c) PROVE Stored'
    <2>1. /\ artifacts' = artifacts \/ artifacts' = Append(artifacts, c)
          /\ Sink(Len(artifacts)) \/ UNCHANGED <<sunk, saved>>
          /\ stage[c] # "returned" /\ UNCHANGED turn
      BY <1>1 DEF OnToolEnd
    <2>2. turn = "open"
      BY <2>1 DEF Stored, AllReturned
    <2> QED
      BY <1>0, <2>1, <2>2, SinkStores
  <1>2. ASSUME NEW c \in Calls, ReturnFrom(c) PROVE Stored'
    <2>1. /\ artifacts' = artifacts \/ artifacts' = Append(artifacts, c)
          /\ Sink(Len(artifacts)) \/ UNCHANGED <<sunk, saved>>
          /\ stage[c] # "returned" /\ UNCHANGED turn
      BY <1>2 DEF ReturnFrom, Absorb
    <2>2. turn = "open"
      BY <2>1 DEF Stored, AllReturned
    <2> QED
      BY <1>0, <2>1, <2>2, SinkStores
  <1>3. CASE SaveRest \/ SaveFails
    <2>1. /\ turn = "open" /\ turn' \in {"saved", "failed"} /\ AllReturned
          /\ UNCHANGED <<stage, artifacts, sunk>>
      BY <1>3 DEF SaveRest, SaveFails
    <2>2. AllReturned'
      BY <2>1 DEF AllReturned
    <2>3. CASE \E order \in InOrder(DOMAIN artifacts \ sunk) : saved' = saved \o order
      <3>1. PICK order \in InOrder(DOMAIN artifacts \ sunk) : saved' = saved \o order
        BY <2>3
      <3> DEFINE all == saved \o order
      <3>2. /\ all \in Seq(DOMAIN artifacts) /\ Distinct(all)
            /\ { all[i] : i \in DOMAIN all } = DOMAIN artifacts
        BY <1>0, <2>1, RestIsStored
      <3>3. saved' = all
        BY <3>1
      <3> HIDE DEF all
      <3> QED
        BY <2>1, <2>2, <3>2, <3>3 DEF Stored, StoredOrTold, Saved
    <2>4. CASE UNCHANGED saved /\ turn' = "failed"
      BY <2>1, <2>2, <2>4 DEF Stored, StoredOrTold, Distinct
    <2> QED
      BY <1>3, <2>3, <2>4 DEF SaveRest, SaveFails
  <1>4. ASSUME \/ \E c \in Calls : Enter(c) \/ OnToolStart(c) \/ MissesTheEnd(c)
               \/ UNCHANGED batchVars
        PROVE  Stored'
    <2>1. UNCHANGED <<artifacts, sunk, saved, turn>>
      BY <1>4 DEF Enter, OnToolStart, MissesTheEnd, batchVars
    <2>2. turn # "open" => UNCHANGED stage
      BY <1>4 DEF Stored, AllReturned, Enter, OnToolStart, MissesTheEnd, batchVars
    <2> QED
      BY <2>1, <2>2 DEF Stored, StoredOrTold, Saved, Distinct, AllReturned
  <1> QED
    BY <1>1, <1>2, <1>3, <1>4 DEF BatchNext

\* A sequence without repetitions has as many elements as places.
LEMMA DistinctCount ==
    ASSUME NEW S, NEW s \in Seq(S), Distinct(s)
    PROVE  Cardinality({ s[i] : i \in DOMAIN s }) = Len(s)
  <1> DEFINE R == { s[i] : i \in DOMAIN s }
  <1>1. Len(s) \in Nat /\ DOMAIN s = 1..Len(s) /\ s \in [1..Len(s) -> R]
    <2>1. s = [i \in 1..Len(s) |-> s[i]]
      OBVIOUS
    <2> QED
      BY <2>1
  <1>2. IsFiniteSet(1..Len(s)) /\ Cardinality(1..Len(s)) = Len(s)
    BY <1>1, FS_Interval
  <1>3. ExistsBijection(1..Len(s), R)
    <2>1. s \in Bijection(1..Len(s), R)
      BY <1>1 DEF Bijection, Injection, IsInjective, Surjection, Distinct
    <2> QED
      BY <2>1 DEF ExistsBijection
  <1> HIDE DEF R
  <1>4. Cardinality(R) = Cardinality(1..Len(s))
    BY <1>2, <1>3, FS_Bijection
  <1> QED
    BY <1>2, <1>4 DEF R

\* Both give what ArtifactsOnce says.
LEMMA OnceFollows ==
    ASSUME Gathered, Stored
    PROVE  ArtifactsOnce
  <1>1. ASSUME NEW c \in Calls
        PROVE  /\ Collected(c) <= 1
               /\ /\ stage[c] = "returned"
                  /\ shape[c].out \in {"made", "mixed"} \/ (shape[c].out = "unheard" /\ Alone(c))
                  => Collected(c) = 1
    <2> DEFINE places == { i \in DOMAIN artifacts : artifacts[i] = c }
    <2>1. Collected(c) = Cardinality(places)
      BY DEF Collected
    <2>2. CASE Has(c)
      <3>1. PICK i \in DOMAIN artifacts : artifacts[i] = c
        BY <2>2 DEF Has
      <3>2. places = {i}
        BY <3>1 DEF Gathered, Distinct
      <3>3. Cardinality(places) = 1
        BY <3>2, FS_Singleton
      <3> QED
        BY <2>1, <3>3
    <2>3. CASE ~Has(c)
      <3>1. places = {}
        BY <2>3 DEF Has
      <3>2. Cardinality(places) = 0
        BY <3>1, FS_EmptySet
      <3>3. ~(/\ stage[c] = "returned"
              /\ shape[c].out \in {"made", "mixed"} \/ (shape[c].out = "unheard" /\ Alone(c)))
        BY <2>3 DEF Gathered, Makes
      <3> QED
        BY <2>1, <3>2, <3>3
    <2> QED
      BY <2>2, <2>3
  <1>2. CollectedOnce
    BY <1>1 DEF CollectedOnce
  <1>3. SavedOnce
    <2>1. Cardinality({ saved[i] : i \in DOMAIN saved }) = Len(saved)
      BY DistinctCount DEF Stored
    <2> QED
      BY <2>1 DEF SavedOnce, Saved
  <1> QED
    BY <1>2, <1>3 DEF ArtifactsOnce

-----------------------------------------------------------------------------
(* The graph                                                               *)

DoneOf(n)     == { c \in Calls : shape[c].name = n /\ node[c] = "done" }
ReturnedOf(n) == { c \in Calls : shape[c].name = n /\ stage[c] = "returned" }

\* Whom the tracker takes to be running under a name has that name and has
\* started; the rest is GraphIsHonest.
Graph ==
    /\ running \in [Names -> Calls \union {None}]
    /\ node \in [Calls -> {None, "running", "done"}]
    /\ \A n \in Names : running[n] # None =>
         /\ shape[running[n]].name = n
         /\ stage[running[n]] \in {"started", "ended", "returned"}
    /\ \A c \in Calls : node[c] = "done" /\ Alone(c) => stage[c] = "returned"
    /\ \A n \in Names : Cardinality(DoneOf(n)) <= Cardinality(ReturnedOf(n))

\* Of two sets of calls, the smaller one has not more.
LEMMA FewerCalls ==
    ASSUME NEW T \in SUBSET Calls, NEW S \in SUBSET T
    PROVE  Cardinality(S) <= Cardinality(T)
  <1>1. IsFiniteSet(T)
    BY CallsAreFinite
  <1> QED
    BY <1>1, FS_Subset

\* A step of a call that finishes no node keeps the graph honest.
LEMMA GraphStays ==
    ASSUME StagesOK, Graph, UNCHANGED <<shape, cut>>,
           NEW c \in Calls, stage[c] \in Stages \ {"returned"},
           stage' = [stage EXCEPT ![c] = After(stage[c])],
           \/ UNCHANGED <<running, node>>
           \/ /\ stage[c] = "entered" /\ shape[c].name \in Names
              /\ running' = [running EXCEPT ![shape[c].name] = c]
              /\ node' = [node EXCEPT ![c] = "running"]
    PROVE  Graph'
  <1>1. /\ stage'[c] = After(stage[c]) /\ \A d \in Calls : d # c => stage'[d] = stage[d]
        /\ stage[c] \in {"entered", "started", "ended"} => After(stage[c]) \in {"started", "ended", "returned"}
    BY DEF StagesOK, After
  <1>2. running' \in [Names -> Calls \union {None}] /\ node' \in [Calls -> {None, "running", "done"}]
    BY DEF Graph
  <1>3. ASSUME NEW n \in Names, running'[n] # None
        PROVE  shape[running'[n]].name = n /\ stage'[running'[n]] \in {"started", "ended", "returned"}
    <2>1. CASE running'[n] = running[n]
      <3>1. running[n] \in Calls
        BY <1>3, <2>1 DEF Graph
      <3> QED
        BY <1>1, <1>3, <2>1, <3>1 DEF Graph
    <2>2. CASE running'[n] # running[n]
      <3>1. running'[n] = c /\ shape[c].name = n /\ stage[c] = "entered"
        BY <2>2 DEF Graph
      <3> QED
        BY <1>1, <3>1
    <2> QED
      BY <2>1, <2>2
  <1>4. \A d \in Calls : /\ node'[d] = "done" => node[d] = "done"
                         /\ stage[d] = "returned" => stage'[d] = "returned"
    BY <1>1 DEF Graph
  <1>5. \A d \in Calls : node'[d] = "done" /\ Alone(d)' => stage'[d] = "returned"
    BY <1>4, AloneStays DEF Graph
  <1>6. ASSUME NEW n \in Names
        PROVE  Cardinality(DoneOf(n)') <= Cardinality(ReturnedOf(n)')
    <2>1. DoneOf(n)' \in SUBSET DoneOf(n) /\ ReturnedOf(n) \in SUBSET (ReturnedOf(n)')
      BY <1>4 DEF DoneOf, ReturnedOf
    <2>2. /\ DoneOf(n) \in SUBSET Calls /\ ReturnedOf(n)' \in SUBSET Calls
          /\ DoneOf(n)' \in SUBSET Calls /\ ReturnedOf(n) \in SUBSET Calls
      BY DEF DoneOf, ReturnedOf, Calls
    <2>3. /\ Cardinality(DoneOf(n)') <= Cardinality(DoneOf(n))
          /\ Cardinality(ReturnedOf(n)) <= Cardinality(ReturnedOf(n)')
      BY <2>1, <2>2, FewerCalls
    <2>4. Cardinality(DoneOf(n)) <= Cardinality(ReturnedOf(n))
      BY DEF Graph
    <2>5. /\ Cardinality(DoneOf(n)) \in Nat /\ Cardinality(ReturnedOf(n)) \in Nat
          /\ Cardinality(DoneOf(n)') \in Nat /\ Cardinality(ReturnedOf(n)') \in Nat
      BY <2>2, CallsAreFinite
    <2> QED
      BY <2>3, <2>4, <2>5
  <1> QED
    BY <1>2, <1>3, <1>5, <1>6 DEF Graph, Calls

\* Who returns may finish one node of its name, its own if that one is alone.
LEMMA GraphGrows ==
    ASSUME StagesOK, Exclusive, Graph, UNCHANGED <<shape, cut>>,
           NEW c \in Calls, stage[c] = "ended", shape[c].name \in Names,
           stage' = [stage EXCEPT ![c] = "returned"],
           running[shape[c].name] # None,
           node' = [node EXCEPT ![running[shape[c].name]] = "done"],
           running' = [running EXCEPT ![shape[c].name] = None]
    PROVE  Graph'
  <1>0. PICK r \in Calls : r = running[shape[c].name]
    BY DEF Graph
  <1>1. /\ stage'[c] = "returned" /\ \A d \in Calls : d # c => stage'[d] = stage[d]
        /\ node'[r] = "done" /\ \A d \in Calls : d # r => node'[d] = node[d]
        /\ shape[r].name = shape[c].name /\ stage[r] \in {"started", "ended", "returned"}
    BY <1>0 DEF StagesOK, Graph
  <1>2. running' \in [Names -> Calls \union {None}] /\ node' \in [Calls -> {None, "running", "done"}]
    BY <1>0 DEF Graph
  <1>3. ASSUME NEW n \in Names, running'[n] # None
        PROVE  shape[running'[n]].name = n /\ stage'[running'[n]] \in {"started", "ended", "returned"}
    <2>1. running'[n] = running[n] /\ running[n] \in Calls
      BY <1>3 DEF Graph
    <2> QED
      BY <1>1, <1>3, <2>1 DEF Graph
  <1>4. ASSUME NEW d \in Calls, node'[d] = "done", Alone(d) PROVE stage'[d] = "returned"
    <2>1. CASE d = r
      <3>1. Inside(d) => d = c
        BY <1>4 DEF Exclusive, Inside
      <3>2. ~Inside(d) => stage[d] = "returned"
        BY <1>1, <2>1 DEF Inside
      <3> QED
        BY <1>1, <3>1, <3>2
    <2>2. CASE d # r
      BY <1>1, <1>4, <2>2 DEF Graph
    <2> QED
      BY <2>1, <2>2
  <1>5. ASSUME NEW n \in Names
        PROVE  Cardinality(DoneOf(n)') <= Cardinality(ReturnedOf(n)')
    <2>2. /\ DoneOf(n) \in SUBSET Calls /\ ReturnedOf(n)' \in SUBSET Calls
          /\ DoneOf(n)' \in SUBSET Calls /\ ReturnedOf(n) \in SUBSET Calls
      BY DEF DoneOf, ReturnedOf, Calls
    <2>4. Cardinality(DoneOf(n)) <= Cardinality(ReturnedOf(n))
      BY DEF Graph
    <2>5. /\ Cardinality(DoneOf(n)) \in Nat /\ Cardinality(ReturnedOf(n)) \in Nat
          /\ Cardinality(DoneOf(n)') \in Nat /\ Cardinality(ReturnedOf(n)') \in Nat
          /\ IsFiniteSet(DoneOf(n)) /\ IsFiniteSet(ReturnedOf(n))
      BY <2>2, CallsAreFinite
    <2>6. CASE n = shape[c].name
      <3>1. ReturnedOf(n)' = ReturnedOf(n) \union {c} /\ c \notin ReturnedOf(n)
        BY <1>1, <2>6 DEF ReturnedOf, Calls
      <3>2. DoneOf(n)' = DoneOf(n) \union {r}
        BY <1>1, <2>6 DEF DoneOf, Calls
      <3>3. Cardinality(ReturnedOf(n)') = Cardinality(ReturnedOf(n)) + 1
        BY <2>5, <3>1, FS_AddElement
      <3>4. Cardinality(DoneOf(n)') = Cardinality(DoneOf(n)) \/ Cardinality(DoneOf(n)') = Cardinality(DoneOf(n)) + 1
        BY <2>5, <3>2, FS_AddElement
      <3> QED
        BY <2>4, <2>5, <3>3, <3>4
    <2>7. CASE n # shape[c].name
      <3>1. ReturnedOf(n)' = ReturnedOf(n) /\ DoneOf(n)' = DoneOf(n)
        BY <1>1, <2>7 DEF ReturnedOf, DoneOf, Calls
      <3> QED
        BY <2>4, <3>1
    <2> QED
      BY <2>6, <2>7
  <1>6. \A d \in Calls : Alone(d)' <=> Alone(d)
    BY AloneStays
  <1> QED
    BY <1>2, <1>3, <1>4, <1>5, <1>6 DEF Graph, Calls

\* Every step keeps the graph honest.
LEMMA GraphStep ==
    ASSUME shape \in [Calls -> Shapes], StagesOK, Exclusive, Graph,
           [BatchNext]_(batchVars)
    PROVE  Graph'
  <1>0. \A c \in Calls : shape[c].name \in Names
    BY BatchAssumption DEF AllShapes
  <1>1. ASSUME NEW c \in Calls, ReturnFrom(c) PROVE Graph'
    <2>1. /\ stage[c] = "ended" /\ stage' = [stage EXCEPT ![c] = "returned"] /\ UNCHANGED <<shape, cut>>
          /\ UNCHANGED <<running, node>> \/ NodeEnds(shape[c].name)
      BY <1>1 DEF ReturnFrom, Absorb
    <2>2. CASE UNCHANGED <<running, node>>
      <3>1. stage[c] \in Stages \ {"returned"} /\ After(stage[c]) = "returned"
        BY <2>1 DEF Stages, After
      <3> QED
        BY <2>1, <2>2, <3>1, GraphStays
    <2>3. CASE ~UNCHANGED <<running, node>>
      <3>1. /\ running[shape[c].name] # None
            /\ node' = [node EXCEPT ![running[shape[c].name]] = "done"]
            /\ running' = [running EXCEPT ![shape[c].name] = None]
        BY <2>1, <2>3 DEF NodeEnds
      <3> QED
        BY <1>0, <2>1, <3>1, GraphGrows
    <2> QED
      BY <2>2, <2>3
  <1>2. ASSUME NEW c \in Calls, OnToolStart(c) PROVE Graph'
    <2>1. /\ stage[c] = "entered" /\ stage' = [stage EXCEPT ![c] = After(stage[c])]
          /\ UNCHANGED <<shape, cut>> /\ stage[c] \in Stages \ {"returned"}
          /\ running' = [running EXCEPT ![shape[c].name] = c]
          /\ node' = [node EXCEPT ![c] = "running"]
      BY <1>2 DEF OnToolStart, After, Stages
    <2> QED
      BY <1>0, <2>1, GraphStays
  <1>3. ASSUME NEW c \in Calls, Enter(c) \/ OnToolEnd(c) \/ MissesTheEnd(c) PROVE Graph'
    <2>1. /\ stage' = [stage EXCEPT ![c] = After(stage[c])]
          /\ UNCHANGED <<shape, cut, running, node>> /\ stage[c] \in Stages \ {"returned"}
      BY <1>3 DEF Enter, OnToolEnd, MissesTheEnd, After, Stages
    <2> QED
      BY <2>1, GraphStays
  <1>4. CASE SaveRest \/ SaveFails \/ UNCHANGED batchVars
    <2>1. UNCHANGED <<shape, cut, stage, running, node>>
      BY <1>4 DEF SaveRest, SaveFails, batchVars
    <2>2. \A d : Alone(d)' <=> Alone(d)
      BY <2>1, AloneStays
    <2> QED
      BY <2>1, <2>2 DEF Graph, DoneOf, ReturnedOf
  <1> QED
    BY <1>1, <1>2, <1>3, <1>4 DEF BatchNext

\* It gives what GraphIsHonest says.
LEMMA GraphFollows ==
    ASSUME Graph
    PROVE  GraphIsHonest
  <1>1. \A n \in Names : Cardinality(DoneOf(n)) <= Cardinality(ReturnedOf(n))
    BY DEF Graph
  <1> QED
    BY <1>1 DEF Graph, GraphIsHonest, DoneOf, ReturnedOf

-----------------------------------------------------------------------------
(* The activities                                                          *)

Begun(c) == stage[c] \in {"started", "ended", "returned"}
Activity == [call : Calls, by : Calls \union {None}]
Open(i)  == activities[i].by = None

\* Whose end closes the activity of c
Tells(c, d) ==
    /\ Heard(d)
    /\ shape[c].name = shape[d].name /\ shape[c].id = shape[d].id
    /\ shape[c].id \/ Alone(d) \/ (Alone(c) /\ shape[c].out # "unheard") => c = d

\* A call that has begun has an activity, one that is alone the last and an
\* open one as long as it runs; the rest is ActivitiesTellTheirCalls.
Told ==
    /\ activities \in Seq(Activity)
    /\ \A i \in DOMAIN activities : Begun(activities[i].call)
    /\ \A i, j \in DOMAIN activities : activities[i].call = activities[j].call => i = j
    /\ \A c \in Calls : Begun(c) => \E i \in DOMAIN activities : activities[i].call = c
    /\ \A i \in DOMAIN activities : ~Open(i) => Tells(activities[i].call, activities[i].by)
    /\ \A i, j \in DOMAIN activities : ~Open(i) /\ activities[i].by = activities[j].by => i = j
    /\ \A d \in Calls : Heard(d) => \E i \in DOMAIN activities : activities[i].by = d
    /\ \A c \in Calls : Alone(c) /\ stage[c] = "started" =>
         /\ Len(activities) \in DOMAIN activities /\ Open(Len(activities))
         /\ activities[Len(activities)].call = c

ShapesOK == shape \in [Calls -> Shapes]

\* What an activity is made of.
LEMMA ActivityParts ==
    ASSUME activities \in Seq(Activity)
    PROVE  /\ Len(activities) \in Nat /\ DOMAIN activities = 1..Len(activities)
           /\ \A i \in DOMAIN activities : /\ activities[i] \in Activity
                                           /\ activities[i].call \in Calls
                                           /\ activities[i].by \in Calls \union {None}
  <1>1. \A i \in DOMAIN activities : activities[i] \in Activity
    BY ElementOfSeq
  <1> QED
    BY <1>1, LenProperties DEF Activity

\* The flag of a call is a truth value.
LEMMA IdsAreFlags ==
    ASSUME ShapesOK
    PROVE  \A c \in Calls : shape[c].id \in BOOLEAN
  BY BatchAssumption DEF ShapesOK, AllShapes

\* A call that ends finds an activity to close: all those of its name without
\* an id cannot be closed by the other calls of that name alone.
LEMMA FindsOne ==
    ASSUME ShapesOK, Told, NEW c \in Calls, stage[c] = "started"
    PROVE  ClosesOneOf(c) # {}
  <1>1. PICK own \in DOMAIN activities : activities[own].call = c
    BY DEF Told, Begun
  <1>2. CASE shape[c].id
    BY <1>1, <1>2 DEF ClosesOneOf
  <1>3. CASE ~shape[c].id
    <2> SUFFICES ASSUME ClosesOneOf(c) = {} PROVE FALSE
      OBVIOUS
    <2> DEFINE S    == { x \in Calls : Begun(x) /\ shape[x].name = shape[c].name /\ ~shape[x].id }
               T    == S \ {c}
               f    == [x \in S |-> CHOOSE y \in T : \E i \in DOMAIN activities :
                                        activities[i].call = x /\ activities[i].by = y]
    <2>1. ASSUME NEW x \in S
          PROVE  \E y \in T : \E i \in DOMAIN activities : activities[i].call = x /\ activities[i].by = y
      <3>1. PICK i \in DOMAIN activities : activities[i].call = x
        BY DEF Told
      <3>2. ~Open(i)
        BY <1>3, <3>1 DEF ClosesOneOf, Open
      <3>3. activities[i].by \in Calls
        BY <3>2, ActivityParts DEF Told, Open
      <3>4. Tells(x, activities[i].by)
        BY <3>1, <3>2 DEF Told
      <3>5. Begun(activities[i].by) /\ activities[i].by # c
        BY <3>4 DEF Tells, Heard, Begun
      <3> QED
        BY <3>1, <3>3, <3>4, <3>5 DEF Tells
    <2>2. \A x \in S : /\ f[x] \in T
                       /\ \E i \in DOMAIN activities : activities[i].call = x /\ activities[i].by = f[x]
      BY <2>1
    <2>3. IsFiniteSet(S) /\ IsFiniteSet(T) /\ Cardinality(T) = Cardinality(S) - 1 /\ Cardinality(S) \in Nat
      <3>1. IsFiniteSet(S) /\ Cardinality(S) \in Nat
        BY CallsAreFinite
      <3>2. c \in S
        BY <1>3 DEF Begun
      <3> QED
        BY <3>1, <3>2, FS_RemoveElement
    <2>4. f \in [S -> T]
      BY <2>2
    <2> HIDE DEF S, T, f
    <2>5. PICK x \in S, y \in S : x # y /\ f[x] = f[y]
      <3>1. Cardinality(T) < Cardinality(S)
        BY <2>3
      <3> QED
        BY <2>3, <2>4, <3>1, FS_PigeonHole
    <2>6. PICK i \in DOMAIN activities : activities[i].call = x /\ activities[i].by = f[x]
      BY <2>2
    <2>7. PICK j \in DOMAIN activities : activities[j].call = y /\ activities[j].by = f[y]
      BY <2>2
    <2>8. f[x] # None
      BY <2>2, BatchAssumption DEF T, S
    <2>9. i = j
      BY <2>5, <2>6, <2>7, <2>8 DEF Told, Open
    <2> QED
      BY <2>5, <2>6, <2>7, <2>9
  <1> QED
    BY <1>2, <1>3

\* It closes an open one, and its own whenever they can be told apart.
LEMMA ClosesItsOwn ==
    ASSUME ShapesOK, Exclusive, Told,
           NEW c \in Calls, stage[c] = "started", shape[c].out # "unheard",
           NEW m, m = Max(ClosesOneOf(c))
    PROVE  /\ m \in DOMAIN activities /\ Open(m)
           /\ shape[activities[m].call].name = shape[c].name
           /\ shape[activities[m].call].id = shape[c].id
           /\ \/ shape[activities[m].call].id \/ Alone(c)
              \/ Alone(activities[m].call) /\ shape[activities[m].call].out # "unheard"
              => activities[m].call = c
  <1> DEFINE ours == ClosesOneOf(c)
             x    == activities[m].call
  <1>1. Len(activities) \in Nat /\ DOMAIN activities = 1..Len(activities)
    BY ActivityParts DEF Told
  <1>2. ours \in SUBSET (1..Len(activities)) /\ ours # {}
    BY <1>1, FindsOne DEF ClosesOneOf
  <1>3. m \in ours /\ \A i \in ours : i <= m
    <2> HIDE DEF ours
    <2>1. m = Max(ours)
      BY DEF ours
    <2> QED
      BY <1>1, <1>2, <2>1, MaxIsLast
  <1>4. m \in DOMAIN activities /\ x \in Calls /\ Begun(x) /\ ~Heard(c)
    BY <1>1, <1>2, <1>3, ActivityParts DEF Told, Heard
  <1>5. shape[x].id \in BOOLEAN /\ shape[c].id \in BOOLEAN
    BY <1>4, IdsAreFlags
  <1>6. CASE shape[c].id
    <2>1. x = c
      BY <1>3, <1>6 DEF ClosesOneOf
    <2>2. ~Tells(x, activities[m].by)
      BY <1>4, <1>6, <2>1 DEF Tells
    <2>3. Open(m)
      BY <1>4, <2>2 DEF Told
    <2> QED
      BY <1>4, <2>1, <2>3
  <1>7. CASE ~shape[c].id
    <2>1. Open(m) /\ shape[x].name = shape[c].name /\ ~shape[x].id
      BY <1>3, <1>7 DEF ClosesOneOf, Open
    <2>2. ASSUME Alone(c) PROVE x = c
      <3>1. /\ Len(activities) \in DOMAIN activities /\ Open(Len(activities))
            /\ activities[Len(activities)].call = c
        BY <2>2 DEF Told
      <3>2. Len(activities) \in ours
        BY <1>7, <3>1 DEF ClosesOneOf, Open
      <3>3. m = Len(activities)
        BY <1>1, <1>2, <1>3, <3>2
      <3> QED
        BY <3>1, <3>3
    <2>3. ASSUME Alone(x), shape[x].out # "unheard" PROVE x = c
      <3>1. CASE Inside(x)
        BY <1>4, <2>3, <3>1 DEF Exclusive, Inside
      <3>2. CASE ~Inside(x)
        <4>1. Heard(x)
          BY <1>4, <2>3, <3>2 DEF Begun, Heard, Inside
        <4>2. PICK j \in DOMAIN activities : activities[j].by = x
          BY <1>4, <4>1 DEF Told
        <4>3. ~Open(j)
          BY <1>4, <4>2, BatchAssumption DEF Open
        <4>4. Tells(activities[j].call, x)
          BY <4>2, <4>3 DEF Told
        <4>5. activities[j].call = x
          BY <2>3, <4>4 DEF Tells
        <4>6. j = m
          BY <1>4, <4>5 DEF Told
        <4> QED
          BY <2>1, <4>3, <4>6
      <3> QED
        BY <3>1, <3>2
    <2>4. shape[x].id = shape[c].id
      BY <1>5, <1>7, <2>1
    <2> QED
      BY <1>4, <2>1, <2>2, <2>3, <2>4
  <1> QED
    BY <1>6, <1>7

\* A call that moves on without an event changes no activity.
LEMMA ToldStays ==
    ASSUME StagesOK, Told, UNCHANGED <<shape, cut, activities>>, NEW c \in Calls,
           stage' = [stage EXCEPT ![c] = After(stage[c])],
           stage[c] \in {"todo", "ended"} \/ (stage[c] = "started" /\ shape[c].out = "unheard")
    PROVE  Told'
  <1>1. stage'[c] = After(stage[c]) /\ \A d \in Calls : d # c => stage'[d] = stage[d]
    BY DEF StagesOK
  <1>2. \A d \in Calls : /\ Begun(d)' <=> Begun(d)
                         /\ Heard(d)' <=> Heard(d)
                         /\ stage'[d] = "started" => stage[d] = "started"
                         /\ Alone(d)' <=> Alone(d)
    BY <1>1, AloneStays DEF Begun, Heard, After
  <1>3. \A i \in DOMAIN activities : activities[i].call \in Calls /\ Begun(activities[i].call)'
    BY <1>2, ActivityParts DEF Told
  <1>4. ASSUME NEW i \in DOMAIN activities, ~Open(i)
        PROVE  Tells(activities[i].call, activities[i].by)'
    <2>1. activities[i].call \in Calls /\ activities[i].by \in Calls
      BY <1>4, ActivityParts DEF Told, Open
    <2>2. Tells(activities[i].call, activities[i].by)
      BY <1>4 DEF Told
    <2> QED
      BY <1>2, <2>1, <2>2 DEF Tells
  <1> QED
    BY <1>2, <1>3, <1>4 DEF Told, Open, Activity, Calls

\* A start adds an open activity.
LEMMA ToldOpens ==
    ASSUME StagesOK, Exclusive, Told, NEW c \in Calls, OnToolStart(c)
    PROVE  Told'
  <1> DEFINE n    == Len(activities)
             last == [call |-> c, by |-> None]
  <1>0. /\ UNCHANGED <<shape, cut>> /\ stage[c] = "entered"
        /\ stage' = [stage EXCEPT ![c] = "started"] /\ activities' = Append(activities, last)
    BY DEF OnToolStart, Opened
  <1>1. stage'[c] = "started" /\ \A d \in Calls : d # c => stage'[d] = stage[d]
    BY <1>0 DEF StagesOK
  <1>2. \A d \in Calls : /\ Begun(d)' <=> Begun(d) \/ d = c
                         /\ Heard(d)' <=> Heard(d)
                         /\ Alone(d)' <=> Alone(d)
    BY <1>0, <1>1, AloneStays DEF Begun, Heard
  <1>3. last \in Activity
    BY DEF Activity
  <1>4. /\ n \in Nat /\ DOMAIN activities = 1..n /\ activities' \in Seq(Activity)
        /\ Len(activities') = n + 1 /\ DOMAIN activities' = 1..(n + 1)
        /\ activities'[n + 1] = last /\ \A i \in 1..n : activities'[i] = activities[i]
    <2> HIDE DEF last
    <2> QED
      BY <1>0, <1>3 DEF Told
  <1>5. \A i \in 1..n : /\ activities[i].call \in Calls /\ Begun(activities[i].call)
                        /\ activities[i].call # c
    <2>1. \A i \in 1..n : activities[i].call \in Calls /\ Begun(activities[i].call)
      BY <1>4, ActivityParts DEF Told
    <2> QED
      BY <1>0, <2>1 DEF Begun
  <1>6. \A i \in DOMAIN activities' : \/ i = n + 1 /\ activities'[i] = last
                                      \/ i \in DOMAIN activities /\ activities'[i] = activities[i]
    BY <1>4
  <1>7. last.call = c /\ last.by = None
    OBVIOUS
  <1>8. n + 1 \in DOMAIN activities' /\ \A i \in DOMAIN activities : i \in DOMAIN activities'
    BY <1>4
  <1> HIDE DEF n, last
  <1>9. \A i \in DOMAIN activities' : \/ activities'[i].call \in Calls /\ Begun(activities'[i].call)
                                      \/ activities'[i].call = c
    BY <1>4, <1>5, <1>6, <1>7
  <1>10. \A i, j \in DOMAIN activities' : activities'[i].call = activities'[j].call => i = j
    BY <1>4, <1>5, <1>6, <1>7 DEF Told
  <1>11. \A d \in Calls : Begun(d)' => \E i \in DOMAIN activities' : activities'[i].call = d
    BY <1>2, <1>4, <1>7, <1>8 DEF Told
  <1>12. ASSUME NEW i \in DOMAIN activities', activities'[i].by # None,
                NEW x, NEW y, x = activities'[i].call, y = activities'[i].by
         PROVE  Tells(x, y)'
    <2>1. i \in DOMAIN activities /\ activities'[i] = activities[i] /\ ~Open(i)
      BY <1>6, <1>7, <1>12 DEF Open
    <2>2. x \in Calls /\ y \in Calls
      BY <1>12, <2>1, ActivityParts DEF Told, Open
    <2>3. Tells(x, y)
      BY <1>12, <2>1 DEF Told
    <2> QED
      BY <1>0, <1>2, <2>2, <2>3 DEF Tells
  <1>13. \A i, j \in DOMAIN activities' :
            activities'[i].by # None /\ activities'[i].by = activities'[j].by => i = j
    BY <1>6, <1>7 DEF Told, Open
  <1>14. \A d \in Calls : Heard(d)' => \E i \in DOMAIN activities' : activities'[i].by = d
    BY <1>2, <1>4, <1>8 DEF Told
  <1>15. ASSUME NEW d \in Calls, Alone(d), stage'[d] = "started"
         PROVE  /\ Len(activities') \in DOMAIN activities' /\ activities'[Len(activities')].by = None
                /\ activities'[Len(activities')].call = d
    <2>1. d = c
      BY <1>0, <1>1, <1>15 DEF Exclusive, Inside
    <2> QED
      BY <1>4, <1>7, <1>8, <2>1
  <1> QED
    BY <1>2, <1>4, <1>9, <1>10, <1>11, <1>12, <1>13, <1>14, <1>15 DEF Told, Open

\* An end closes one activity.
LEMMA ToldCloses ==
    ASSUME ShapesOK, StagesOK, Exclusive, Told,
           NEW c \in Calls, OnToolEnd(c)
    PROVE  Told'
  <1>0. PICK m : m = Max(ClosesOneOf(c))
    OBVIOUS
  <1>1. /\ UNCHANGED <<shape, cut>> /\ stage[c] = "started" /\ shape[c].out # "unheard"
        /\ stage' = [stage EXCEPT ![c] = "ended"]
    BY DEF OnToolEnd
  <1>2. /\ m \in DOMAIN activities /\ Open(m)
        /\ shape[activities[m].call].name = shape[c].name
        /\ shape[activities[m].call].id = shape[c].id
        /\ \/ shape[activities[m].call].id \/ Alone(c)
           \/ Alone(activities[m].call) /\ shape[activities[m].call].out # "unheard"
           => activities[m].call = c
    BY <1>0, <1>1, ClosesItsOwn
  <1>3. activities' = [activities EXCEPT ![m].by = c]
    <2>1. ClosesOneOf(c) # {}
      BY <1>1, FindsOne
    <2> QED
      BY <1>0, <2>1 DEF OnToolEnd, Closed
  <1>4. stage'[c] = "ended" /\ \A d \in Calls : d # c => stage'[d] = stage[d]
    BY <1>1 DEF StagesOK
  <1>5. \A d \in Calls : /\ Begun(d)' <=> Begun(d)
                         /\ Heard(d)' <=> Heard(d) \/ d = c
                         /\ Alone(d)' <=> Alone(d)
    BY <1>1, <1>4, AloneStays DEF Begun, Heard
  <1>6. /\ activities' \in Seq(Activity) /\ DOMAIN activities' = DOMAIN activities
        /\ Len(activities') = Len(activities)
        /\ \A i \in DOMAIN activities : /\ activities'[i].call = activities[i].call
                                        /\ activities[i].call \in Calls
                                        /\ activities'[i].by = IF i = m THEN c ELSE activities[i].by
    <2>1. \A i \in DOMAIN activities : activities[i] \in Activity /\ activities[i].call \in Calls
      BY ActivityParts DEF Told
    <2>2. [activities[m] EXCEPT !.by = c] \in Activity
      BY <1>2, <2>1 DEF Activity
    <2>3. activities' \in Seq(Activity)
      BY <1>2, <1>3, <2>2, ExceptSeq DEF Told
    <2>4. DOMAIN activities' = DOMAIN activities /\ Len(activities') = Len(activities)
      BY <1>2, <1>3, <2>2, ExceptSeq DEF Told
    <2>5. \A i \in DOMAIN activities : /\ activities'[i].call = activities[i].call
                                       /\ activities'[i].by = IF i = m THEN c ELSE activities[i].by
      BY <1>2, <1>3, <2>1 DEF Activity, Told
    <2> QED
      BY <2>1, <2>3, <2>4, <2>5
  <1>7. \A i \in DOMAIN activities : activities[i].by # c
    <2> SUFFICES ASSUME NEW i \in DOMAIN activities, activities[i].by = c PROVE FALSE
      OBVIOUS
    <2>1. Tells(activities[i].call, c)
      BY BatchAssumption DEF Told, Open
    <2> QED
      BY <1>1, <2>1 DEF Tells, Heard
  <1>8. ASSUME NEW i \in DOMAIN activities, activities'[i].by # None,
               NEW x, NEW y, x = activities'[i].call, y = activities'[i].by
        PROVE  Tells(x, y)'
    <2>1. CASE i = m
      <3>1. x = activities[m].call /\ y = c /\ x \in Calls
        BY <1>6, <1>8, <2>1
      <3>2. Heard(y)'
        BY <1>5, <3>1
      <3> QED
        BY <1>1, <1>2, <1>5, <3>1, <3>2 DEF Tells
    <2>2. CASE i # m
      <3>1. x = activities[i].call /\ y = activities[i].by /\ ~Open(i)
        BY <1>6, <1>8, <2>2 DEF Open
      <3>2. x \in Calls /\ y \in Calls
        BY <3>1, ActivityParts DEF Told, Open
      <3>3. Tells(x, y)
        BY <3>1 DEF Told
      <3> QED
        BY <1>1, <1>5, <3>2, <3>3 DEF Tells
    <2> QED
      BY <2>1, <2>2
  <1>9. \A i, j \in DOMAIN activities' :
           activities'[i].by # None /\ activities'[i].by = activities'[j].by => i = j
    BY <1>6, <1>7 DEF Told, Open
  <1>10. ASSUME NEW d \in Calls, Heard(d)'
         PROVE  \E i \in DOMAIN activities' : activities'[i].by = d
    <2>1. CASE d = c
      BY <1>2, <1>6, <2>1
    <2>2. CASE d # c
      <3>1. PICK i \in DOMAIN activities : activities[i].by = d
        BY <1>5, <1>10, <2>2 DEF Told
      <3>2. i # m
        BY <1>2, <3>1, BatchAssumption DEF Open
      <3> QED
        BY <1>6, <3>1, <3>2
    <2> QED
      BY <2>1, <2>2
  <1>11. \A d \in Calls : ~(Alone(d) /\ stage'[d] = "started")
    BY <1>1, <1>4 DEF Exclusive, Inside
  <1>12. \A i \in DOMAIN activities' : activities'[i].call \in Calls /\ Begun(activities'[i].call)
    BY <1>6 DEF Told
  <1>13. \A i, j \in DOMAIN activities' : activities'[i].call = activities'[j].call => i = j
    BY <1>6 DEF Told
  <1>14. \A d \in Calls : Begun(d) => \E i \in DOMAIN activities' : activities'[i].call = d
    BY <1>6 DEF Told
  <1> QED
    BY <1>5, <1>6, <1>8, <1>9, <1>10, <1>11, <1>12, <1>13, <1>14 DEF Told, Open

\* Every step keeps the activities honest.
LEMMA ToldStep ==
    ASSUME ShapesOK, StagesOK, Exclusive, Told, [BatchNext]_(batchVars)
    PROVE  Told'
  <1>1. ASSUME NEW c \in Calls, Enter(c) \/ MissesTheEnd(c) \/ ReturnFrom(c) PROVE Told'
    <2>1. /\ stage' = [stage EXCEPT ![c] = After(stage[c])] /\ UNCHANGED <<shape, cut, activities>>
          /\ stage[c] \in {"todo", "ended"} \/ (stage[c] = "started" /\ shape[c].out = "unheard")
      BY <1>1 DEF Enter, MissesTheEnd, ReturnFrom, After
    <2> QED
      BY <2>1, ToldStays
  <1>2. ASSUME NEW c \in Calls, OnToolStart(c) PROVE Told'
    BY <1>2, ToldOpens
  <1>3. ASSUME NEW c \in Calls, OnToolEnd(c) PROVE Told'
    BY <1>3, ToldCloses
  <1>4. CASE SaveRest \/ SaveFails \/ UNCHANGED batchVars
    <2>1. UNCHANGED <<shape, cut, stage, activities>>
      BY <1>4 DEF SaveRest, SaveFails, batchVars
    <2>2. \A d : Alone(d)' <=> Alone(d)
      BY <2>1, AloneStays
    <2>3. \A x, y : Tells(x, y)' <=> Tells(x, y)
      BY <2>1, <2>2 DEF Tells, Heard
    <2> QED
      BY <2>1, <2>2, <2>3 DEF Told, Open, Begun, Heard, Activity, Calls
  <1> QED
    BY <1>1, <1>2, <1>3, <1>4 DEF BatchNext

\* It gives what ActivitiesTellTheirCalls says.
LEMMA ToldFollows ==
    ASSUME Told
    PROVE  ActivitiesTellTheirCalls
  <1>1. \A i \in DOMAIN activities :
           activities[i].by # None => Tells(activities[i].call, activities[i].by)
    BY DEF Told, Open
  <1>2. \A i, j \in DOMAIN activities :
           activities[i].by # None /\ activities[i].by = activities[j].by => i = j
    BY DEF Told, Open
  <1>3. \A d \in Calls : Heard(d) =>
           \E i \in DOMAIN activities : activities[i].by # None /\ activities[i].by = d
    BY BatchAssumption DEF Told
  <1> QED
    BY <1>1, <1>2, <1>3 DEF ActivitiesTellTheirCalls, Tells

-----------------------------------------------------------------------------
(* The theorems about a batch                                              *)

BatchInv == ShapesOK /\ StagesOK /\ Exclusive /\ InTurn /\ Gathered /\ Stored /\ Graph /\ Told

\* A request begins so.
LEMMA BatchStarts ==
    ASSUME BatchInit
    PROVE  BatchInv
  <1>1. \A c \in Calls : stage[c] = "todo" /\ before[c] = 0 /\ node[c] = None
    BY DEF BatchInit
  <1>2. ShapesOK /\ StagesOK /\ Exclusive /\ InTurn
    BY <1>1 DEF BatchInit, ShapesOK, StagesOK, Stages, Exclusive, InTurn, Inside
  <1>3. artifacts = <<>> /\ activities = <<>> /\ saved = <<>> /\ sunk = {} /\ running = [n \in Names |-> None]
    BY DEF BatchInit
  <1>4. /\ artifacts \in Seq(Calls) /\ activities \in Seq(Activity) /\ saved \in Seq(DOMAIN artifacts)
        /\ DOMAIN artifacts = {} /\ DOMAIN activities = {} /\ DOMAIN saved = {} /\ Len(artifacts) = 0
    BY <1>3
  <1>5. before \in [Calls -> Nat] /\ node \in [Calls -> {None, "running", "done"}]
    BY DEF BatchInit
  <1>6. Gathered
    BY <1>1, <1>4, <1>5 DEF Gathered, Distinct, Inside
  <1>7. Stored
    BY <1>3, <1>4 DEF BatchInit, Stored, StoredOrTold, Distinct
  <1>8. Graph
    <2>1. \A n : DoneOf(n) = {} /\ ReturnedOf(n) = {}
      BY <1>1, BatchAssumption DEF DoneOf, ReturnedOf
    <2>2. \A n : Cardinality(DoneOf(n)) = 0 /\ Cardinality(ReturnedOf(n)) = 0
      BY <2>1, FS_EmptySet
    <2>3. \A n \in Names : running[n] = None
      BY <1>3
    <2>4. running \in [Names -> Calls \union {None}]
      BY <1>3
    <2> QED
      BY <1>1, <1>5, <2>2, <2>3, <2>4, BatchAssumption DEF Graph
  <1>9. Told
    BY <1>1, <1>4 DEF Told, Begun, Heard
  <1> QED
    BY <1>2, <1>6, <1>7, <1>8, <1>9 DEF BatchInv

\* And every step keeps it so.
LEMMA BatchGoesOn ==
    ASSUME BatchInv, [BatchNext]_(batchVars)
    PROVE  BatchInv'
  <1>1. StagesOK' /\ Exclusive' /\ InTurn'
    BY OrderStays DEF BatchInv
  <1>2. Gathered' /\ Stored'
    BY CollectedStep, StoredStep DEF BatchInv
  <1>3. Graph' /\ Told'
    BY GraphStep, ToldStep DEF BatchInv, ShapesOK
  <1>4. ShapesOK'
    BY StepIsOfCall DEF BatchInv, ShapesOK, Calls
  <1> QED
    BY <1>1, <1>2, <1>3, <1>4 DEF BatchInv

\* The state of a request's calls keeps its types: positions that are marked
\* or stored are those of artifacts there are.
THEOREM BatchTypes == BatchSpec => []BatchTypeOK
  <1>1. BatchInit => BatchInv
    BY BatchStarts
  <1>2. BatchInv /\ [BatchNext]_(batchVars) => BatchInv'
    BY BatchGoesOn
  <1>3. BatchInv => BatchTypeOK
    BY DEF BatchInv, BatchTypeOK, ShapesOK, StagesOK, Stages, Gathered, Stored, Graph, Told, Activity
  <1> QED
    BY <1>1, <1>2, <1>3, PTL DEF BatchSpec

\* What a tool made is collected once, by the callback or the net behind it,
\* and stored at most once, whatever threads run in the batch.
THEOREM ArtifactsAreOnce == BatchSpec => []ArtifactsOnce
  <1>1. BatchInit => BatchInv
    BY BatchStarts
  <1>2. BatchInv /\ [BatchNext]_(batchVars) => BatchInv'
    BY BatchGoesOn
  <1>3. BatchInv => ArtifactsOnce
    BY OnceFollows DEF BatchInv
  <1> QED
    BY <1>1, <1>2, <1>3, PTL DEF BatchSpec

\* A turn that is reported as saved has stored all its tools made, whichever
\* calls of the sink failed before.
THEOREM ReportedTurnsAreStored == BatchSpec => []StoredOrTold
  <1>1. BatchInit => BatchInv
    BY BatchStarts
  <1>2. BatchInv /\ [BatchNext]_(batchVars) => BatchInv'
    BY BatchGoesOn
  <1>3. BatchInv => StoredOrTold
    BY DEF BatchInv, Stored
  <1> QED
    BY <1>1, <1>2, <1>3, PTL DEF BatchSpec

\* The saved activities and the graph of the execution are true as far as
\* calls can be told apart, in whatever order the callbacks come.
THEOREM ProgressStaysHonest == BatchSpec => []ProgressIsHonest
  <1>1. BatchInit => BatchInv
    BY BatchStarts
  <1>2. BatchInv /\ [BatchNext]_(batchVars) => BatchInv'
    BY BatchGoesOn
  <1>3. BatchInv => ProgressIsHonest
    BY GraphFollows, ToldFollows DEF BatchInv, ProgressIsHonest
  <1> QED
    BY <1>1, <1>2, <1>3, PTL DEF BatchSpec

=============================================================================
