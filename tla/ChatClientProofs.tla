--------------------------- MODULE ChatClientProofs ---------------------------
(***************************************************************************)
(* Theorems about ChatClient, for any number of sessions, queries and page  *)
(* loads.                                                                   *)
(***************************************************************************)
EXTENDS ChatClient, FiniteSetTheorems, TLAPS

\* Calls of sendQuery are used in their order.
InOrder ==
    \E n \in 0..MaxCalls : \A c \in Calls : pc[c] = "none" <=> c > n

\* The call a query takes is the first one not yet made.
LEMMA NextIsNew ==
    ASSUME InOrder, CanCall
    PROVE  /\ NextCall \in Calls /\ pc[NextCall] = "none"
           /\ \A c \in Calls : c < NextCall => pc[c] # "none"
  <1>1. PICK n \in 0..MaxCalls : \A c \in Calls : pc[c] = "none" <=> c > n
    BY DEF InOrder
  <1>2. n + 1 \in Calls
    BY <1>1, ChatAssumption DEF CanCall, Calls
  <1>3. pc[n + 1] = "none" /\ \A d \in 1..((n + 1) - 1) : pc[d] # "none"
    BY <1>1, <1>2, ChatAssumption DEF Calls
  <1>4. \E c \in Calls : pc[c] = "none" /\ \A d \in 1..(c - 1) : pc[d] # "none"
    BY <1>2, <1>3
  <1>5. NextCall \in Calls /\ pc[NextCall] = "none" /\ \A d \in 1..(NextCall - 1) : pc[d] # "none"
    BY <1>4 DEF NextCall
  <1> QED
    BY <1>5, ChatAssumption DEF Calls

-----------------------------------------------------------------------------
(* The stream and its controller                                            *)

Places == {"none", "open", "recovering", "over"}

\* The streams: one at most, with its controller and session at hand.
OneStream ==
    /\ \A c, d \in Calls : pc[c] = "open" /\ pc[d] = "open" => c = d
    /\ streaming <=> \E c \in Calls : pc[c] = "open"
    /\ \A c \in Calls : pc[c] = "open" => abort = c /\ streamSid = call[c].sid

\* The reads of recoveries and retries, one for each.
OneRead ==
    /\ \A r \in reads : r.why = "recover" => r.call \in Calls /\ pc[r.call] = "recovering"
    /\ \A r, q \in reads : r.why = "recover" /\ q.why = "recover" /\ r.call = q.call => r = q
    /\ \A r \in reads : r.why = "retry" => retry.pc = "fetch"
    /\ \A r, q \in reads : r.why = "retry" /\ q.why = "retry" => r = q

\* What every step keeps.
BaseInv ==
    /\ pc \in [Calls -> Places]
    /\ call = [c \in Calls |-> call[c]]
    /\ InOrder
    /\ OneRead

\* Why the call of a retry finds no stream: none starts while it waits.
StopInv ==
    /\ BaseInv
    /\ streaming \in BOOLEAN
    /\ OneStream
    /\ retry.pc # "idle" => ~streaming

\* Nothing streams when the page opens.
LEMMA StopInitially == Init => StopInv
  <1> SUFFICES ASSUME Init PROVE StopInv
    OBVIOUS
  <1>1. /\ 0 \in 0 .. MaxCalls
        /\ \A c \in Calls : pc[c] = "none" <=> c > 0
    BY ChatAssumption DEF Init, Calls
  <1>2. InOrder
    BY <1>1 DEF InOrder
  <1> QED
    BY <1>2 DEF Init, StopInv, BaseInv, Places, OneStream, OneRead, Idle

\* The start of a stream takes the next call.
LEMMA StartsCall ==
    ASSUME BaseInv, CanCall, NEW sid, NEW query, NEW before,
           Start(sid, query, before), UNCHANGED reads,
           UNCHANGED retry \/ (retry.pc = "delete" /\ retry' = Idle)
    PROVE  /\ BaseInv'
           /\ NextCall \in Calls /\ pc[NextCall] = "none"
           /\ pc'[NextCall] = "open" /\ call'[NextCall].sid = sid
           /\ \A d \in Calls : d # NextCall => pc'[d] = pc[d] /\ call'[d] = call[d]
  <1> DEFINE c == NextCall
  <1>1. c \in Calls /\ pc[c] = "none" /\ \A d \in Calls : d < c => pc[d] # "none"
    BY NextIsNew DEF BaseInv
  <1>2. /\ pc' = [pc EXCEPT ![c] = "open"]
        /\ \E q : call' = [call EXCEPT ![c] = [sid |-> sid, query |-> q]]
    BY DEF Start
  <1> HIDE DEF c
  <1>4. InOrder'
    <2>1. PICK n \in 0..MaxCalls : \A d \in Calls : pc[d] = "none" <=> d > n
      BY DEF BaseInv, InOrder
    <2>2. c = n + 1
      <3>1. c > n
        BY <1>1, <2>1
      <3>2. n + 1 \in Calls /\ pc[n + 1] = "none"
        BY <1>1, <2>1, <3>1, ChatAssumption DEF Calls
      <3> QED
        BY <1>1, <3>1, <3>2, ChatAssumption DEF Calls
    <2>3. \A d \in Calls : pc'[d] = "none" <=> d > n + 1
      BY <1>1, <1>2, <2>1, <2>2, ChatAssumption DEF BaseInv, Calls
    <2>4. n + 1 \in 0..MaxCalls
      BY <1>1, <2>2, ChatAssumption DEF Calls
    <2> QED
      BY <2>3, <2>4 DEF InOrder
  <1>5. /\ pc' \in [Calls -> Places] /\ pc'[c] = "open"
        /\ \A d \in Calls : d # c => pc'[d] = pc[d]
    BY <1>1, <1>2 DEF BaseInv, Places
  <1>6. /\ call' = [d \in Calls |-> call'[d]] /\ call'[c].sid = sid
        /\ \A d \in Calls : d # c => call'[d] = call[d]
    BY <1>1, <1>2 DEF BaseInv
  <1>8. OneRead'
    BY <1>1, <1>5 DEF BaseInv, OneRead, Idle
  <1> QED
    BY <1>1, <1>4, <1>5, <1>6, <1>8 DEF BaseInv, c

\* What it does to the streams.
LEMMA Starts ==
    ASSUME StopInv, ~streaming, CanCall, NEW sid, NEW query, NEW before,
           Start(sid, query, before), UNCHANGED reads,
           UNCHANGED retry \/ (retry.pc = "delete" /\ retry' = Idle), retry'.pc = "idle"
    PROVE  StopInv'
  <1>1. /\ BaseInv' /\ NextCall \in Calls
        /\ pc'[NextCall] = "open" /\ call'[NextCall].sid = sid
        /\ \A d \in Calls : d # NextCall => pc'[d] = pc[d] /\ call'[d] = call[d]
    BY StartsCall DEF StopInv
  <1>2. streaming' = TRUE /\ abort' = NextCall /\ streamSid' = sid
    BY DEF Start
  <1>3. \A d \in Calls : pc[d] # "open"
    BY DEF StopInv, OneStream
  <1>4. OneStream'
    BY <1>1, <1>2, <1>3 DEF OneStream
  <1> QED
    BY <1>1, <1>2, <1>4 DEF StopInv

\* What the end of a stream does.
LEMMA Ends ==
    ASSUME StopInv, NEW c \in Calls, pc[c] = "open", EndOfStream(c),
           NEW place \in {"recovering", "over"}, pc' = [pc EXCEPT ![c] = place],
           UNCHANGED <<call, retry>>,
           \/ UNCHANGED reads
           \/ /\ place = "recovering"
              /\ \E sid : reads' = reads \union {Read("recover", sid, c)}
    PROVE  StopInv'
  <1>1. /\ pc' \in [Calls -> Places] /\ pc'[c] = place
        /\ \A d \in Calls : d # c => pc'[d] = pc[d]
    BY DEF StopInv, BaseInv, Places
  <1>2. \A d \in Calls : pc'[d] # "open"
    BY <1>1 DEF StopInv, BaseInv, OneStream
  <1>3. InOrder'
    BY <1>1 DEF StopInv, BaseInv, InOrder
  <1>4. streaming' = FALSE
    BY DEF EndOfStream, Finally
  <1>5. OneStream'
    BY <1>2, <1>4 DEF OneStream
  <1>6. OneRead'
    BY <1>1 DEF StopInv, BaseInv, OneRead, Read
  <1> QED
    BY <1>1, <1>3, <1>4, <1>5, <1>6 DEF StopInv, BaseInv

\* What the end of a recovery does.
LEMMA Recovers ==
    ASSUME StopInv, NEW r \in reads, r.why = "recover", reads' = reads \ {r},
           pc' = [pc EXCEPT ![r.call] = "over"],
           UNCHANGED <<call, retry, streaming, streamSid, abort>>
    PROVE  StopInv'
  <1>1. r.call \in Calls /\ pc[r.call] = "recovering"
    BY DEF StopInv, BaseInv, OneRead
  <1>2. /\ pc' \in [Calls -> Places]
        /\ \A c \in Calls : pc'[c] = IF c = r.call THEN "over" ELSE pc[c]
    BY <1>1 DEF StopInv, BaseInv, Places
  <1>3. InOrder'
    BY <1>1, <1>2 DEF StopInv, BaseInv, InOrder
  <1>4. OneStream'
    BY <1>1, <1>2 DEF StopInv, BaseInv, OneStream
  <1>5. OneRead'
    BY <1>1, <1>2 DEF StopInv, BaseInv, OneRead
  <1> QED
    BY <1>2, <1>3, <1>4, <1>5 DEF StopInv, BaseInv

\* Steps that touch neither streams nor the order of calls.
Apart ==
    /\ UNCHANGED <<pc, call, streaming, streamSid, abort>>

\* They keep the invariant when reads and the retry do.
LEMMA Elsewhere ==
    ASSUME StopInv, Apart, OneRead', retry'.pc # "idle" => retry.pc # "idle" \/ ~streaming
    PROVE  StopInv'
  BY DEF Apart, StopInv, BaseInv, InOrder, OneStream

\* Every calm step keeps it.
LEMMA StopStep == StopInv /\ [Next /\ Calm]_vars => StopInv'
  <1> SUFFICES ASSUME StopInv, [Next /\ Calm]_vars PROVE StopInv'
    OBVIOUS
  <1> USE DEF screen, stream, backend
  <1>1. ASSUME NEW s \in Sessions, OpenSession(s) PROVE StopInv'
    BY <1>1, Elsewhere DEF OpenSession, Apart, StopInv, BaseInv, OneRead, Read
  <1>2. ASSUME Refresh PROVE StopInv'
    BY <1>2, Elsewhere DEF Refresh, Apart, StopInv, BaseInv, OneRead, Read
  <1>3. ASSUME Send, Calm PROVE StopInv'
    <2>1. retry.pc = "idle"
      BY <1>3 DEF Calm, CrossesRetry
    <2> QED
      BY <1>3, <2>1, Starts DEF Send
  <1>4. ASSUME Retry PROVE StopInv'
    BY <1>4, Elsewhere DEF Retry, Apart, StopInv, BaseInv, OneRead, Read
  <1>5. ASSUME NEW shown \in BOOLEAN, StopStreaming(shown) PROVE StopInv'
    <2>1. abort \in Calls /\ pc[abort] = "open"
      BY <1>5 DEF StopStreaming, StopInv, BaseInv, OneStream
    <2> QED
      BY <1>5, <2>1, Ends DEF StopStreaming
  <1>6. ASSUME NEW r \in reads, Hydrate(r) PROVE StopInv'
    BY <1>6, Elsewhere DEF Hydrate, Apart, StopInv, BaseInv, OneRead
  <1>7. ASSUME NEW r \in reads, LoadFails(r) PROVE StopInv'
    BY <1>7, Elsewhere DEF LoadFails, Apart, StopInv, BaseInv, OneRead
  <1>8. ASSUME NEW r \in reads, Recover(r) PROVE StopInv'
    BY <1>8, Recovers DEF Recover
  <1>9. ASSUME NEW r \in reads, RecoverNothing(r) PROVE StopInv'
    BY <1>9, Recovers DEF RecoverNothing
  <1>10. ASSUME NEW r \in reads, FoundTarget(r) PROVE StopInv'
    BY <1>10, Elsewhere DEF FoundTarget, Apart, StopInv, BaseInv, OneRead
  <1>11. ASSUME NEW c \in Calls, OnFinal(c) PROVE StopInv'
    BY <1>11, Ends DEF OnFinal
  <1>12. ASSUME NEW c \in Calls, StreamIsLost(c) PROVE StopInv'
    BY <1>12, Ends DEF StreamIsLost
  <1>13. ASSUME Repeat PROVE StopInv'
    BY <1>13, Starts DEF Repeat, StopInv, BaseInv, Idle
  <1>14. ASSUME NEW r \in reads, ServeRead(r) PROVE StopInv'
    BY <1>14, Elsewhere DEF ServeRead, Answered, Apart, StopInv, BaseInv, OneRead
  <1>15. ASSUME NEW c \in Calls, Accept(c) \/ Refuse(c) \/ LoseConnection(c) PROVE StopInv'
    BY <1>15, Elsewhere DEF Accept, Refuse, LoseConnection, Apart, StopInv, BaseInv, OneRead
  <1>16. ASSUME NEW c \in Calls, NEW saves \in BOOLEAN, NEW tells \in BOOLEAN,
                Settle(c, saves, tells)
         PROVE  StopInv'
    BY <1>16, Elsewhere DEF Settle, Apart, StopInv, BaseInv, OneRead
  <1>17. ASSUME NEW c \in Calls, OnContextUsage(c) PROVE StopInv'
    BY <1>17, Elsewhere DEF OnContextUsage, Apart, StopInv, BaseInv, OneRead
  <1>18. ASSUME UNCHANGED vars PROVE StopInv'
    BY <1>18, Elsewhere DEF vars, Apart, StopInv, BaseInv, OneRead
  <1> QED
    BY <1>1, <1>2, <1>3, <1>4, <1>5, <1>6, <1>7, <1>8, <1>9, <1>10, <1>11, <1>12,
       <1>13, <1>14, <1>15, <1>16, <1>17, <1>18 DEF Next, User, Arrivals, Server

\* One stream runs at a time and the controller at hand is its own, whatever is
\* opened, lost or repeated, unless a query is sent while retryLast waits
\* (sendQuery, retryLast, stopStreaming).
THEOREM StreamsCanBeStopped == CalmSpec => []StopReachesTheStream
  <1>1. StopInv => StopReachesTheStream
    <2> SUFFICES ASSUME StopInv PROVE StopReachesTheStream
      OBVIOUS
    <2>1. Open = {} \/ \E c \in Calls : Open = {c}
      BY DEF StopInv, BaseInv, OneStream, Open
    <2>2. Cardinality(Open) <= 1
      <3>1. CASE Open = {}
        <4>1. Cardinality({}) = 0
          BY FS_EmptySet
        <4> QED
          BY <3>1, <4>1
      <3>2. ASSUME NEW c \in Calls, Open = {c} PROVE Cardinality(Open) <= 1
        <4>1. Cardinality({c}) = 1
          BY FS_Singleton
        <4> QED
          BY <3>2, <4>1
      <3> QED
        BY <2>1, <3>1, <3>2
    <2> QED
      BY <2>2 DEF StopInv, BaseInv, OneStream, Open, StopReachesTheStream
  <1>2. StopInv /\ [Next /\ Calm]_vars => StopInv'
    BY StopStep
  <1> QED
    BY StopInitially, <1>1, <1>2, PTL DEF CalmSpec
-----------------------------------------------------------------------------
(* Messages, questions and answers                                          *)

\* The calls of sendQuery that were made in session s.
Owned(s) == { c \in Calls : pc[c] # "none" /\ call[c].sid = s }

\* The question of c stands among ms.
Asked(ms, c) == \E j \in DOMAIN ms : ms[j].role = "user" /\ ms[j].call = c

\* Messages of the calls in own, with every answer behind its question.
Belongs(ms, own) ==
    /\ ms \in Seq(Messages)
    /\ \A i \in DOMAIN ms :
         /\ ms[i].call \in own
         /\ ms[i].role = "assistant" =>
              \E j \in 1..(i - 1) : ms[j].role = "user" /\ ms[j].call = ms[i].call

Typed ==
    /\ slots \in [Sessions -> Seq(Messages) \union {None}]
    /\ history \in [Sessions -> Seq(Messages)]
    /\ {displayed, bound} \subseteq Sessions \union {None}
    /\ usage \in {None, displayed}
    /\ retry.pc # "idle" => retry.sid \in Sessions
    /\ server = [c \in Calls |-> server[c]]
    /\ \A c \in Calls : /\ pc[c] # "none" => call[c].sid \in Sessions
                        /\ server[c] # "none" => pc[c] # "none"

ReadsBelong ==
    \A r \in reads :
        /\ r.sid \in Sessions
        /\ r.why = "recover" => r.sid = call[r.call].sid
        /\ r.snap # None => Belongs(r.snap, Owned(r.sid))

\* The call whose answer may still come.
Live(c) == pc[c] \in {"open", "recovering"}

SlotsBelong ==
    /\ \A s \in Sessions : Belongs(Slot(s), Owned(s)) /\ Belongs(history[s], Owned(s))
    /\ \A c \in Calls : Live(c) => Asked(Slot(Home(c)), c)

\* What a stream shows stands on what the client and the server have kept.
BelongInv ==
    /\ StopInv
    /\ Typed
    /\ ReadsBelong
    /\ SlotsBelong
    /\ \A c, d \in Calls : Live(c) /\ Live(d) => c = d
    /\ \A c \in Calls : pc[c] = "recovering" => retry.pc = "idle"

\* A larger set of calls owns what a smaller one does.
LEMMA BelongsMore ==
    ASSUME NEW ms, NEW own, NEW more, own \subseteq more, Belongs(ms, own)
    PROVE  Belongs(ms, more)
  BY DEF Belongs

\* A session without messages.
LEMMA BelongsEmpty == ASSUME NEW own PROVE Belongs(<<>>, own)
  BY DEF Belongs

\* What is left when the last messages go.
LEMMA BelongsPrefix ==
    ASSUME NEW ms, NEW own, Belongs(ms, own), NEW n \in 0..Len(ms)
    PROVE  Belongs(SubSeq(ms, 1, n), own)
  <1>1. ms \in Seq(Messages)
    BY DEF Belongs
  <1>2. /\ SubSeq(ms, 1, n) \in Seq(Messages) /\ Len(SubSeq(ms, 1, n)) = n
        /\ \A i \in 1..n : SubSeq(ms, 1, n)[i] = ms[i]
    <2> HIDE DEF Messages
    <2>1. \A t \in Seq(Messages) : \A k \in 0..Len(t) :
             /\ SubSeq(t, 1, k) \in Seq(Messages) /\ Len(SubSeq(t, 1, k)) = k
             /\ \A i \in 1..k : SubSeq(t, 1, k)[i] = t[i]
      OBVIOUS
    <2> QED
      BY <1>1, <2>1
  <1>3. DOMAIN SubSeq(ms, 1, n) = 1..n /\ DOMAIN ms = 1..Len(ms)
    BY <1>1, <1>2
  <1>4. ASSUME NEW i \in 1..n
        PROVE  /\ ms[i].call \in own
               /\ ms[i].role = "assistant" =>
                    \E j \in 1..(i - 1) : ms[j].role = "user" /\ ms[j].call = ms[i].call
    BY <1>1, <1>3 DEF Belongs
  <1>5. ASSUME NEW i \in 1..n
        PROVE  /\ SubSeq(ms, 1, n)[i].call \in own
               /\ SubSeq(ms, 1, n)[i].role = "assistant" =>
                    \E j \in 1..(i - 1) : /\ SubSeq(ms, 1, n)[j].role = "user"
                                          /\ SubSeq(ms, 1, n)[j].call = SubSeq(ms, 1, n)[i].call
    <2>1. SubSeq(ms, 1, n)[i] = ms[i] /\ \A j \in 1..(i - 1) : SubSeq(ms, 1, n)[j] = ms[j]
      BY <1>2
    <2> QED
      BY <1>4, <2>1
  <1> QED
    BY <1>2, <1>3, <1>5 DEF Belongs

\* A message of a call of the session; an answer needs its question.
LEMMA BelongsAppend ==
    ASSUME NEW ms, NEW own, Belongs(ms, own),
           NEW m \in Messages, m.call \in own, m.role = "assistant" => Asked(ms, m.call)
    PROVE  Belongs(Append(ms, m), own)
  <1>1. ms \in Seq(Messages)
    BY DEF Belongs
  <1>2. /\ Append(ms, m) \in Seq(Messages) /\ Len(Append(ms, m)) = Len(ms) + 1
        /\ \A i \in 1..Len(ms) : Append(ms, m)[i] = ms[i]
        /\ Append(ms, m)[Len(ms) + 1] = m
        /\ DOMAIN Append(ms, m) = 1..(Len(ms) + 1) /\ DOMAIN ms = 1..Len(ms) /\ Len(ms) \in Nat
    BY <1>1
  <1>3. ASSUME NEW i \in 1..(Len(ms) + 1)
        PROVE  /\ Append(ms, m)[i].call \in own
               /\ Append(ms, m)[i].role = "assistant" =>
                    \E j \in 1..(i - 1) : /\ Append(ms, m)[j].role = "user"
                                          /\ Append(ms, m)[j].call = Append(ms, m)[i].call
    <2>1. CASE i \in 1..Len(ms)
      <3>1. Append(ms, m)[i] = ms[i] /\ \A j \in 1..(i - 1) : Append(ms, m)[j] = ms[j]
        BY <1>2, <2>1
      <3>2. /\ ms[i].call \in own
            /\ ms[i].role = "assistant" =>
                 \E j \in 1..(i - 1) : ms[j].role = "user" /\ ms[j].call = ms[i].call
        BY <1>2, <2>1 DEF Belongs
      <3> QED
        BY <3>1, <3>2
    <2>2. CASE i = Len(ms) + 1
      <3>1. Append(ms, m)[i] = m /\ (i - 1) = Len(ms)
        BY <1>2, <2>2
      <3>2. m.role = "assistant" =>
              \E j \in 1..Len(ms) : ms[j].role = "user" /\ ms[j].call = m.call
        BY <1>2 DEF Asked
      <3> QED
        BY <1>2, <3>1, <3>2
    <2> QED
      BY <1>2, <2>1, <2>2
  <1> QED
    BY <1>2, <1>3 DEF Belongs

\* A question keeps standing, and a new one stands.
LEMMA AskedAppend ==
    ASSUME NEW ms \in Seq(Messages), NEW m \in Messages, NEW c,
           Asked(ms, c) \/ (m.role = "user" /\ m.call = c)
    PROVE  Asked(Append(ms, m), c)
  <1>1. /\ \A i \in 1..Len(ms) : Append(ms, m)[i] = ms[i]
        /\ Append(ms, m)[Len(ms) + 1] = m
        /\ DOMAIN Append(ms, m) = 1..(Len(ms) + 1) /\ DOMAIN ms = 1..Len(ms) /\ Len(ms) \in Nat
    OBVIOUS
  <1>2. 1..Len(ms) \subseteq 1..(Len(ms) + 1) /\ Len(ms) + 1 \in 1..(Len(ms) + 1)
    BY <1>1
  <1>3. CASE Asked(ms, c)
    BY <1>1, <1>2, <1>3, Zenon DEF Asked
  <1>4. CASE m.role = "user" /\ m.call = c
    BY <1>1, <1>2, <1>4, Zenon DEF Asked
  <1> QED
    BY <1>3, <1>4

\* toChatMessages only tells the messages their ids.
LEMMA BelongsKnown ==
    ASSUME NEW ms, NEW own, Belongs(ms, own)
    PROVE  Belongs(ToChatMessages(ms), own)
  <1> DEFINE ks == ToChatMessages(ms)
  <1>1. ms \in Seq(Messages)
    BY DEF Belongs
  <1>2. DOMAIN ks = DOMAIN ms
    BY DEF ToChatMessages
  <1>3. ASSUME NEW i \in DOMAIN ms
        PROVE  ks[i] \in Messages /\ ks[i].role = ms[i].role /\ ks[i].call = ms[i].call
    <2>1. ks[i] = [ms[i] EXCEPT !.known = TRUE] /\ ms[i] \in Messages
      BY <1>1 DEF ToChatMessages
    <2> QED
      BY <2>1 DEF Messages
  <1>4. ks \in Seq(Messages)
    <2>1. ks = [i \in 1..Len(ms) |-> ks[i]]
      BY <1>1, <1>2 DEF ToChatMessages
    <2>2. \A i \in 1..Len(ms) : ks[i] \in Messages
      BY <1>1, <1>3
    <2>3. Len(ms) \in Nat
      BY <1>1
    <2> HIDE DEF ks
    <2> QED
      BY <2>1, <2>2, <2>3
  <1> HIDE DEF ks
  <1>5. ASSUME NEW i \in DOMAIN ks
        PROVE  /\ ks[i].call \in own
               /\ ks[i].role = "assistant" =>
                    \E j \in 1..(i - 1) : ks[j].role = "user" /\ ks[j].call = ks[i].call
    <2>1. \A j \in 1..(i - 1) : j \in DOMAIN ms
      BY <1>1, <1>2
    <2> QED
      BY <1>2, <1>3, <2>1 DEF Belongs
  <1>6. Belongs(ks, own)
    BY <1>4, <1>5 DEF Belongs
  <1> QED
    BY <1>6 DEF ks

\* Calls keep their sessions, so nothing stops belonging.
LEMMA OwnedGrows ==
    ASSUME \A c \in Calls : pc[c] # "none" => pc'[c] # "none" /\ call'[c].sid = call[c].sid
    PROVE  \A s : Owned(s) \subseteq Owned(s)'
  BY DEF Owned

\* A set of positions has a last one.
LEMMA LastPosition ==
    ASSUME NEW n \in Nat, NEW S \in SUBSET (1..n), S # {}
    PROVE  Max(S) \in S /\ \A y \in S : Max(S) >= y
  <1> DEFINE T == { k \in 0..n : n - k \in S }
  <1>1. T \subseteq Nat /\ T # {}
    <2>1. PICK x \in S : x \in 1..n
      OBVIOUS
    <2>2. n - x \in 0..n /\ n - (n - x) = x
      BY <2>1
    <2>3. n - x \in T
      BY <2>1, <2>2
    <2>4. T \subseteq Nat
      OBVIOUS
    <2> HIDE DEF T
    <2> QED
      BY <2>3, <2>4
  <1>2. \E k \in T : \A l \in T : ~(<<l, k>> \in OpToRel(<, Nat))
    <2> HIDE DEF T
    <2> QED
      BY <1>1, NatLessThanWellFounded, WFMin
  <1>3. PICK k \in T : \A l \in T : ~(l < k)
    BY <1>1, <1>2 DEF OpToRel
  <1>4. \A y \in S : n - k >= y
    <2> TAKE y \in S
    <2>1. n - y \in 0..n /\ n - (n - y) = y
      OBVIOUS
    <2>2. ~(n - y < k)
      BY <1>3, <2>1
    <2> QED
      BY <2>2
  <1>5. n - k \in S /\ \A y \in S : n - k >= y
    BY <1>3, <1>4
  <1> QED
    BY <1>5 DEF Max

\* What the deletion of a retry leaves in the history, and in the slot.
LEMMA BelongsCut ==
    ASSUME NEW h, NEW own, Belongs(h, own), NEW c
    PROVE  Belongs(Cut(h, c), own)
  <1>1. h \in Seq(Messages)
    BY DEF Belongs
  <1>2. CASE From(h, c) = {}
    BY <1>2 DEF Cut
  <1>3. CASE From(h, c) # {}
    <2>1. From(h, c) \subseteq 1..Len(h) /\ Len(h) \in Nat
      BY <1>1 DEF From
    <2>2. Max(From(h, c)) \in 1..Len(h)
      BY <1>3, <2>1, LastPosition
    <2>3. Max(From(h, c)) - 1 \in 0..Len(h)
      BY <2>1, <2>2
    <2> QED
      BY <1>3, <2>3, BelongsPrefix DEF Cut
  <1> QED
    BY <1>2, <1>3

\* The slot without its last pair.
LEMMA BelongsLeaveOut ==
    ASSUME NEW ms, NEW own, Belongs(ms, own)
    PROVE  Belongs(LeaveOut(ms), own)
  <1>1. ms \in Seq(Messages) /\ Len(ms) \in Nat
    BY DEF Belongs
  <1>2. CASE Len(ms) >= 2
    <2>1. Len(ms) - 2 \in 0..Len(ms)
      BY <1>1, <1>2
    <2> QED
      BY <1>2, <2>1, BelongsPrefix DEF LeaveOut
  <1>3. CASE ~(Len(ms) >= 2)
    BY <1>3, BelongsEmpty DEF LeaveOut
  <1> QED
    BY <1>2, <1>3

-----------------------------------------------------------------------------
(* Steps that keep what belongs                                             *)

\* Calls are never forgotten and keep their sessions.
Grows == \A c \in Calls : pc[c] # "none" => pc'[c] # "none" /\ call'[c].sid = call[c].sid

ReadBelongs(r) ==
    /\ r.sid \in Sessions
    /\ r.why = "recover" => r.sid = call[r.call].sid
    /\ r.snap # None => Belongs(r.snap, Owned(r.sid))

\* A read that was on its way goes on as well as it did.
LEMMA ReadsStep ==
    ASSUME BelongInv, Grows, \A r \in reads' : r \in reads \/ ReadBelongs(r)'
    PROVE  ReadsBelong'
  <1>1. ASSUME NEW r \in reads PROVE ReadBelongs(r)'
    <2>1. /\ r.sid \in Sessions
          /\ r.why = "recover" => r.sid = call[r.call].sid
          /\ r.snap # None => Belongs(r.snap, Owned(r.sid))
      BY <1>1 DEF BelongInv, ReadsBelong
    <2>2. r.why = "recover" => call'[r.call].sid = call[r.call].sid
      BY <1>1 DEF BelongInv, StopInv, BaseInv, OneRead, Grows
    <2>3. r.snap # None => Belongs(r.snap, Owned(r.sid)')
      <3>1. Owned(r.sid) \subseteq Owned(r.sid)'
        BY OwnedGrows DEF Grows
      <3> QED
        BY <2>1, <3>1, BelongsMore
    <2> QED
      BY <2>1, <2>2, <2>3 DEF ReadBelongs
  <1> QED
    BY <1>1 DEF ReadsBelong, ReadBelongs

\* The slots and histories that change must go on belonging.
LEMMA SlotsStep ==
    ASSUME BelongInv, Grows,
           \A s \in Sessions : /\ Slot(s)' = Slot(s) \/ Belongs(Slot(s)', Owned(s)')
                               /\ history'[s] = history[s] \/ Belongs(history'[s], Owned(s)'),
           \A c \in Calls : Live(c)' => Asked(Slot(Home(c))', c)
    PROVE  SlotsBelong'
  <1>1. ASSUME NEW s \in Sessions
        PROVE  Belongs(Slot(s)', Owned(s)') /\ Belongs(history'[s], Owned(s)')
    <2>1. Owned(s) \subseteq Owned(s)'
      BY OwnedGrows DEF Grows
    <2>2. Belongs(Slot(s), Owned(s)) /\ Belongs(history[s], Owned(s))
      BY DEF BelongInv, SlotsBelong
    <2>3. Belongs(Slot(s), Owned(s)') /\ Belongs(history[s], Owned(s)')
      BY <2>1, <2>2, BelongsMore
    <2> QED
      BY <2>3
  <1> QED
    BY <1>1 DEF SlotsBelong

\* Steps that show nothing new.
LEMMA SlotsKept ==
    ASSUME BelongInv, Grows, UNCHANGED slots,
           \A s \in Sessions : history'[s] = history[s] \/ Belongs(history'[s], Owned(s)'),
           \A c \in Calls : Live(c)' => Live(c)
    PROVE  SlotsBelong'
  <1>1. \A s : Slot(s)' = Slot(s)
    BY DEF Slot
  <1>2. ASSUME NEW c \in Calls, Live(c)' PROVE Asked(Slot(Home(c))', c)
    <2>1. Live(c) /\ Asked(Slot(Home(c)), c)
      BY <1>2 DEF BelongInv, SlotsBelong
    <2>2. Home(c)' = Home(c)
      BY <2>1 DEF Grows, Home, Live
    <2>3. Slot(Home(c))' = Slot(Home(c))
      BY <2>2 DEF Slot
    <2> QED
      BY <2>1, <2>3
  <1> QED
    BY <1>1, <1>2, SlotsStep

\* A message joins a slot.
LEMMA AddStep ==
    ASSUME BelongInv, Grows, NEW s \in Sessions, NEW m \in Messages,
           m.call \in Owned(s), m.role = "assistant" => Asked(Slot(s), m.call),
           slots' = Add(s, m), UNCHANGED history,
           \A c \in Calls : ~Live(c)'
    PROVE  SlotsBelong' /\ slots' \in [Sessions -> Seq(Messages) \union {None}]
  <1>1. Belongs(Slot(s), Owned(s)) /\ slots \in [Sessions -> Seq(Messages) \union {None}]
    BY DEF BelongInv, SlotsBelong, Typed
  <1>2. Belongs(Append(Slot(s), m), Owned(s))
    BY <1>1, BelongsAppend
  <1>3. Append(Slot(s), m) \in Seq(Messages) /\ Append(Slot(s), m) # None
    BY <1>2, ChatAssumption DEF Belongs
  <1>4. /\ slots'[s] = Append(Slot(s), m)
        /\ \A t \in Sessions : t # s => slots'[t] = slots[t]
        /\ slots' \in [Sessions -> Seq(Messages) \union {None}]
    BY <1>1, <1>3 DEF Add
  <1>5. Slot(s)' = Append(Slot(s), m) /\ \A t \in Sessions : t # s => Slot(t)' = Slot(t)
    BY <1>3, <1>4 DEF Slot
  <1>6. Belongs(Slot(s)', Owned(s)')
    <2>1. Owned(s) \subseteq Owned(s)'
      BY OwnedGrows DEF Grows
    <2> QED
      BY <1>2, <1>5, <2>1, BelongsMore
  <1>7. \A t \in Sessions : Slot(t)' = Slot(t) \/ Belongs(Slot(t)', Owned(t)')
    BY <1>5, <1>6
  <1> QED
    BY <1>4, <1>7, SlotsStep

-----------------------------------------------------------------------------
(* Each step                                                                *)

\* There is nothing on the screen when the page opens.
LEMMA BelongInitially == Init => BelongInv
  <1> SUFFICES ASSUME Init PROVE BelongInv
    OBVIOUS
  <1>1. StopInv
    BY StopInitially
  <1>2. Typed /\ ReadsBelong
    BY DEF Init, Typed, ReadsBelong, Idle
  <1>3. \A s \in Sessions : Slot(s) = <<>> /\ history[s] = <<>>
    BY DEF Init, Slot
  <1>4. SlotsBelong
    BY <1>3, BelongsEmpty DEF Init, SlotsBelong, Live
  <1> QED
    BY <1>1, <1>2, <1>4 DEF Init, BelongInv, Live

\* The browser's and the server's steps between two messages of a slot.
LEMMA StillStep ==
    ASSUME BelongInv, StopInv', UNCHANGED <<pc, call, slots>>, Typed',
           \A r \in reads' : r \in reads \/ ReadBelongs(r)',
           \A s \in Sessions : history'[s] = history[s] \/ Belongs(history'[s], Owned(s)'),
           (\E c \in Calls : pc[c] = "recovering") => retry'.pc = "idle"
    PROVE  BelongInv'
  <1>1. Grows
    BY DEF Grows
  <1>2. ReadsBelong'
    BY <1>1, ReadsStep
  <1>3. SlotsBelong'
    BY <1>1, SlotsKept DEF Live
  <1> QED
    BY <1>2, <1>3 DEF BelongInv, Live

\* The slots a page replaces while no stream needs them.
LEMMA OpenSessionKeeps ==
    ASSUME BelongInv, StopInv', NEW s \in Sessions, OpenSession(s), Recovering = {}
    PROVE  BelongInv'
  <1> USE DEF screen, stream, backend
  <1>1. /\ Grows /\ UNCHANGED <<pc, call, history>>
        /\ UNCHANGED <<streaming, retry, server>>
    BY DEF OpenSession, Grows
  <1>2. Typed'
    <2>1. CASE streaming
      BY <1>1, <2>1 DEF OpenSession, BelongInv, Typed
    <2>2. CASE ~streaming
      <3>1. slots' = [t \in Sessions |-> None] /\ displayed' = None /\ usage' = None /\ bound' = None
        BY <2>2 DEF OpenSession
      <3> QED
        BY <1>1, <3>1 DEF BelongInv, Typed
    <2> QED
      BY <2>1, <2>2
  <1>3. ReadsBelong'
    <2>1. ReadBelongs(Read("load", s, 0))'
      BY DEF ReadBelongs, Read
    <2> QED
      BY <1>1, <2>1, ReadsStep DEF OpenSession
  <1>4. SlotsBelong'
    <2>1. CASE streaming
      BY <1>1, <2>1, SlotsKept DEF OpenSession, Live
    <2>2. CASE ~streaming
      <3>1. \A t \in Sessions : Slot(t)' = <<>>
        BY <2>2 DEF OpenSession, Slot
      <3>2. \A t \in Sessions : Belongs(Slot(t)', Owned(t)')
        BY <3>1, BelongsEmpty
      <3>3. \A c \in Calls : ~Live(c)'
        BY <1>1, <2>2 DEF BelongInv, StopInv, BaseInv, OneStream, Recovering, Live
      <3> QED
        BY <1>1, <3>2, <3>3, SlotsStep
    <2> QED
      BY <2>1, <2>2
  <1> QED
    BY <1>1, <1>2, <1>3, <1>4 DEF BelongInv, Live

\* hydrate leaves the slot of the stream alone.
LEMMA HydrateKeeps ==
    ASSUME BelongInv, StopInv', NEW r \in reads, Hydrate(r),
           \A c \in Recovering : Home(c) # r.sid
    PROVE  BelongInv'
  <1> USE DEF screen, stream, backend
  <1>1. /\ Grows /\ UNCHANGED <<pc, call, history>>
        /\ UNCHANGED <<streaming, retry, server>>
    BY DEF Hydrate, Grows
  <1>2. r.sid \in Sessions /\ r.snap # None /\ Belongs(r.snap, Owned(r.sid))
    BY DEF Hydrate, BelongInv, ReadsBelong
  <1>3. Belongs(ToChatMessages(r.snap), Owned(r.sid))
    BY <1>2, BelongsKnown
  <1> DEFINE ks == ToChatMessages(r.snap)
  <1>4. ks \in Seq(Messages) /\ ks # None
    BY <1>3, ChatAssumption DEF Belongs
  <1>5. ReadsBelong'
    BY <1>1, ReadsStep DEF Hydrate
  <1>6. slots' = IF Preserve(r.sid) THEN slots ELSE [slots EXCEPT ![r.sid] = ks]
    BY DEF Hydrate
  <1> HIDE DEF ks
  <1>7. slots \in [Sessions -> Seq(Messages) \union {None}]
    BY DEF BelongInv, Typed
  <1>8. slots' \in [Sessions -> Seq(Messages) \union {None}]
    BY <1>4, <1>6, <1>7
  <1>9. Typed'
    BY <1>1, <1>2, <1>8 DEF Hydrate, BelongInv, Typed
  <1>10. SlotsBelong'
    <2>1. CASE Preserve(r.sid)
      BY <1>1, <1>6, <2>1, SlotsKept DEF Live
    <2>2. CASE ~Preserve(r.sid)
      <3>1. /\ slots'[r.sid] = ks
            /\ \A t \in Sessions : t # r.sid => slots'[t] = slots[t]
        BY <1>2, <1>6, <1>7, <2>2
      <3>2. Slot(r.sid)' = ks /\ \A t \in Sessions : t # r.sid => Slot(t)' = Slot(t)
        BY <1>4, <3>1 DEF Slot
      <3>3. Belongs(Slot(r.sid)', Owned(r.sid)')
        <4>1. Owned(r.sid)' = Owned(r.sid)
          BY <1>1 DEF Owned
        <4> QED
          BY <1>3, <3>2, <4>1 DEF ks
      <3>4. ASSUME NEW c \in Calls, Live(c)' PROVE Asked(Slot(Home(c))', c)
        <4>1. Live(c) /\ Home(c)' = Home(c)
          BY <1>1, <3>4 DEF Home, Live
        <4>2. Home(c) \in Sessions
          BY <4>1 DEF BelongInv, Home, Typed, Live
        <4>3. Asked(Slot(Home(c)), c)
          BY <4>1 DEF BelongInv, SlotsBelong
        <4>4. slots[Home(c)] # None
          BY <4>3 DEF Asked, Slot
        <4>5. Home(c) # r.sid
          <5>1. CASE pc[c] = "open"
            <6>1. streaming /\ streamSid = Home(c)
              BY <5>1 DEF BelongInv, StopInv, BaseInv, OneStream, Home
            <6> QED
              BY <2>2, <4>4, <6>1 DEF Preserve
          <5>2. CASE pc[c] = "recovering"
            BY <5>2 DEF Recovering
          <5> QED
            BY <4>1, <5>1, <5>2 DEF Live
        <4> QED
          BY <3>2, <4>1, <4>2, <4>3, <4>5
      <3> QED
        BY <1>1, <3>2, <3>3, <3>4, SlotsStep
    <2> QED
      BY <2>1, <2>2
  <1> QED
    BY <1>1, <1>5, <1>9, <1>10 DEF BelongInv, Live

\* A stream starts behind its question, in a session that has a slot for it.
LEMMA StartKeeps ==
    ASSUME BelongInv, StopInv', ~streaming, Recovering = {}, CanCall,
           NEW sid \in Sessions, NEW query, NEW before,
           before \in [Sessions -> Seq(Messages) \union {None}],
           \A s \in Sessions : Belongs(IF before[s] = None THEN <<>> ELSE before[s], Owned(s)),
           Start(sid, query, before),
           history' \in [Sessions -> Seq(Messages)],
           \A s \in Sessions : Belongs(history'[s], Owned(s)),
           UNCHANGED <<displayed, bound, reads>>,
           retry' = retry \/ retry'.pc = "idle"
    PROVE  BelongInv'
  <1> DEFINE c == NextCall
             m == Message("user", c)
             b == IF before[sid] = None THEN <<>> ELSE before[sid]
  <1>1. c \in Calls /\ pc[c] = "none"
    BY NextIsNew DEF BelongInv, StopInv, BaseInv
  <1>2. /\ pc' = [pc EXCEPT ![c] = "open"] /\ usage' = None
        /\ \E q : call' = [call EXCEPT ![c] = [sid |-> sid, query |-> q]]
        /\ slots' = [before EXCEPT ![sid] = Append(b, m)]
        /\ server' = [server EXCEPT ![c] = "sent"]
    BY DEF Start
  <1>3. m \in Messages /\ m.role = "user" /\ m.call = c
    BY <1>1 DEF Message, Messages
  <1> HIDE DEF c, m, b
  <1>4. /\ pc'[c] = "open" /\ \A d \in Calls : d # c => pc'[d] = pc[d]
        /\ call'[c].sid = sid /\ \A d \in Calls : d # c => call'[d] = call[d]
    BY <1>1, <1>2 DEF BelongInv, StopInv, BaseInv
  <1>5. Grows
    BY <1>1, <1>4 DEF Grows
  <1>6. c \in Owned(sid)'
    BY <1>1, <1>4 DEF Owned
  <1>7. \A s : Owned(s) \subseteq Owned(s)'
    BY <1>5, OwnedGrows DEF Grows
  <1>8. \A s \in Sessions : /\ Belongs(IF before[s] = None THEN <<>> ELSE before[s], Owned(s)')
                            /\ Belongs(history'[s], Owned(s)')
    BY <1>7, BelongsMore
  <1>9. Belongs(b, Owned(sid)')
    BY <1>8 DEF b
  <1>10. Belongs(Append(b, m), Owned(sid)')
    BY <1>3, <1>6, <1>9, BelongsAppend
  <1>11. b \in Seq(Messages) /\ Append(b, m) \in Seq(Messages) /\ Append(b, m) # None
    BY <1>9, <1>10, ChatAssumption DEF Belongs
  <1>12. /\ slots' \in [Sessions -> Seq(Messages) \union {None}]
         /\ slots'[sid] = Append(b, m)
         /\ \A s \in Sessions : s # sid => slots'[s] = before[s]
    BY <1>2, <1>11
  <1>13. /\ Slot(sid)' = Append(b, m)
         /\ \A s \in Sessions : s # sid => Slot(s)' = IF before[s] = None THEN <<>> ELSE before[s]
    BY <1>11, <1>12 DEF Slot
  <1>14. \A s \in Sessions : Belongs(Slot(s)', Owned(s)')
    BY <1>8, <1>10, <1>13
  <1>19. \A d \in Calls : Live(d)' => d = c
    BY <1>4 DEF BelongInv, StopInv, BaseInv, OneStream, Recovering, Live
  <1>15. ASSUME NEW d \in Calls, Live(d)' PROVE Asked(Slot(Home(d))', d)
    <2>1. d = c
      BY <1>15, <1>19
    <2>2. Home(d)' = sid
      BY <1>4, <2>1 DEF Home
    <2>3. Asked(Append(b, m), d)
      BY <1>3, <1>11, <2>1, AskedAppend
    <2> QED
      BY <1>13, <2>2, <2>3
  <1>16. SlotsBelong'
    BY <1>8, <1>14, <1>15 DEF SlotsBelong
  <1>17. ReadsBelong'
    BY <1>5, ReadsStep
  <1>18. Typed'
    <2>1. /\ server' = [d \in Calls |-> server'[d]]
          /\ \A d \in Calls : server'[d] # "none" => pc'[d] # "none"
      <3>1. \A d \in Calls : d # c => server'[d] = server[d]
        BY <1>2
      <3>2. server' = [d \in Calls |-> server'[d]]
        BY <1>1, <1>2 DEF BelongInv, Typed
      <3> QED
        BY <1>4, <3>1, <3>2 DEF BelongInv, Typed
    <2>2. \A d \in Calls : pc'[d] # "none" => call'[d].sid \in Sessions
      BY <1>4 DEF BelongInv, Typed
    <2> QED
      BY <1>2, <1>12, <2>1, <2>2 DEF BelongInv, Typed
  <1> QED
    BY <1>4, <1>16, <1>17, <1>18, <1>19 DEF BelongInv, Live

\* A stream ends, with an answer behind its question or with nothing.
LEMMA EndKeeps ==
    ASSUME BelongInv, StopInv', NEW c \in Calls, pc[c] = "open",
           NEW place \in {"over", "recovering"}, pc' = [pc EXCEPT ![c] = place],
           UNCHANGED <<displayed, bound, usage, call, retry, server, history>>,
           streaming' = FALSE,
           UNCHANGED slots \/ (place = "over" /\ slots' = Add(Home(c), Message("assistant", c))),
           \/ UNCHANGED reads
           \/ reads' = reads \union {Read("recover", call[c].sid, c)}
    PROVE  BelongInv'
  <1>1. pc'[c] = place /\ \A d \in Calls : d # c => pc'[d] = pc[d]
    BY DEF BelongInv, StopInv, BaseInv
  <1>2. Grows
    BY <1>1 DEF Grows
  <1>3. /\ \A d \in Calls : Live(d)' => Live(d) /\ d = c
        /\ place = "over" => \A d \in Calls : ~Live(d)'
    BY <1>1 DEF BelongInv, Live
  <1>4. Home(c) \in Sessions /\ c \in Owned(Home(c))
    BY DEF BelongInv, Typed, Home, Owned
  <1>5. Message("assistant", c) \in Messages /\ Message("assistant", c).call = c
    BY DEF Message, Messages
  <1>6. Asked(Slot(Home(c)), c)
    BY DEF BelongInv, SlotsBelong, Live
  <1>7. SlotsBelong' /\ slots' \in [Sessions -> Seq(Messages) \union {None}]
    <2>1. CASE UNCHANGED slots
      <3>1. SlotsBelong'
        BY <1>2, <1>3, <2>1, SlotsKept
      <3> QED
        BY <2>1, <3>1 DEF BelongInv, Typed
    <2>2. CASE place = "over" /\ slots' = Add(Home(c), Message("assistant", c))
      BY <1>2, <1>3, <1>4, <1>5, <1>6, <2>2, AddStep
    <2> QED
      BY <2>1, <2>2
  <1>8. ReadsBelong'
    <2>1. ReadBelongs(Read("recover", call[c].sid, c))'
      BY <1>4 DEF ReadBelongs, Read, Home
    <2> QED
      BY <1>2, <2>1, ReadsStep
  <1>9. Typed'
    BY <1>1, <1>7 DEF BelongInv, Typed
  <1>10. retry'.pc = "idle"
    BY DEF BelongInv, StopInv, BaseInv, OneStream
  <1> QED
    BY <1>3, <1>7, <1>8, <1>9, <1>10 DEF BelongInv

\* A recovery ends, with what the server has or with a fallback.
LEMMA RecoveryKeeps ==
    ASSUME BelongInv, StopInv', NEW r \in reads, Recover(r) \/ RecoverNothing(r)
    PROVE  BelongInv'
  <1> USE DEF screen, stream, backend
  <1> DEFINE c == r.call
  <1>1. c \in Calls /\ pc[c] = "recovering" /\ r.sid = Home(c) /\ r.sid \in Sessions
    BY DEF Recover, RecoverNothing, BelongInv, StopInv, BaseInv, OneRead, ReadsBelong, Home
  <1>2. /\ pc' = [pc EXCEPT ![c] = "over"] /\ reads' = reads \ {r}
        /\ UNCHANGED <<displayed, bound, usage, streaming, call, retry, server, history>>
    BY DEF Recover, RecoverNothing
  <1>3. /\ RecoverNothing(r) => slots' = Add(Home(c), Message("assistant", c))
        /\ Recover(r) => /\ r.snap # None
                         /\ slots' = [slots EXCEPT ![Home(c)] = ToChatMessages(r.snap)]
    BY DEF Recover, RecoverNothing
  <1> HIDE DEF c
  <1>4. pc'[c] = "over" /\ \A d \in Calls : d # c => pc'[d] = pc[d]
    BY <1>1, <1>2 DEF BelongInv, StopInv, BaseInv
  <1>5. Grows
    BY <1>1, <1>2, <1>4 DEF Grows
  <1>6. retry.pc = "idle" /\ Live(c) /\ Asked(Slot(Home(c)), c)
    BY <1>1 DEF BelongInv, SlotsBelong, Live
  <1>7. \A d \in Calls : ~Live(d)'
    BY <1>1, <1>4, <1>6 DEF BelongInv, Live
  <1>8. SlotsBelong' /\ slots' \in [Sessions -> Seq(Messages) \union {None}]
    <2>1. CASE RecoverNothing(r)
      <3>1. c \in Owned(Home(c))
        BY <1>1 DEF Owned, Home
      <3>2. Message("assistant", c) \in Messages /\ Message("assistant", c).call = c
        BY <1>1 DEF Message, Messages
      <3>3. slots' = Add(Home(c), Message("assistant", c)) /\ UNCHANGED history /\ Home(c) \in Sessions
        BY <1>1, <1>2, <1>3, <2>1 DEF RecoverNothing
      <3> HIDE DEF Home
      <3> QED
        BY <1>5, <1>6, <1>7, <3>1, <3>2, <3>3, AddStep
    <2>2. CASE Recover(r)
      <3> DEFINE ks == ToChatMessages(r.snap)
      <3>1. Belongs(ks, Owned(r.sid))
        BY <1>3, <2>2, BelongsKnown DEF BelongInv, ReadsBelong
      <3>2. ks \in Seq(Messages) /\ ks # None
        BY <3>1, ChatAssumption DEF Belongs
      <3>3. slots' = [slots EXCEPT ![r.sid] = ks]
        BY <1>1, <1>3, <2>2
      <3>4. slots \in [Sessions -> Seq(Messages) \union {None}]
        BY DEF BelongInv, Typed
      <3>5. Owned(r.sid) \subseteq Owned(r.sid)'
        BY <1>5, OwnedGrows DEF Grows
      <3>6. Belongs(ks, Owned(r.sid)')
        BY <3>1, <3>5, BelongsMore
      <3> HIDE DEF ks
      <3>7. /\ slots' \in [Sessions -> Seq(Messages) \union {None}]
            /\ slots'[r.sid] = ks
            /\ \A t \in Sessions : t # r.sid => slots'[t] = slots[t]
        BY <1>1, <3>2, <3>3, <3>4
      <3>8. Slot(r.sid)' = ks /\ \A t \in Sessions : t # r.sid => Slot(t)' = Slot(t)
        BY <3>2, <3>7 DEF Slot
      <3>9. \A t \in Sessions : Slot(t)' = Slot(t) \/ Belongs(Slot(t)', Owned(t)')
        BY <3>6, <3>8
      <3> QED
        BY <1>2, <1>5, <1>7, <3>7, <3>9, SlotsStep
    <2> QED
      BY <2>1, <2>2
  <1>9. ReadsBelong'
    BY <1>2, <1>5, ReadsStep
  <1>10. Typed'
    BY <1>1, <1>2, <1>4, <1>8 DEF BelongInv, Typed
  <1> QED
    BY <1>2, <1>6, <1>7, <1>8, <1>9, <1>10 DEF BelongInv

\* What the server says of a call.
LEMMA ServerKeeps ==
    ASSUME BelongInv, StopInv', NEW c \in Calls,
           \/ Accept(c) \/ Refuse(c) \/ LoseConnection(c)
           \/ \E saves, tells \in BOOLEAN : Settle(c, saves, tells)
    PROVE  BelongInv'
  <1> USE DEF screen, stream, backend
  <1>1. /\ UNCHANGED <<pc, call, slots, displayed, bound, usage, streaming, reads, retry>>
        /\ server[c] # "none"
        /\ server' = server \/ \E x : server' = [server EXCEPT ![c] = x]
    BY DEF Accept, Refuse, LoseConnection, Settle
  <1>2. pc[c] # "none" /\ call[c].sid \in Sessions /\ c \in Owned(call[c].sid)
    BY <1>1 DEF BelongInv, Typed, Owned
  <1>3. history' = history \/ history' = [history EXCEPT ![call[c].sid] = @ \o Turn(c)]
    BY DEF Accept, Refuse, LoseConnection, Settle
  <1> DEFINE s == call[c].sid
             h == history[s]
  <1>4. Belongs(h \o Turn(c), Owned(s))
    <2> DEFINE u == [Message("user", c) EXCEPT !.known = TRUE]
               a == [Message("assistant", c) EXCEPT !.known = TRUE]
    <2>1. /\ u \in Messages /\ u.call = c /\ u.role = "user"
          /\ a \in Messages /\ a.call = c /\ a.role = "assistant"
      BY DEF Message, Messages
    <2>2. Turn(c) = <<u, a>>
      BY DEF Turn
    <2>3. Belongs(h, Owned(s))
      BY <1>2 DEF BelongInv, SlotsBelong
    <2> HIDE DEF u, a, h, s
    <2>4. h \in Seq(Messages)
      BY <2>3 DEF Belongs
    <2>5. Belongs(Append(h, u), Owned(s)) /\ Asked(Append(h, u), c)
      <3>1. c \in Owned(s)
        BY <1>2 DEF s
      <3> QED
        BY <2>1, <2>3, <2>4, <3>1, BelongsAppend, AskedAppend
    <2>6. Belongs(Append(Append(h, u), a), Owned(s))
      <3>1. c \in Owned(s)
        BY <1>2 DEF s
      <3> QED
        BY <2>1, <2>5, <3>1, BelongsAppend
    <2>7. h \o <<u, a>> = Append(Append(h, u), a)
      <3> HIDE DEF Messages
      <3>1. \A t \in Seq(Messages) : \A x, y \in Messages :
               t \o <<x, y>> = Append(Append(t, x), y)
        OBVIOUS
      <3> QED
        BY <2>1, <2>4, <3>1
    <2> QED
      BY <2>2, <2>6, <2>7
  <1>5. h \o Turn(c) \in Seq(Messages) /\ history \in [Sessions -> Seq(Messages)]
    BY <1>4 DEF Belongs, BelongInv, Typed
  <1>6. /\ history' \in [Sessions -> Seq(Messages)]
        /\ \A t \in Sessions : history'[t] = history[t] \/ (t = s /\ history'[t] = h \o Turn(c))
    BY <1>2, <1>3, <1>5
  <1>7. Owned(s)' = Owned(s) /\ s' = s
    BY <1>1 DEF Owned
  <1>8. \A t \in Sessions : history'[t] = history[t] \/ Belongs(history'[t], Owned(t)')
    BY <1>4, <1>6, <1>7
  <1>9. /\ server' = [d \in Calls |-> server'[d]]
        /\ \A d \in Calls : server'[d] # "none" => pc[d] # "none"
    <2>1. server = [d \in Calls |-> server[d]] /\ \A d \in Calls : server[d] # "none" => pc[d] # "none"
      BY DEF BelongInv, Typed
    <2> QED
      BY <1>1, <1>2, <2>1
  <1>10. Typed'
    BY <1>1, <1>6, <1>9 DEF BelongInv, Typed
  <1> QED
    BY <1>1, <1>8, <1>10, StillStep DEF BelongInv

\* retryLast asks again in the session on the screen.
LEMMA RepeatKeeps ==
    ASSUME BelongInv, StopInv', Repeat
    PROVE  BelongInv'
  <1> DEFINE sid == IF displayed # None THEN displayed ELSE retry.sid
             before == [slots EXCEPT ![retry.sid] = IF @ = None THEN None ELSE LeaveOut(@)]
  <1>1. retry.pc = "delete" /\ retry.sid \in Sessions /\ sid \in Sessions
    BY ChatAssumption DEF Repeat, BelongInv, Typed
  <1>2. ~streaming /\ Recovering = {}
    BY <1>1 DEF BelongInv, StopInv, BaseInv, Recovering
  <1>3. /\ slots \in [Sessions -> Seq(Messages) \union {None}]
        /\ history \in [Sessions -> Seq(Messages)]
        /\ \A s \in Sessions : Belongs(Slot(s), Owned(s)) /\ Belongs(history[s], Owned(s))
    BY DEF BelongInv, Typed, SlotsBelong
  <1>4. /\ before \in [Sessions -> Seq(Messages) \union {None}]
        /\ \A s \in Sessions : Belongs(IF before[s] = None THEN <<>> ELSE before[s], Owned(s))
    <2>1. CASE slots[retry.sid] = None
      <3>1. before = slots
        BY <1>1, <1>3, <2>1
      <3> QED
        BY <1>3, <3>1 DEF Slot
    <2>2. CASE slots[retry.sid] # None
      <3> DEFINE ms == LeaveOut(slots[retry.sid])
      <3>1. Belongs(ms, Owned(retry.sid))
        BY <1>1, <1>3, <2>2, BelongsLeaveOut DEF Slot
      <3>2. ms \in Seq(Messages) /\ ms # None
        BY <3>1, ChatAssumption DEF Belongs
      <3> HIDE DEF ms
      <3>3. before = [slots EXCEPT ![retry.sid] = ms]
        BY <2>2 DEF ms
      <3> HIDE DEF before
      <3>4. /\ before[retry.sid] = ms
            /\ \A s \in Sessions : s # retry.sid => before[s] = slots[s]
            /\ before \in [Sessions -> Seq(Messages) \union {None}]
        BY <1>1, <1>3, <3>2, <3>3
      <3> QED
        BY <1>3, <3>1, <3>2, <3>4 DEF Slot
    <2> QED
      BY <2>1, <2>2
  <1>5. /\ history' \in [Sessions -> Seq(Messages)]
        /\ \A s \in Sessions : Belongs(history'[s], Owned(s))
    <2>1. CASE UNCHANGED history
      BY <1>3, <2>1
    <2>2. CASE history' = [history EXCEPT ![retry.sid] = Cut(@, retry.target)]
      <3> DEFINE h == Cut(history[retry.sid], retry.target)
      <3>1. Belongs(h, Owned(retry.sid))
        BY <1>1, <1>3, BelongsCut
      <3>2. h \in Seq(Messages)
        BY <3>1 DEF Belongs
      <3>3. history' = [history EXCEPT ![retry.sid] = h]
        BY <2>2
      <3> HIDE DEF h
      <3> QED
        BY <1>1, <1>3, <3>1, <3>2, <3>3
    <2> QED
      BY <2>1, <2>2 DEF Repeat
  <1>6. /\ Start(sid, retry.query, before)
        /\ retry'.pc = "idle" /\ CanCall /\ UNCHANGED <<displayed, bound, reads>>
    BY DEF Repeat, Idle
  <1> HIDE DEF sid, before
  <1> QED
    BY <1>1, <1>2, <1>4, <1>5, <1>6, StartKeeps

\* Every calm step keeps what belongs.
LEMMA BelongStep == BelongInv /\ [Next /\ Calm]_vars => BelongInv'
  <1> SUFFICES ASSUME BelongInv, [Next /\ Calm]_vars PROVE BelongInv'
    OBVIOUS
  <1>0. StopInv'
    BY StopStep DEF BelongInv
  <1> USE DEF screen, stream, backend
  <1>1. ASSUME NEW s \in Sessions, OpenSession(s), Calm PROVE BelongInv'
    <2>1. Recovering = {}
      BY <1>1 DEF Calm, CrossesRecovery
    <2> QED
      BY <1>0, <1>1, <2>1, OpenSessionKeeps
  <1>2. ASSUME Refresh PROVE BelongInv'
    <2>1. bound \in Sessions /\ ReadBelongs(Read("load", bound, 0))'
      BY <1>2 DEF Refresh, BelongInv, Typed, ReadBelongs, Read
    <2>2. Typed'
      BY <1>2 DEF Refresh, BelongInv, Typed
    <2> QED
      BY <1>0, <1>2, <2>1, <2>2, StillStep DEF Refresh, BelongInv
  <1>3. ASSUME Send, Calm PROVE BelongInv'
    <2>0. Recovering = {}
      BY <1>3 DEF Calm, CrossesRecovery
    <2>1. /\ ~streaming /\ CanCall
          /\ Start(IF displayed # None THEN displayed ELSE bound, None, slots)
          /\ UNCHANGED <<displayed, bound, reads, retry, history>>
      BY <1>3 DEF Send
    <2>2. (IF displayed # None THEN displayed ELSE bound) \in Sessions
      BY <1>3 DEF Send, BelongInv, Typed
    <2>3. /\ slots \in [Sessions -> Seq(Messages) \union {None}]
          /\ history' \in [Sessions -> Seq(Messages)]
          /\ \A s \in Sessions : /\ Belongs(IF slots[s] = None THEN <<>> ELSE slots[s], Owned(s))
                                 /\ Belongs(history'[s], Owned(s))
      BY <2>1 DEF BelongInv, Typed, SlotsBelong, Slot
    <2> QED
      BY <1>0, <2>0, <2>1, <2>2, <2>3, StartKeeps
  <1>4. ASSUME Retry, Calm PROVE BelongInv'
    <2>0. Recovering = {}
      BY <1>4 DEF Calm, CrossesRecovery
    <2>1. /\ bound \in Sessions /\ ReadBelongs(Read("retry", bound, 0))'
          /\ retry'.sid = bound
      BY <1>4 DEF Retry, BelongInv, Typed, ReadBelongs, Read
    <2>2. Typed'
      BY <1>4, <2>1 DEF Retry, BelongInv, Typed
    <2>3. \A c \in Calls : pc[c] # "recovering"
      BY <2>0 DEF Recovering
    <2> QED
      BY <1>0, <1>4, <2>1, <2>2, <2>3, StillStep DEF Retry, BelongInv
  <1>5. ASSUME NEW shown \in BOOLEAN, StopStreaming(shown) PROVE BelongInv'
    <2>1. abort \in Calls /\ pc[abort] = "open"
      BY <1>5 DEF StopStreaming, BelongInv, StopInv, BaseInv, OneStream
    <2> QED
      BY <1>0, <1>5, <2>1, EndKeeps DEF StopStreaming, EndOfStream, Finally
  <1>6. ASSUME NEW r \in reads, Hydrate(r), Calm PROVE BelongInv'
    <2>1. \A c \in Recovering : Home(c) # r.sid
      BY <1>6 DEF Calm, CrossesRecovery
    <2> QED
      BY <1>0, <1>6, <2>1, HydrateKeeps
  <1>7. ASSUME NEW r \in reads, LoadFails(r) PROVE BelongInv'
    <2>1. Typed'
      BY <1>7 DEF LoadFails, BelongInv, Typed
    <2> QED
      BY <1>0, <1>7, <2>1, StillStep DEF LoadFails, BelongInv
  <1>8. ASSUME NEW r \in reads, Recover(r) \/ RecoverNothing(r) PROVE BelongInv'
    BY <1>0, <1>8, RecoveryKeeps
  <1>9. ASSUME NEW r \in reads, FoundTarget(r) PROVE BelongInv'
    <2>1. retry.pc = "fetch" /\ retry'.sid = retry.sid
      BY <1>9 DEF FoundTarget, BelongInv, StopInv, BaseInv, OneRead
    <2>2. Typed' /\ \A c \in Calls : pc[c] # "recovering"
      BY <1>9, <2>1 DEF FoundTarget, BelongInv, Typed
    <2> QED
      BY <1>0, <1>9, <2>1, <2>2, StillStep DEF FoundTarget, BelongInv
  <1>10. ASSUME NEW c \in Calls, OnFinal(c) PROVE BelongInv'
    BY <1>0, <1>10, EndKeeps DEF OnFinal, EndOfStream, Finally
  <1>11. ASSUME NEW c \in Calls, StreamIsLost(c) PROVE BelongInv'
    BY <1>0, <1>11, EndKeeps DEF StreamIsLost, EndOfStream, Finally
  <1>12. ASSUME Repeat PROVE BelongInv'
    BY <1>0, <1>12, RepeatKeeps
  <1>13. ASSUME NEW r \in reads, ServeRead(r) PROVE BelongInv'
    <2>1. /\ r.sid \in Sessions /\ (r.why = "recover" => r.sid = call[r.call].sid)
          /\ Belongs(history[r.sid], Owned(r.sid))
      BY DEF BelongInv, ReadsBelong, SlotsBelong
    <2>2. ReadBelongs(Answered(r, history[r.sid]))'
      <3> DEFINE q == Answered(r, history[r.sid])
      <3>1. q.why = r.why /\ q.sid = r.sid /\ q.call = r.call /\ q.snap = history[r.sid]
        BY DEF Answered
      <3>2. UNCHANGED <<call, pc, history>> /\ Owned(r.sid)' = Owned(r.sid)
        BY <1>13 DEF ServeRead, Owned
      <3>3. q' = q
        BY <3>2 DEF Answered
      <3> HIDE DEF q
      <3>4. ReadBelongs(q)'
        BY <2>1, <3>1, <3>2, <3>3 DEF ReadBelongs
      <3> QED
        BY <3>4 DEF q
    <2>3. reads' = (reads \ {r}) \union {Answered(r, history[r.sid])}
      BY <1>13 DEF ServeRead
    <2>4. Typed'
      BY <1>13 DEF ServeRead, BelongInv, Typed
    <2>5. \A q \in reads' : q \in reads \/ ReadBelongs(q)'
      <3>1. Answered(r, history[r.sid])' = Answered(r, history[r.sid])
        BY <1>13 DEF ServeRead, Answered
      <3> TAKE q \in reads'
      <3>2. CASE q = Answered(r, history[r.sid])
        BY <2>2, <3>1, <3>2 DEF ReadBelongs
      <3> QED
        BY <2>3, <3>2
    <2> QED
      BY <1>0, <1>13, <2>4, <2>5, StillStep DEF ServeRead, BelongInv
  <1>14. ASSUME NEW c \in Calls,
                \/ Accept(c) \/ Refuse(c) \/ LoseConnection(c)
                \/ \E saves, tells \in BOOLEAN : Settle(c, saves, tells)
         PROVE  BelongInv'
    BY <1>0, <1>14, ServerKeeps
  <1>15. ASSUME NEW c \in Calls, OnContextUsage(c) PROVE BelongInv'
    <2>1. Typed'
      BY <1>15 DEF OnContextUsage, ShowUsage, BelongInv, Typed
    <2> QED
      BY <1>0, <1>15, <2>1, StillStep DEF OnContextUsage, BelongInv
  <1>16. ASSUME UNCHANGED vars PROVE BelongInv'
    <2>1. Typed'
      BY <1>16 DEF vars, BelongInv, Typed
    <2> QED
      BY <1>0, <1>16, <2>1, StillStep DEF vars, BelongInv
  <1> QED
    BY <1>1, <1>2, <1>3, <1>4, <1>5, <1>6, <1>7, <1>8, <1>9, <1>10, <1>11, <1>12,
       <1>13, <1>14, <1>15, <1>16 DEF Next, User, Arrivals, Server

\* An answer stands behind its question, whatever is opened, stopped, lost,
\* recovered or repeated while streams run, unless something gets between the
\* awaits of a retry or a recovery (useChatAgent's hydrate, sendQuery, recovery
\* and retryLast).
THEOREM AnswersFollowQuestions == CalmSpec => []AnswersHaveQuestions
  <1>1. BelongInv => AnswersHaveQuestions
    <2> SUFFICES ASSUME BelongInv PROVE AnswersHaveQuestions
      OBVIOUS
    <2>1. \A s \in Sessions : Belongs(Slot(s), Owned(s))
      BY DEF BelongInv, SlotsBelong
    <2> QED
      BY <2>1 DEF Belongs, AnswersHaveQuestions
  <1>2. BelongInv /\ [Next /\ Calm]_vars => BelongInv'
    BY BelongStep
  <1> QED
    BY BelongInitially, <1>1, <1>2, PTL DEF CalmSpec

-----------------------------------------------------------------------------
(* Where messages stand, whatever the user does                             *)

\* Messages of calls made in session s.
Of(s) == { m \in Messages : m.call \in Owned(s) }

HomeRead(r) ==
    /\ r.sid \in Sessions
    /\ r.why = "recover" => r.sid = call[r.call].sid
    /\ r.snap # None => r.snap \in Seq(Of(r.sid))

\* Every slot, history and response holds messages of its own session only.
HomeInv ==
    /\ BaseInv
    /\ Typed
    /\ abort # None => abort \in Calls /\ pc[abort] = "open"
    /\ \A r \in reads : HomeRead(r)
    /\ \A s \in Sessions : Slot(s) \in Seq(Of(s)) /\ history[s] \in Seq(Of(s))

LEMMA LargerSeq ==
    ASSUME NEW A, NEW B, A \subseteq B, NEW q \in Seq(A)
    PROVE  q \in Seq(B)
  <1>1. Len(q) \in Nat /\ q = [i \in 1..Len(q) |-> q[i]] /\ \A i \in 1..Len(q) : q[i] \in A
    OBVIOUS
  <1> QED
    BY <1>1

LEMMA PrefixSeq ==
    ASSUME NEW A, NEW q \in Seq(A), NEW n \in 0..Len(q)
    PROVE  SubSeq(q, 1, n) \in Seq(A)
  OBVIOUS

LEMMA OfGrows ==
    ASSUME Grows, NEW s
    PROVE  Of(s) \subseteq Of(s)' /\ Seq(Of(s)) \subseteq Seq(Of(s)')
  <1>1. Of(s) \subseteq Of(s)'
    BY OwnedGrows DEF Grows, Of
  <1> HIDE DEF Of
  <1> QED
    BY <1>1, LargerSeq

LEMMA OfMessages ==
    \A s : Of(s) \subseteq Messages /\ Seq(Of(s)) \subseteq Seq(Messages)
  <1> TAKE s
  <1>1. Of(s) \subseteq Messages
    BY DEF Of
  <1> HIDE DEF Of, Messages
  <1> QED
    BY <1>1, LargerSeq

LEMMA HomeInitially == Init => HomeInv
  <1> SUFFICES ASSUME Init PROVE HomeInv
    OBVIOUS
  <1>1. BaseInv
    BY StopInitially DEF StopInv
  <1>2. Typed
    BY BelongInitially DEF BelongInv
  <1>3. \A s \in Sessions : Slot(s) = <<>> /\ history[s] = <<>>
    BY DEF Init, Slot
  <1>4. \A s : <<>> \in Seq(Of(s))
    <2> HIDE DEF Of
    <2> QED
      OBVIOUS
  <1> QED
    BY <1>1, <1>2, <1>3, <1>4 DEF Init, HomeInv

\* What a step has to show.
LEMMA HomeFrame ==
    ASSUME HomeInv, Grows, BaseInv', Typed',
           abort' # None => abort' \in Calls /\ pc'[abort'] = "open",
           \A r \in reads' : r \in reads \/ HomeRead(r)',
           \A s \in Sessions :
             /\ Slot(s)' = Slot(s) \/ Slot(s)' \in Seq(Of(s)')
             /\ history'[s] = history[s] \/ history'[s] \in Seq(Of(s)')
    PROVE  HomeInv'
  <1>1. ASSUME NEW r \in reads PROVE HomeRead(r)'
    <2>1. HomeRead(r)
      BY <1>1 DEF HomeInv
    <2>2. r.why = "recover" => call'[r.call].sid = call[r.call].sid
      BY <1>1 DEF HomeInv, BaseInv, OneRead, Grows
    <2>3. r.snap # None => r.snap \in Seq(Of(r.sid)')
      BY <2>1, OfGrows DEF HomeRead
    <2> QED
      BY <2>1, <2>2, <2>3 DEF HomeRead
  <1>2. \A s \in Sessions : Slot(s)' \in Seq(Of(s)') /\ history'[s] \in Seq(Of(s)')
    BY OfGrows DEF HomeInv
  <1> QED
    BY <1>1, <1>2 DEF HomeInv

\* Steps that keep the calls.
LEMMA HomeStill ==
    ASSUME HomeInv, UNCHANGED <<pc, call, abort>>, OneRead', Typed',
           \A r \in reads' : r \in reads \/ HomeRead(r)',
           \A s \in Sessions :
             /\ Slot(s)' = Slot(s) \/ Slot(s)' \in Seq(Of(s)')
             /\ history'[s] = history[s] \/ history'[s] \in Seq(Of(s)')
    PROVE  HomeInv'
  <1>1. Grows
    BY DEF Grows
  <1>2. BaseInv'
    BY DEF HomeInv, BaseInv, InOrder
  <1> QED
    BY <1>1, <1>2, HomeFrame DEF HomeInv

\* A slot is replaced.
LEMMA SlotSet ==
    ASSUME HomeInv, NEW s \in Sessions, NEW q \in Seq(Of(s)'), slots' = [slots EXCEPT ![s] = q]
    PROVE  /\ slots' \in [Sessions -> Seq(Messages) \union {None}]
           /\ Slot(s)' = q /\ \A t \in Sessions : t # s => Slot(t)' = Slot(t)
  <1>1. q \in Seq(Messages) /\ q # None
    <2>1. Of(s)' \subseteq Messages
      BY DEF Of, Messages
    <2> HIDE DEF Of, Messages
    <2>2. q \in Seq(Messages)
      BY <2>1, LargerSeq
    <2> QED
      BY <2>2, ChatAssumption
  <1>2. slots \in [Sessions -> Seq(Messages) \union {None}]
    BY DEF HomeInv, Typed
  <1>3. /\ slots' \in [Sessions -> Seq(Messages) \union {None}] /\ slots'[s] = q
        /\ \A t \in Sessions : t # s => slots'[t] = slots[t]
    BY <1>1, <1>2
  <1> QED
    BY <1>1, <1>3 DEF Slot

\* toChatMessages keeps the calls.
LEMMA KnownOf ==
    ASSUME NEW s, NEW h \in Seq(Of(s))
    PROVE  ToChatMessages(h) \in Seq(Of(s))
  <1> DEFINE ks == ToChatMessages(h)
  <1>1. DOMAIN h = 1..Len(h) /\ Len(h) \in Nat
    OBVIOUS
  <1>2. ks = [i \in 1..Len(h) |-> [h[i] EXCEPT !.known = TRUE]]
    BY <1>1 DEF ToChatMessages
  <1>3. ASSUME NEW i \in 1..Len(h) PROVE [h[i] EXCEPT !.known = TRUE] \in Of(s)
    <2>1. h[i] \in Of(s)
      BY <1>1
    <2> QED
      BY <2>1 DEF Of, Messages
  <1> HIDE DEF Of
  <1>4. ks \in Seq(Of(s))
    BY <1>1, <1>2, <1>3
  <1> QED
    BY <1>4

\* A stream or a recovery ends; its message may join the slot.
LEMMA HomeEnds ==
    ASSUME HomeInv, NEW c \in Calls, pc[c] # "none",
           NEW place \in {"over", "recovering"}, pc' = [pc EXCEPT ![c] = place],
           OneRead', UNCHANGED <<call, displayed, bound, usage, retry, server, history>>,
           abort' = None \/ (abort' = abort /\ pc[c] # "open"),
           \A r \in reads' : r \in reads \/ HomeRead(r)',
           \/ UNCHANGED slots
           \/ slots' = Add(Home(c), Message("assistant", c))
           \/ \E h \in Seq(Of(Home(c))) : slots' = [slots EXCEPT ![Home(c)] = ToChatMessages(h)]
    PROVE  HomeInv'
  <1>1. pc' \in [Calls -> Places] /\ pc'[c] = place /\ \A d \in Calls : d # c => pc'[d] = pc[d]
    BY DEF HomeInv, BaseInv, Places
  <1>2. Grows
    BY <1>1 DEF Grows
  <1>3. BaseInv'
    BY <1>1 DEF HomeInv, BaseInv, InOrder
  <1>4. Home(c) \in Sessions /\ c \in Owned(Home(c))
    BY DEF HomeInv, Typed, Home, Owned
  <1>5. /\ slots' \in [Sessions -> Seq(Messages) \union {None}]
        /\ \A s \in Sessions : Slot(s)' = Slot(s) \/ Slot(s)' \in Seq(Of(s)')
    <2>1. CASE UNCHANGED slots
      BY <2>1 DEF HomeInv, Typed, Slot
    <2>2. ASSUME NEW q \in Seq(Of(Home(c))), slots' = [slots EXCEPT ![Home(c)] = q]
          PROVE  /\ slots' \in [Sessions -> Seq(Messages) \union {None}]
                 /\ \A t \in Sessions : Slot(t)' = Slot(t) \/ Slot(t)' \in Seq(Of(t)')
      <3>0. PICK s \in Sessions : s = Home(c)
        BY <1>4
      <3>1. q \in Seq(Of(s)')
        BY <1>2, <3>0, OfGrows
      <3>2. slots' = [slots EXCEPT ![s] = q]
        BY <2>2, <3>0
      <3>3. /\ slots' \in [Sessions -> Seq(Messages) \union {None}]
            /\ Slot(s)' = q /\ \A t \in Sessions : t # s => Slot(t)' = Slot(t)
        BY <3>1, <3>2, SlotSet
      <3> QED
        BY <3>1, <3>3
    <2>3. CASE slots' = Add(Home(c), Message("assistant", c))
      <3>1. Message("assistant", c) \in Of(Home(c)) /\ Slot(Home(c)) \in Seq(Of(Home(c)))
        BY <1>4 DEF Message, Messages, Of, HomeInv
      <3> HIDE DEF Of
      <3>2. Append(Slot(Home(c)), Message("assistant", c)) \in Seq(Of(Home(c)))
        BY <3>1
      <3> QED
        BY <2>2, <2>3, <3>2 DEF Add
    <2>4. ASSUME NEW h \in Seq(Of(Home(c))),
                 slots' = [slots EXCEPT ![Home(c)] = ToChatMessages(h)]
          PROVE  /\ slots' \in [Sessions -> Seq(Messages) \union {None}]
                 /\ \A t \in Sessions : Slot(t)' = Slot(t) \/ Slot(t)' \in Seq(Of(t)')
      BY <2>2, <2>4, KnownOf
    <2> QED
      BY <2>1, <2>3, <2>4
  <1>6. Typed'
    BY <1>1, <1>5 DEF HomeInv, Typed
  <1>7. abort' # None => abort' \in Calls /\ pc'[abort'] = "open"
    BY <1>1 DEF HomeInv
  <1> QED
    BY <1>2, <1>3, <1>5, <1>6, <1>7, HomeFrame

\* A stream starts in the session it was asked in.
LEMMA HomeStarts ==
    ASSUME HomeInv, CanCall, NEW sid \in Sessions, NEW query, NEW before,
           before \in [Sessions -> Seq(Messages) \union {None}],
           \A s \in Sessions : (IF before[s] = None THEN <<>> ELSE before[s]) \in Seq(Of(s)),
           Start(sid, query, before),
           history' \in [Sessions -> Seq(Messages)],
           \A s \in Sessions : history'[s] \in Seq(Of(s)),
           UNCHANGED <<displayed, bound, reads>>,
           UNCHANGED retry \/ (retry.pc = "delete" /\ retry' = Idle)
    PROVE  HomeInv'
  <1> DEFINE c == NextCall
             m == Message("user", c)
             b == IF before[sid] = None THEN <<>> ELSE before[sid]
  <1>1. /\ BaseInv'
        /\ c \in Calls /\ pc[c] = "none" /\ pc'[c] = "open" /\ call'[c].sid = sid
        /\ \A d \in Calls : d # c => pc'[d] = pc[d] /\ call'[d] = call[d]
    BY StartsCall DEF HomeInv
  <1>2. /\ abort' = c /\ usage' = None
        /\ slots' = [before EXCEPT ![sid] = Append(b, m)]
        /\ server' = [server EXCEPT ![c] = "sent"]
    BY DEF Start
  <1>3. m \in Of(sid)'
    BY <1>1 DEF Message, Messages, Of, Owned
  <1> HIDE DEF c, m, b
  <1>4. Grows
    BY <1>1 DEF Grows
  <1>5. \A s \in Sessions : /\ (IF before[s] = None THEN <<>> ELSE before[s]) \in Seq(Of(s)')
                            /\ history'[s] \in Seq(Of(s)')
    BY <1>4, OfGrows
  <1>6. b \in Seq(Of(sid)')
    BY <1>5 DEF b
  <1>7. Append(b, m) \in Seq(Of(sid)')
    <2> HIDE DEF Of
    <2> QED
      BY <1>3, <1>6
  <1>8. Append(b, m) \in Seq(Messages) /\ Append(b, m) # None
    <2>1. Of(sid)' \subseteq Messages
      BY DEF Of, Messages
    <2> HIDE DEF Of, Messages
    <2>2. Append(b, m) \in Seq(Messages)
      BY <1>7, <2>1, LargerSeq
    <2> QED
      BY <2>2, ChatAssumption
  <1>9. /\ slots' \in [Sessions -> Seq(Messages) \union {None}]
        /\ slots'[sid] = Append(b, m)
        /\ \A s \in Sessions : s # sid => slots'[s] = before[s]
    BY <1>2, <1>8
  <1>10. \A s \in Sessions : Slot(s)' \in Seq(Of(s)')
    BY <1>5, <1>7, <1>8, <1>9 DEF Slot
  <1>11. Typed'
    <2>1. /\ server' = [d \in Calls |-> server'[d]]
          /\ \A d \in Calls : server'[d] # "none" => pc'[d] # "none"
      <3>1. \A d \in Calls : d # c => server'[d] = server[d]
        BY <1>2
      <3>2. server' = [d \in Calls |-> server'[d]]
        BY <1>1, <1>2 DEF HomeInv, Typed
      <3> QED
        BY <1>1, <3>1, <3>2 DEF HomeInv, Typed
    <2>2. \A d \in Calls : pc'[d] # "none" => call'[d].sid \in Sessions
      BY <1>1 DEF HomeInv, Typed
    <2>3. retry'.pc # "idle" => retry'.sid \in Sessions
      BY DEF HomeInv, Typed, Idle
    <2> QED
      BY <1>2, <1>9, <2>1, <2>2, <2>3 DEF HomeInv, Typed
  <1> QED
    BY <1>1, <1>2, <1>4, <1>5, <1>10, <1>11, HomeFrame

\* The pair leaves its slot and the rest its history, before the query is asked.
LEMMA HomeRepeats ==
    ASSUME HomeInv, Repeat
    PROVE  HomeInv'
  <1> DEFINE sid == IF displayed # None THEN displayed ELSE retry.sid
             before == [slots EXCEPT ![retry.sid] = IF @ = None THEN None ELSE LeaveOut(@)]
  <1>1. retry.pc = "delete" /\ retry.sid \in Sessions /\ sid \in Sessions
    BY ChatAssumption DEF Repeat, HomeInv, Typed
  <1>2. /\ slots \in [Sessions -> Seq(Messages) \union {None}]
        /\ history \in [Sessions -> Seq(Messages)]
        /\ \A s \in Sessions : Slot(s) \in Seq(Of(s)) /\ history[s] \in Seq(Of(s))
    BY DEF HomeInv, Typed
  <1>0. \A s, q : q \in Seq(Of(s)) => q \in Seq(Messages) /\ q # None
    <2>1. \A s : Seq(Of(s)) \subseteq Seq(Messages)
      BY OfMessages
    <2> QED
      BY <2>1, ChatAssumption
  <1> HIDE DEF Of, Messages
  <1>6. \A s : <<>> \in Seq(Of(s))
    OBVIOUS
  <1>3. /\ before \in [Sessions -> Seq(Messages) \union {None}]
        /\ \A s \in Sessions : (IF before[s] = None THEN <<>> ELSE before[s]) \in Seq(Of(s))
    <2>1. CASE slots[retry.sid] = None
      <3>1. before = slots
        BY <1>1, <1>2, <2>1
      <3> QED
        BY <1>2, <3>1 DEF Slot
    <2>2. CASE slots[retry.sid] # None
      <3> DEFINE ms == LeaveOut(slots[retry.sid])
      <3>1. ms \in Seq(Of(retry.sid))
        <4> DEFINE q == slots[retry.sid]
        <4>1. q \in Seq(Of(retry.sid)) /\ Len(q) \in Nat
          BY <1>1, <1>2, <2>2 DEF Slot
        <4> HIDE DEF q
        <4>2. CASE Len(q) >= 2
          <5>1. Len(q) - 2 \in 0..Len(q)
            BY <4>1, <4>2
          <5>2. SubSeq(q, 1, Len(q) - 2) \in Seq(Of(retry.sid))
            BY <4>1, <5>1, PrefixSeq
          <5> QED
            BY <4>2, <5>2 DEF LeaveOut, q
        <4>3. CASE ~(Len(q) >= 2)
          <5>1. LeaveOut(q) = <<>>
            BY <4>3 DEF LeaveOut
          <5> QED
            BY <1>6, <5>1 DEF q
        <4> QED
          BY <4>2, <4>3
      <3>2. ms \in Seq(Messages) /\ ms # None
        BY <1>0, <3>1
      <3> HIDE DEF ms
      <3>3. before = [slots EXCEPT ![retry.sid] = ms]
        BY <2>2 DEF ms
      <3> HIDE DEF before
      <3>4. /\ before[retry.sid] = ms
            /\ \A s \in Sessions : s # retry.sid => before[s] = slots[s]
            /\ before \in [Sessions -> Seq(Messages) \union {None}]
        BY <1>1, <1>2, <3>2, <3>3
      <3> QED
        BY <1>2, <3>1, <3>2, <3>4 DEF Slot
    <2> QED
      BY <2>1, <2>2
  <1>4. /\ history' \in [Sessions -> Seq(Messages)]
        /\ \A s \in Sessions : history'[s] \in Seq(Of(s))
    <2>1. CASE UNCHANGED history
      BY <1>2, <2>1
    <2>2. CASE history' = [history EXCEPT ![retry.sid] = Cut(@, retry.target)]
      <3> DEFINE q == history[retry.sid]
                 h == Cut(q, retry.target)
                 at == From(q, retry.target)
      <3>1. q \in Seq(Of(retry.sid)) /\ Len(q) \in Nat
        BY <1>1, <1>2
      <3>2. h \in Seq(Of(retry.sid))
        <4>1. CASE at = {}
          BY <3>1, <4>1 DEF Cut
        <4>2. CASE at # {}
          <5>1. at \subseteq 1..Len(q)
            BY <3>1 DEF From
          <5>2. Max(at) \in 1..Len(q)
            BY <3>1, <4>2, <5>1, LastPosition
          <5>3. Max(at) - 1 \in 0..Len(q)
            BY <3>1, <5>2
          <5>4. SubSeq(q, 1, Max(at) - 1) \in Seq(Of(retry.sid))
            BY <3>1, <5>3, PrefixSeq
          <5> QED
            BY <4>2, <5>4 DEF Cut
        <4> QED
          BY <4>1, <4>2
      <3>3. h \in Seq(Messages)
        BY <1>0, <3>2
      <3>4. history' = [history EXCEPT ![retry.sid] = h]
        BY <2>2
      <3> HIDE DEF h, q, at
      <3> QED
        BY <1>1, <1>2, <3>2, <3>3, <3>4
    <2> QED
      BY <2>1, <2>2 DEF Repeat
  <1>5. /\ Start(sid, retry.query, before)
        /\ CanCall /\ retry' = Idle /\ UNCHANGED <<displayed, bound, reads>>
    BY DEF Repeat
  <1> HIDE DEF sid, before
  <1> QED
    BY <1>1, <1>3, <1>4, <1>5, HomeStarts

\* What the server adds to a history is the turn of the call.
LEMMA HomeServed ==
    ASSUME HomeInv, NEW c \in Calls,
           \/ Accept(c) \/ Refuse(c) \/ LoseConnection(c)
           \/ \E saves, tells \in BOOLEAN : Settle(c, saves, tells)
    PROVE  HomeInv'
  <1> USE DEF screen, stream, backend
  <1>1. /\ UNCHANGED <<pc, call, abort, slots, displayed, bound, usage, reads, retry>>
        /\ server[c] # "none"
        /\ server' = server \/ \E x : server' = [server EXCEPT ![c] = x]
    BY DEF Accept, Refuse, LoseConnection, Settle
  <1>2. pc[c] # "none" /\ call[c].sid \in Sessions /\ c \in Owned(call[c].sid)
    BY <1>1 DEF HomeInv, Typed, Owned
  <1>3. history' = history \/ history' = [history EXCEPT ![call[c].sid] = @ \o Turn(c)]
    BY DEF Accept, Refuse, LoseConnection, Settle
  <1>4. PICK s \in Sessions : s = call[c].sid
    BY <1>2
  <1>5. Turn(c) \in Seq(Of(s))
    <2> DEFINE u == [Message("user", c) EXCEPT !.known = TRUE]
               a == [Message("assistant", c) EXCEPT !.known = TRUE]
    <2>1. u \in Of(s) /\ a \in Of(s) /\ Turn(c) = <<u, a>>
      BY <1>2, <1>4 DEF Message, Messages, Of, Turn
    <2> HIDE DEF u, a, Of
    <2> QED
      BY <2>1
  <1>6. history[s] \o Turn(c) \in Seq(Of(s))
    <2> HIDE DEF Of
    <2> QED
      BY <1>5 DEF HomeInv
  <1>7. history[s] \o Turn(c) \in Seq(Messages)
    BY <1>6, OfMessages
  <1>8. /\ history' \in [Sessions -> Seq(Messages)]
        /\ \A t \in Sessions : history'[t] = history[t] \/ (t = s /\ history'[t] = history[s] \o Turn(c))
    <2> DEFINE q == history[s] \o Turn(c)
    <2>1. history' = history \/ history' = [history EXCEPT ![s] = q]
      BY <1>3, <1>4
    <2>2. history \in [Sessions -> Seq(Messages)] /\ q \in Seq(Messages)
      BY <1>7 DEF HomeInv, Typed
    <2> HIDE DEF q, Messages
    <2>3. /\ history' \in [Sessions -> Seq(Messages)]
          /\ \A t \in Sessions : history'[t] = history[t] \/ (t = s /\ history'[t] = q)
      BY <2>1, <2>2
    <2> QED
      BY <2>3 DEF q
  <1>9. \A t \in Sessions : Of(t)' = Of(t)
    BY <1>1 DEF Of, Owned, Messages
  <1>10. \A t \in Sessions : history'[t] = history[t] \/ history'[t] \in Seq(Of(t)')
    BY <1>6, <1>8, <1>9
  <1>11. /\ server' = [d \in Calls |-> server'[d]]
         /\ \A d \in Calls : server'[d] # "none" => pc[d] # "none"
    <2>1. server = [d \in Calls |-> server[d]] /\ \A d \in Calls : server[d] # "none" => pc[d] # "none"
      BY DEF HomeInv, Typed
    <2> QED
      BY <1>1, <1>2, <2>1
  <1>12. Typed'
    BY <1>1, <1>8, <1>11 DEF HomeInv, Typed
  <1>13. OneRead'
    BY <1>1 DEF HomeInv, BaseInv, OneRead
  <1>14. \A t : Slot(t)' = Slot(t)
    BY <1>1 DEF Slot
  <1> QED
    BY <1>1, <1>10, <1>12, <1>13, <1>14, HomeStill

\* Every step leaves messages in their sessions.
LEMMA HomeStep == HomeInv /\ [Next]_vars => HomeInv'
  <1> SUFFICES ASSUME HomeInv, [Next]_vars PROVE HomeInv'
    OBVIOUS
  <1> USE DEF screen, stream, backend
  <1>0. \A s : <<>> \in Seq(Of(s)')
    <2> HIDE DEF Of
    <2> QED
      OBVIOUS
  <1>1. ASSUME NEW s \in Sessions, OpenSession(s) PROVE HomeInv'
    <2>1. UNCHANGED <<pc, call, abort, history, server, streaming, retry>>
      BY <1>1 DEF OpenSession
    <2>2. OneRead'
      BY <1>1, <2>1 DEF OpenSession, HomeInv, BaseInv, OneRead, Read
    <2>3. Typed' /\ \A t \in Sessions : Slot(t)' = Slot(t) \/ Slot(t)' \in Seq(Of(t)')
      <3>1. CASE streaming
        BY <1>1, <2>1, <3>1 DEF OpenSession, HomeInv, Typed, Slot
      <3>2. CASE ~streaming
        <4>1. slots' = [t \in Sessions |-> None] /\ displayed' = None /\ usage' = None /\ bound' = None
          BY <1>1, <3>2 DEF OpenSession
        <4>2. Typed' /\ \A t \in Sessions : Slot(t)' = <<>>
          BY <2>1, <4>1 DEF HomeInv, Typed, Slot
        <4> QED
          BY <1>0, <4>2
      <3> QED
        BY <3>1, <3>2
    <2>4. HomeRead(Read("load", s, 0))'
      BY DEF HomeRead, Read
    <2> QED
      BY <1>1, <2>1, <2>2, <2>3, <2>4, HomeStill DEF OpenSession
  <1>2. ASSUME Refresh PROVE HomeInv'
    <2>1. bound \in Sessions /\ HomeRead(Read("load", bound, 0))'
      BY <1>2 DEF Refresh, HomeInv, Typed, HomeRead, Read
    <2>2. Typed' /\ OneRead' /\ \A s \in Sessions : Slot(s)' = Slot(s)
      BY <1>2 DEF Refresh, HomeInv, Typed, BaseInv, OneRead, Read, Slot
    <2> QED
      BY <1>2, <2>1, <2>2, HomeStill DEF Refresh
  <1>3. ASSUME Send PROVE HomeInv'
    <2>1. /\ CanCall /\ Start(IF displayed # None THEN displayed ELSE bound, None, slots)
          /\ UNCHANGED <<displayed, bound, reads, retry, history>>
      BY <1>3 DEF Send
    <2>2. (IF displayed # None THEN displayed ELSE bound) \in Sessions
      BY <1>3 DEF Send, HomeInv, Typed
    <2>3. /\ slots \in [Sessions -> Seq(Messages) \union {None}]
          /\ history' \in [Sessions -> Seq(Messages)]
          /\ \A s \in Sessions : /\ (IF slots[s] = None THEN <<>> ELSE slots[s]) \in Seq(Of(s))
                                 /\ history'[s] \in Seq(Of(s))
      BY <2>1 DEF HomeInv, Typed, Slot
    <2> QED
      BY <2>1, <2>2, <2>3, HomeStarts
  <1>4. ASSUME Retry PROVE HomeInv'
    <2>1. bound \in Sessions /\ HomeRead(Read("retry", bound, 0))' /\ retry'.sid = bound
      BY <1>4 DEF Retry, HomeInv, Typed, HomeRead, Read
    <2>2. Typed' /\ OneRead' /\ \A s \in Sessions : Slot(s)' = Slot(s)
      BY <1>4, <2>1 DEF Retry, HomeInv, Typed, BaseInv, OneRead, Read, Slot
    <2> QED
      BY <1>4, <2>1, <2>2, HomeStill DEF Retry
  <1>5. ASSUME NEW shown \in BOOLEAN, StopStreaming(shown) PROVE HomeInv'
    <2>1. abort \in Calls /\ pc[abort] = "open"
      BY <1>5 DEF StopStreaming, HomeInv
    <2>2. PICK c \in Calls : c = abort
      BY <2>1
    <2>3. /\ pc' = [pc EXCEPT ![c] = "over"] /\ abort' = None
          /\ UNCHANGED <<call, displayed, bound, usage, reads, retry, server, history>>
          /\ UNCHANGED slots \/ slots' = Add(Home(c), Message("assistant", c))
      BY <1>5, <2>2 DEF StopStreaming, EndOfStream, Finally
    <2>4. OneRead'
      BY <2>1, <2>2, <2>3 DEF HomeInv, BaseInv, OneRead
    <2> QED
      BY <2>1, <2>2, <2>3, <2>4, HomeEnds
  <1>6. ASSUME NEW r \in reads, Hydrate(r) PROVE HomeInv'
    <2>1. /\ UNCHANGED <<pc, call, abort, history, server, retry>> /\ reads' = reads \ {r}
          /\ displayed' = r.sid /\ bound' = r.sid /\ usage' = r.sid
          /\ \/ UNCHANGED slots
             \/ slots' = [slots EXCEPT ![r.sid] = ToChatMessages(r.snap)]
      BY <1>6 DEF Hydrate
    <2>2. PICK s \in Sessions : s = r.sid
      BY DEF HomeInv, HomeRead
    <2>3. r.snap \in Seq(Of(s)) /\ Of(s)' = Of(s)
      <3>1. r.snap # None
        BY <1>6 DEF Hydrate
      <3> QED
        BY <2>1, <2>2, <3>1 DEF HomeInv, HomeRead, Of, Owned, Messages
    <2>4. /\ slots' \in [Sessions -> Seq(Messages) \union {None}]
          /\ \A t \in Sessions : Slot(t)' = Slot(t) \/ Slot(t)' \in Seq(Of(t)')
      <3>1. CASE UNCHANGED slots
        BY <3>1 DEF HomeInv, Typed, Slot
      <3>2. CASE slots' = [slots EXCEPT ![r.sid] = ToChatMessages(r.snap)]
        <4>1. PICK q \in Seq(Of(s)') : q = ToChatMessages(r.snap)
          BY <2>3, KnownOf
        <4>2. slots' = [slots EXCEPT ![s] = q]
          BY <2>2, <3>2, <4>1
        <4>3. /\ slots' \in [Sessions -> Seq(Messages) \union {None}]
              /\ Slot(s)' = q /\ \A t \in Sessions : t # s => Slot(t)' = Slot(t)
          BY <4>1, <4>2, SlotSet
        <4> QED
          BY <4>1, <4>3
      <3> QED
        BY <2>1, <3>1, <3>2
    <2>5. Typed' /\ OneRead'
      BY <2>1, <2>2, <2>4 DEF HomeInv, Typed, BaseInv, OneRead
    <2> QED
      BY <2>1, <2>4, <2>5, HomeStill
  <1>7. ASSUME NEW r \in reads, LoadFails(r) PROVE HomeInv'
    <2>1. Typed' /\ OneRead' /\ \A s \in Sessions : Slot(s)' = Slot(s)
      BY <1>7 DEF LoadFails, HomeInv, Typed, BaseInv, OneRead, Slot
    <2> QED
      BY <1>7, <2>1, HomeStill DEF LoadFails
  <1>8. ASSUME NEW r \in reads, Recover(r) \/ RecoverNothing(r) PROVE HomeInv'
    <2>1. /\ r.why = "recover" /\ r.sid = Home(r.call)
          /\ r.call \in Calls /\ pc[r.call] = "recovering"
      BY <1>8 DEF Recover, RecoverNothing, HomeInv, BaseInv, OneRead, HomeRead, Home
    <2>2. PICK c \in Calls : c = r.call
      BY <2>1
    <2>3. /\ pc' = [pc EXCEPT ![c] = "over"] /\ reads' = reads \ {r}
          /\ UNCHANGED <<call, abort, displayed, bound, usage, retry, server, history>>
      BY <1>8, <2>2 DEF Recover, RecoverNothing
    <2>4. OneRead'
      <3>1. \A d \in Calls : d # c => pc'[d] = pc[d]
        BY <2>3 DEF HomeInv, BaseInv
      <3> QED
        BY <2>1, <2>2, <2>3, <3>1 DEF HomeInv, BaseInv, OneRead
    <2>5. \/ slots' = Add(Home(c), Message("assistant", c))
          \/ \E h \in Seq(Of(Home(c))) : slots' = [slots EXCEPT ![Home(c)] = ToChatMessages(h)]
      <3>1. CASE RecoverNothing(r)
        BY <2>2, <3>1 DEF RecoverNothing
      <3>2. CASE Recover(r)
        <4>1. r.snap \in Seq(Of(Home(c)))
          BY <2>1, <2>2, <3>2 DEF Recover, HomeInv, HomeRead
        <4>2. slots' = [slots EXCEPT ![Home(c)] = ToChatMessages(r.snap)]
          BY <2>2, <3>2 DEF Recover
        <4> QED
          BY <4>1, <4>2
      <3> QED
        BY <1>8, <3>1, <3>2
    <2> QED
      BY <2>1, <2>2, <2>3, <2>4, <2>5, HomeEnds
  <1>9. ASSUME NEW r \in reads, FoundTarget(r) PROVE HomeInv'
    <2>1. retry.pc = "fetch" /\ retry'.sid = retry.sid
      BY <1>9 DEF FoundTarget, HomeInv, BaseInv, OneRead
    <2>2. Typed' /\ OneRead' /\ \A s \in Sessions : Slot(s)' = Slot(s)
      BY <1>9, <2>1 DEF FoundTarget, HomeInv, Typed, BaseInv, OneRead, Slot
    <2> QED
      BY <1>9, <2>2, HomeStill DEF FoundTarget
  <1>10. ASSUME NEW c \in Calls, OnFinal(c) PROVE HomeInv'
    <2>1. OneRead'
      <3>1. \A d \in Calls : d # c => pc'[d] = pc[d]
        BY <1>10 DEF OnFinal, HomeInv, BaseInv
      <3>2. pc[c] = "open" /\ UNCHANGED <<reads, retry>>
        BY <1>10 DEF OnFinal
      <3> QED
        BY <3>1, <3>2 DEF HomeInv, BaseInv, OneRead
    <2>2. /\ pc[c] = "open" /\ pc' = [pc EXCEPT ![c] = "over"] /\ abort' = None
          /\ slots' = Add(Home(c), Message("assistant", c))
          /\ UNCHANGED <<call, displayed, bound, usage, reads, retry, server, history>>
      BY <1>10 DEF OnFinal, EndOfStream, Finally
    <2> QED
      BY <2>1, <2>2, HomeEnds
  <1>11. ASSUME NEW c \in Calls, StreamIsLost(c) PROVE HomeInv'
    <2>1. /\ pc[c] = "open" /\ pc' = [pc EXCEPT ![c] = "recovering"] /\ abort' = None
          /\ reads' = reads \union {Read("recover", call[c].sid, c)}
          /\ UNCHANGED <<call, slots, displayed, bound, usage, retry, server, history>>
      BY <1>11 DEF StreamIsLost, EndOfStream, Finally
    <2>2. OneRead'
      <3>1. pc'[c] = "recovering" /\ \A d \in Calls : d # c => pc'[d] = pc[d]
        BY <2>1 DEF HomeInv, BaseInv
      <3> QED
        BY <2>1, <3>1 DEF HomeInv, BaseInv, OneRead, Read
    <2>3. HomeRead(Read("recover", call[c].sid, c))'
      BY <2>1 DEF HomeInv, Typed, HomeRead, Read
    <2>4. \A r \in reads' : r \in reads \/ HomeRead(r)'
      BY <2>1, <2>3
    <2> QED
      BY <2>1, <2>2, <2>4, HomeEnds
  <1>12. ASSUME Repeat PROVE HomeInv'
    BY <1>12, HomeRepeats
  <1>13. ASSUME NEW r \in reads, ServeRead(r) PROVE HomeInv'
    <2>1. PICK q : q = Answered(r, history[r.sid])
      OBVIOUS
    <2>2. q.why = r.why /\ q.sid = r.sid /\ q.call = r.call /\ q.snap = history[r.sid]
      BY <2>1 DEF Answered
    <2>3. /\ reads' = (reads \ {r}) \union {q}
          /\ UNCHANGED <<pc, call, abort, slots, displayed, bound, usage, retry, server, history>>
      BY <1>13, <2>1 DEF ServeRead
    <2>4. r.sid \in Sessions /\ (r.why = "recover" => r.sid = call[r.call].sid)
      BY DEF HomeInv, HomeRead
    <2>5. q.snap \in Seq(Of(q.sid)')
      BY <2>2, <2>3, <2>4 DEF HomeInv, Of, Owned, Messages
    <2>6. HomeRead(q)'
      BY <2>2, <2>3, <2>4, <2>5 DEF HomeRead
    <2>7. Typed' /\ \A s \in Sessions : Slot(s)' = Slot(s)
      BY <2>3 DEF HomeInv, Typed, Slot
    <2>8. OneRead'
      BY <2>2, <2>3 DEF HomeInv, BaseInv, OneRead
    <2>9. \A p \in reads' : p \in reads \/ HomeRead(p)'
      BY <2>3, <2>6
    <2> QED
      BY <2>3, <2>7, <2>8, <2>9, HomeStill
  <1>14. ASSUME NEW c \in Calls,
                \/ Accept(c) \/ Refuse(c) \/ LoseConnection(c)
                \/ \E saves, tells \in BOOLEAN : Settle(c, saves, tells)
         PROVE  HomeInv'
    BY <1>14, HomeServed
  <1>15. ASSUME NEW c \in Calls, OnContextUsage(c) PROVE HomeInv'
    <2>1. Typed' /\ OneRead' /\ \A s \in Sessions : Slot(s)' = Slot(s)
      BY <1>15 DEF OnContextUsage, ShowUsage, HomeInv, Typed, BaseInv, OneRead, Slot
    <2> QED
      BY <1>15, <2>1, HomeStill DEF OnContextUsage
  <1>16. ASSUME UNCHANGED vars PROVE HomeInv'
    <2>1. Typed' /\ OneRead' /\ \A s \in Sessions : Slot(s)' = Slot(s)
      BY <1>16 DEF vars, HomeInv, Typed, BaseInv, OneRead, Slot
    <2> QED
      BY <1>16, <2>1, HomeStill DEF vars
  <1> QED
    BY <1>1, <1>2, <1>3, <1>4, <1>5, <1>6, <1>7, <1>8, <1>9, <1>10, <1>11, <1>12,
       <1>13, <1>14, <1>15, <1>16 DEF Next, User, Arrivals, Server

\* Whatever the user opens, sends, stops and repeats while streams run, are
\* lost or are recovered, every message lands in the session its query was asked
\* in, and the context usage on the screen is that of the session on the screen
\* (useChatAgent).
THEOREM MessagesBelong == Spec => []AnswersBelong
  <1>1. HomeInv => AnswersBelong
    <2> SUFFICES ASSUME HomeInv PROVE AnswersBelong
      OBVIOUS
    <2>1. ASSUME NEW s \in Sessions, NEW i \in DOMAIN Slot(s) PROVE Slot(s)[i] \in Of(s)
      <3>1. Slot(s) \in Seq(Of(s))
        BY DEF HomeInv
      <3> HIDE DEF Of
      <3> QED
        BY <2>1, <3>1
    <2>2. MessagesStayHome
      BY <2>1 DEF Of, Owned, MessagesStayHome
    <2> QED
      BY <2>2 DEF HomeInv, Typed, AnswersBelong
  <1> QED
    BY HomeInitially, HomeStep, <1>1, PTL DEF Spec

===============================================================================
