----------------------------- MODULE ChatClient -----------------------------
(***************************************************************************)
(* The chat of the browser: useChatAgent, which keeps a slot of messages   *)
(* for every session while one stream runs, perhaps in a session that is   *)
(* not on the screen, and the Workspace page that opens sessions.  A step  *)
(* is one task of the browser with the microtasks behind it: what stands   *)
(* between two awaits is never interrupted, what follows an await may find *)
(* anything changed.  The server answers streams and reads of sessions     *)
(* from its history; its own work is the subject of QueryStream.           *)
(***************************************************************************)
EXTENDS Naturals, Sequences, FiniteSets, SequencesExt

CONSTANTS
    Sessions,
    MaxCalls,  \* calls of sendQuery
    MaxReads,  \* pages opened and refreshed
    None

Calls == 1..MaxCalls

(* A message: the call that brought it, and whether it has a backendId.    *)
Messages == [role : {"user", "assistant"}, call : Calls, known : BOOLEAN]

ASSUME ChatAssumption ==
    /\ MaxCalls \in Nat /\ MaxReads \in Nat
    /\ None \notin Sessions \union Seq(Messages)

VARIABLES
    slots,     \* sessionData; None for a session without a slot
    displayed, \* displayedSessionId
    bound,     \* sessionId of the page, None until a session is loaded
    streaming, \* isStreaming
    streamSid, \* streamingSessionId
    abort,     \* the call abortRef's controller belongs to
    lastQuery, \* the query, as the call that asked it first
    usage,     \* contextUsage: the session it describes
    call,      \* what every call of sendQuery has captured
    pc,        \* and where it is: "none", "open", "recovering", "over"
    reads,     \* getSession requests on their way
    opened,    \* how many of them pages have made
    retry,     \* retryLast between its awaits
    server,    \* of every call: "none", "sent", "running", "done"
    wire,      \* and what its response brings: "open", "final", "lost"
    history    \* chat_history on the server

screen  == <<slots, displayed, bound, usage>>
stream  == <<streaming, streamSid, abort, lastQuery>>
backend == <<server, wire, history>>
vars    == <<screen, stream, call, pc, reads, opened, retry, backend>>

Idle == [pc |-> "idle", sid |-> None, query |-> None, target |-> None]

Init ==
    /\ slots = [s \in Sessions |-> None]
    /\ displayed = None /\ bound = None /\ usage = None
    /\ streaming = FALSE /\ streamSid = None /\ abort = None /\ lastQuery = None
    /\ call = [c \in Calls |-> [sid |-> None, query |-> None]]
    /\ pc = [c \in Calls |-> "none"]
    /\ reads = {} /\ opened = 0
    /\ retry = Idle
    /\ server = [c \in Calls |-> "none"]
    /\ wire = [c \in Calls |-> "open"]
    /\ history = [s \in Sessions |-> <<>>]

-----------------------------------------------------------------------------
(* Helpers.                                                                *)

Message(role, c) == [role |-> role, call |-> c, known |-> FALSE]
ToChatMessages(h) == [i \in DOMAIN h |-> [h[i] EXCEPT !.known = TRUE]]

Slot(s)      == IF slots[s] = None THEN <<>> ELSE slots[s]
Add(s, m)    == [slots EXCEPT ![s] = Append(Slot(s), m)]
LastUser(ms) == LET users == { i \in DOMAIN ms : ms[i].role = "user" }
                IN IF users = {} THEN None ELSE ms[Max(users)]
Text(c)      == call[c].query

Read(why, sid, c) == [why |-> why, sid |-> sid, call |-> c, snap |-> None]
Answered(r, h)    == [why |-> r.why, sid |-> r.sid, call |-> r.call, snap |-> h]

-----------------------------------------------------------------------------
(* Pages: opening and refreshing a session.                                *)

\* The effect of Workspace on mount: reset, unless something streams, then
\* loadSession.  reset aborts what it holds, which is nothing by then.
OpenSession(s) ==
    /\ opened < MaxReads
    /\ opened' = opened + 1
    /\ reads' = reads \union {Read("load", s, 0)}
    /\ bound' = None
    /\ IF streaming THEN UNCHANGED <<slots, displayed, usage, lastQuery>>
       ELSE /\ slots' = [t \in Sessions |-> None]
            /\ displayed' = None /\ usage' = None /\ lastQuery' = None
    /\ UNCHANGED <<streaming, streamSid, abort, call, pc, retry, backend>>

Refresh ==
    /\ opened < MaxReads /\ bound # None
    /\ opened' = opened + 1
    /\ reads' = reads \union {Read("load", bound, 0)}
    /\ UNCHANGED <<screen, stream, call, pc, retry, backend>>

\* The server reads the session; the response is on its way.
ServeRead(r) ==
    /\ r \in reads /\ r.snap = None
    /\ reads' = (reads \ {r}) \union {Answered(r, history[r.sid])}
    /\ UNCHANGED <<screen, stream, call, pc, opened, retry, backend>>

\* hydrate keeps the live messages of a session that is streaming.
PreserveNever(sid) == FALSE
Preserve(sid) == streaming /\ streamSid = sid /\ slots[sid] # None

Hydrate(r) ==
    /\ r \in reads /\ r.why = "load" /\ r.snap # None
    /\ reads' = reads \ {r}
    /\ slots' = IF Preserve(r.sid) THEN slots
                ELSE [slots EXCEPT ![r.sid] = ToChatMessages(r.snap)]
    /\ displayed' = r.sid /\ bound' = r.sid /\ usage' = r.sid
    /\ lastQuery' = IF streaming THEN lastQuery ELSE None
    /\ UNCHANGED <<streaming, streamSid, abort, call, pc, opened, retry, backend>>

LoadFails(r) ==
    /\ r \in reads /\ r.why = "load"
    /\ reads' = reads \ {r}
    /\ UNCHANGED <<screen, stream, call, pc, opened, retry, backend>>

-----------------------------------------------------------------------------
(* sendQuery.                                                              *)

NextCall == CHOOSE c \in Calls : pc[c] = "none" /\ \A d \in 1..(c - 1) : pc[d] # "none"
CanCall  == \E c \in Calls : pc[c] = "none"

\* A new query, or the one of an earlier call; ms is the slot it is added to.
Start(sid, query, before) ==
    LET c == NextCall
        q == IF query = None THEN c ELSE query
    IN /\ lastQuery' = q
       /\ usage' = None
       /\ streaming' = TRUE /\ streamSid' = sid /\ abort' = c
       /\ slots' = [before EXCEPT ![sid] =
                        Append(IF @ = None THEN <<>> ELSE @, Message("user", c))]
       /\ call' = [call EXCEPT ![c] = [sid |-> sid, query |-> q]]
       /\ pc' = [pc EXCEPT ![c] = "open"]
       /\ server' = [server EXCEPT ![c] = "sent"]

Send ==
    /\ bound # None /\ ~streaming /\ CanCall
    /\ Start(IF displayed # None THEN displayed ELSE bound, None, slots)
    /\ UNCHANGED <<displayed, bound, reads, opened, retry, wire, history>>

\* onContextUsage
ShowUsageAlways(c) == /\ usage' = call[c].sid
ShowUsage(c) == /\ displayed = call[c].sid
                /\ usage' = call[c].sid
OnContextUsage(c) ==
    /\ pc[c] = "open" /\ server[c] = "running"
    /\ ShowUsage(c)
    /\ UNCHANGED <<slots, displayed, bound, stream, call, pc, reads, opened, retry, backend>>

\* The finally clause of sendQuery.
Finally == streaming' = FALSE /\ streamSid' = None /\ abort' = None /\ UNCHANGED lastQuery
FinallyUnlessLost(c) ==
    IF wire[c] = "lost" THEN UNCHANGED stream ELSE Finally
EndOfStream(c) == Finally

Home(c)         == call[c].sid

\* The final event: the answer joins the slot of the session it was asked in.
OnFinal(c) ==
    /\ pc[c] = "open" /\ wire[c] = "final"
    /\ EndOfStream(c)
    /\ slots' = Add(Home(c), Message("assistant", c))
    /\ pc' = [pc EXCEPT ![c] = "over"]
    /\ UNCHANGED <<displayed, bound, usage, call, reads, opened, retry, backend>>

\* The stop button, there while the streaming session is on the screen.  What
\* has been streamed is kept, unless that is nothing.
StopStreaming(shown) ==
    /\ streaming /\ streamSid = displayed /\ abort # None
    /\ LET c == abort IN
         /\ EndOfStream(c)
         /\ pc' = [pc EXCEPT ![c] = "over"]
         /\ slots' = IF shown THEN Add(Home(c), Message("assistant", c)) ELSE slots
    /\ UNCHANGED <<displayed, bound, usage, call, reads, opened, retry, backend>>

\* consumeSseLine ends the stream at a final and at an error event.
LostOnlyIfRefused(c) == wire[c] = "lost" /\ server[c] = "sent"
Lost(c)              == wire[c] = "lost"

\* An error event, a refused request, a broken connection or a stream that
\* ends without its final event: the client looks for the answer.
StreamIsLost(c) ==
    /\ pc[c] = "open" /\ Lost(c)
    /\ EndOfStream(c)
    /\ pc' = [pc EXCEPT ![c] = "recovering"]
    /\ reads' = reads \union {Read("recover", call[c].sid, c)}
    /\ UNCHANGED <<screen, call, opened, retry, backend>>

Recover(r) ==
    /\ r \in reads /\ r.why = "recover" /\ r.snap \notin {None, <<>>}
    /\ reads' = reads \ {r}
    /\ slots' = [slots EXCEPT ![Home(r.call)] = ToChatMessages(r.snap)]
    /\ pc' = [pc EXCEPT ![r.call] = "over"]
    /\ UNCHANGED <<displayed, bound, usage, stream, call, opened, retry, backend>>

\* Nothing found: the streamed text or the fallback is shown as an answer.
RecoverNothing(r) ==
    /\ r \in reads /\ r.why = "recover"
    /\ reads' = reads \ {r}
    /\ slots' = Add(Home(r.call), Message("assistant", r.call))
    /\ pc' = [pc EXCEPT ![r.call] = "over"]
    /\ UNCHANGED <<displayed, bound, usage, stream, call, opened, retry, backend>>

-----------------------------------------------------------------------------
(* retryLast, one at a time.                                                *)

Retry ==
    LET last  == LastUser(Slot(bound))
        query == IF lastQuery # None THEN lastQuery ELSE Text(last.call)
        known == last # None /\ last.known
    IN /\ bound # None /\ ~streaming /\ CanCall
       /\ retry.pc = "idle"
       /\ lastQuery # None \/ last # None
       /\ retry' = [pc     |-> IF known THEN "delete" ELSE "fetch",
                    sid    |-> bound,
                    query  |-> query,
                    target |-> IF known THEN last.call ELSE None]
       /\ reads' = IF known THEN reads ELSE reads \union {Read("retry", bound, 0)}
       /\ UNCHANGED <<screen, stream, call, pc, opened, backend>>

\* The backend id of the question, from the session as the server has it.
FoundTarget(r) ==
    /\ r \in reads /\ r.why = "retry"
    /\ reads' = reads \ {r}
    /\ retry' = [pc |-> "delete", sid |-> retry.sid, query |-> retry.query,
                  target |-> IF r.snap = None \/ LastUser(r.snap) = None THEN None
                             ELSE LastUser(r.snap).call]
    /\ UNCHANGED <<screen, stream, call, pc, opened, backend>>

\* delete_last_session_messages: the message and all that follow it.
From(h, c)  == { i \in DOMAIN h : h[i].role = "user" /\ h[i].call = c }
Cut(h, c)   == IF From(h, c) = {} THEN h ELSE SubSeq(h, 1, Max(From(h, c)) - 1)
LeaveOut(s) == IF Len(s) >= 2 THEN SubSeq(s, 1, Len(s) - 2) ELSE <<>>

\* The deletion, which may fail, then the pair leaves the slot and the query
\* is asked again, in the session now on the screen.
Repeat ==
    /\ retry.pc = "delete" /\ CanCall
    /\ retry' = Idle
    /\ \/ UNCHANGED history
       \/ /\ retry.target # None
          /\ history' = [history EXCEPT ![retry.sid] = Cut(@, retry.target)]
    /\ Start(IF displayed # None THEN displayed ELSE retry.sid, retry.query,
             [slots EXCEPT ![retry.sid] = IF @ = None THEN None ELSE LeaveOut(@)])
    /\ UNCHANGED <<displayed, bound, reads, opened, wire>>

-----------------------------------------------------------------------------
(* The server, as the client sees it.                                      *)

Busy(sid) == \E d \in Calls : server[d] = "running" /\ call[d].sid = sid

\* One query of a session at a time; the others are refused.
Accept(c) ==
    /\ server[c] = "sent" /\ ~Busy(call[c].sid)
    /\ server' = [server EXCEPT ![c] = "running"]
    /\ UNCHANGED <<screen, stream, call, pc, reads, opened, retry, wire, history>>

Refuse(c) ==
    /\ server[c] = "sent"
    /\ server' = [server EXCEPT ![c] = "done"]
    /\ wire' = [wire EXCEPT ![c] = "lost"]
    /\ UNCHANGED <<screen, stream, call, pc, reads, opened, retry, history>>

Turn(c) == << [Message("user", c) EXCEPT !.known = TRUE],
              [Message("assistant", c) EXCEPT !.known = TRUE] >>

\* The turn is saved or not, and a final event is sent or not: an answer that
\* could not be saved is still sent (persistence_failed).
Settle(c, saves, tells) ==
    /\ server[c] = "running"
    /\ server' = [server EXCEPT ![c] = "done"]
    /\ wire' = [wire EXCEPT ![c] = IF @ = "open" /\ tells THEN "final" ELSE "lost"]
    /\ history' = IF saves THEN [history EXCEPT ![call[c].sid] = @ \o Turn(c)] ELSE history
    /\ UNCHANGED <<screen, stream, call, pc, reads, opened, retry>>

LoseConnection(c) ==
    /\ server[c] = "running" /\ wire[c] = "open"
    /\ wire' = [wire EXCEPT ![c] = "lost"]
    /\ UNCHANGED <<screen, stream, call, pc, reads, opened, retry, server, history>>

User == \/ \E s \in Sessions : OpenSession(s)
        \/ Refresh \/ Send \/ Retry
        \/ \E shown \in BOOLEAN : StopStreaming(shown)

Arrivals == \/ \E r \in reads : \/ Hydrate(r) \/ LoadFails(r) \/ Recover(r)
                                \/ RecoverNothing(r) \/ FoundTarget(r)
            \/ \E c \in Calls : OnFinal(c) \/ StreamIsLost(c)
            \/ Repeat

Server == \/ \E r \in reads : ServeRead(r)
          \/ \E c \in Calls : \/ Accept(c) \/ Refuse(c) \/ LoseConnection(c)
                              \/ \E saves, tells \in BOOLEAN : Settle(c, saves, tells)

Next == User \/ Arrivals \/ Server \/ \E c \in Calls : OnContextUsage(c)

\* The server ends every stream (QueryStream) and the browser runs its tasks;
\* the user owes nothing.
Fairness ==
    /\ WF_vars(Arrivals)
    /\ \A c \in Calls : /\ WF_vars(Accept(c) \/ Refuse(c))
                        /\ WF_vars(\E saves, tells \in BOOLEAN : Settle(c, saves, tells))

Spec == Init /\ [][Next]_vars /\ Fairness

\* The steps that get between the awaits of a retry or of a recovery: a query
\* is sent; and for a recovery, a retry begins, the page is reset, or a load of
\* the session arrives.
Recovering == { c \in Calls : pc[c] = "recovering" }

CrossesRetry    == retry.pc # "idle" /\ Send
CrossesRecovery ==
    /\ Recovering # {}
    /\ \/ Send \/ Retry
       \/ \E s \in Sessions : OpenSession(s)
       \/ \E r \in reads : Hydrate(r) /\ \E c \in Recovering : Home(c) = r.sid

Calm == ~CrossesRetry /\ ~CrossesRecovery

\* The behaviours in which none of them happens.
CalmSpec == Init /\ [][Next /\ Calm]_vars /\ Fairness

-----------------------------------------------------------------------------
(* Properties                                                              *)

Open == { c \in Calls : pc[c] = "open" }

TypeOK ==
    /\ \A s \in Sessions : slots[s] = None \/ slots[s] \in Seq(Messages)
    /\ {displayed, bound, streamSid, usage} \subseteq Sessions \union {None}
    /\ streaming \in BOOLEAN
    /\ {abort, lastQuery} \subseteq Calls \union {None}
    /\ call \in [Calls -> [sid : Sessions \union {None}, query : Calls \union {None}]]
    /\ pc \in [Calls -> {"none", "open", "recovering", "over"}]
    /\ \A r \in reads : r.sid \in Sessions /\ r.why \in {"load", "recover", "retry"}
    /\ opened \in 0..MaxReads
    /\ retry.pc \in {"idle", "fetch", "delete"}
    /\ server \in [Calls -> {"none", "sent", "running", "done"}]
    /\ wire \in [Calls -> {"open", "final", "lost"}]
    /\ history \in [Sessions -> Seq([role : {"user", "assistant"}, call : Calls, known : {TRUE}])]

\* While a stream runs the stop button reaches it: it is the only one, and
\* the controller at hand is its own (of the CalmSpec behaviours: a query sent
\* while retryLast waits makes a second stream).
StopReachesTheStream ==
    /\ Cardinality(Open) <= 1
    /\ streaming <=> Open # {}
    /\ \A c \in Open : abort = c /\ streamSid = call[c].sid

\* Whatever session is opened, retried or recovered while a stream runs, its
\* question and its answer land in the session they belong to and nowhere else.
MessagesStayHome ==
    \A s \in Sessions : \A i \in DOMAIN Slot(s) :
        pc[Slot(s)[i].call] # "none" /\ call[Slot(s)[i].call].sid = s

\* What a stream brings belongs where it is shown: messages stand in their own
\* session, and the context usage on the screen is that of the session on the
\* screen.
AnswersBelong == MessagesStayHome /\ usage \in {None, displayed}

\* An answer on the screen stands behind its question, however streams, loads,
\* stops, recoveries and retries follow one another (of the CalmSpec
\* behaviours: a load that lands during a recovery takes the question away and
\* leaves the fallback).
AnswersHaveQuestions ==
    \A s \in Sessions : \A i \in DOMAIN Slot(s) :
        Slot(s)[i].role = "assistant" =>
            \E j \in 1..(i - 1) : Slot(s)[j].role = "user" /\ Slot(s)[j].call = Slot(s)[i].call

\* A stream that has started ends, with an answer, an error or nothing.
StreamingEnds == streaming ~> ~streaming

=============================================================================
