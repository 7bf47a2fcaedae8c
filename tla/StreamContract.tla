--------------------------- MODULE StreamContract ---------------------------
(***************************************************************************)
(* What one streamed query promises to its client and to the session, with *)
(* no task, thread or queue in sight: QueryStream implements it.           *)
(***************************************************************************)
EXTENDS Sequences

VARIABLES
    link,   \* "open" while the response may still send, "ended", or "left"
            \* once the client has gone and the stream has noticed
    reply,  \* the terminal event the client has seen: "none", "error", "final",
            \* or "unsaved" for a final event marked persistence_failed
    turn    \* the messages the request has appended to the chat history

contractVars == <<link, reply, turn>>

Answers == {"answer", "fallback", "interrupted"}

Init ==
    /\ link = "open"
    /\ reply = "none"
    /\ turn = <<>>

\* A turn is the question and then its answer; a failing write stops it.
Written(a) == { <<"user", a>>, <<"user">>, <<>> }

\* The turn is written once, by an open stream.
SaveTurn(a) ==
    /\ link = "open"
    /\ turn = <<>>
    /\ turn' \in Written(a)
    /\ UNCHANGED <<link, reply>>

\* A final event reports a turn that is in the history as a whole unless it is
\* marked; an error event reports that there is none.
Reply ==
    /\ link = "open"
    /\ reply = "none"
    /\ \/ reply' = "final" /\ Len(turn) = 2
       \/ reply' = "unsaved"
       \/ reply' = "error" /\ turn = <<>>
    /\ UNCHANGED <<link, turn>>

\* The response ends by itself.
End ==
    /\ link = "open"
    /\ link' = "ended"
    /\ UNCHANGED <<reply, turn>>

\* The client leaves: a turn not written yet may be written as interrupted.
Leave ==
    /\ link = "open"
    /\ link' = "left"
    /\ turn' \in (IF turn = <<>> THEN Written("interrupted") ELSE {turn})
    /\ UNCHANGED reply

Next == (\E a \in Answers \ {"interrupted"} : SaveTurn(a)) \/ Reply \/ End \/ Leave

Spec == Init /\ [][Next]_contractVars

=============================================================================
