--------------------------- MODULE MCSessionStore ---------------------------
(* A small instance of SessionStore: four calls of two workers.             *)
EXTENDS SessionStore, TLC

CONSTANTS t1, t2, t3, t4, p1, p2, a1

TwoWorkers == [t \in Threads |-> IF t \in {t1, t2} THEN p1 ELSE p2]

\* Every kind of call but one that changes nothing and one that is like another;
\* cuts at the message of t1 and of t2, if they send one.
AllCalls ==
    { call \in Operations : /\ call.kind \notin {"touch", "settings"}
                            /\ call.kind = "cut" => call.from \in {t1, t2}
                            /\ call.kind = "message" => call.arts # {} }

\* The threads cuts name are alike, and so are the others.
Interchangeable ==
    { f @@ g : f \in Permutations({t1, t2}), g \in Permutations({t3, t4}) }

=============================================================================
