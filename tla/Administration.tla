---------------------------- MODULE Administration ----------------------------
(***************************************************************************)
(* The accounts and the administrators' requests about them.  A request is  *)
(* authorised in a transaction of its own; the one that takes the role or   *)
(* the account away reads the user, counts the administrators and writes,   *)
(* three statements at READ COMMITTED, of which each sees the latest commit.*)
(***************************************************************************)
EXTENDS FiniteSets, Naturals

CONSTANTS Users, Default, Requests, None

VARIABLES
    accounts,  \* the users that exist
    admins,    \* those of them that are administrators
    request    \* what a request is about and how far it is

vars == <<accounts, admins, request>>

NoRequest == [at |-> "idle", actor |-> None, target |-> None, op |-> "none"]

Init ==
    /\ accounts \in { A \in SUBSET Users : Default \in A }
    /\ admins \in { A \in SUBSET accounts : Default \in A }
    /\ request = [q \in Requests |-> NoRequest]

Goto(q, place) == request' = [request EXCEPT ![q].at = place]
Drop(q)        == request' = [request EXCEPT ![q] = NoRequest]

\* get_admin_user, and the refusal to work on one's own account.
Authorise(q, actor, target, op) ==
    /\ request[q].at = "idle"
    /\ actor \in admins
    /\ op \in {"demote", "delete"} => target # actor
    /\ request' = [request EXCEPT ![q] = [at |-> "authorised", actor |-> actor,
                                          target |-> target, op |-> op]]
    /\ UNCHANGED <<accounts, admins>>

Unknown(q) ==
    /\ request[q].at = "authorised" /\ request[q].op # "create"
    /\ request[q].target \notin accounts
    /\ Drop(q)
    /\ UNCHANGED <<accounts, admins>>

\* create_user; a name that is taken breaks the unique key.
Create(q) ==
    /\ request[q].at = "authorised" /\ request[q].op = "create"
    /\ Drop(q)
    /\ LET new == {request[q].target} \ accounts
       IN  /\ accounts' = accounts \union new
           /\ \E role \in BOOLEAN :
                admins' = IF role THEN admins \union new ELSE admins

Promote(q) ==
    /\ request[q].at = "authorised" /\ request[q].op = "promote"
    /\ request[q].target \in accounts
    /\ admins' = admins \union {request[q].target}
    /\ Drop(q)
    /\ UNCHANGED accounts

Takes(q) == request[q].op \in {"demote", "delete"}

\* set_user_admin and delete_user read the user first.
ReadUser(q) ==
    /\ request[q].at = "authorised" /\ Takes(q)
    /\ request[q].target \in accounts
    /\ Goto(q, IF request[q].target \in admins THEN "counting" ELSE "writing")
    /\ UNCHANGED <<accounts, admins>>

\* _count_admins.
CountAdmins(q) ==
    /\ request[q].at = "counting"
    /\ IF Cardinality(admins) <= 1 THEN Drop(q) ELSE Goto(q, "writing")
    /\ UNCHANGED <<accounts, admins>>

Write(q) ==
    /\ request[q].at = "writing"
    /\ admins' = admins \ {request[q].target}
    /\ accounts' = IF request[q].op = "delete" THEN accounts \ {request[q].target}
                   ELSE accounts
    /\ Drop(q)

\* auth_register.
Register(u) ==
    /\ u \notin accounts
    /\ accounts' = accounts \union {u}
    /\ UNCHANGED <<admins, request>>

\* ensure_default_admin, as the application starts: requests are lost.
Restart ==
    /\ request' = [q \in Requests |-> NoRequest]
    /\ accounts' = accounts \union {Default}
    /\ admins' = IF Default \in accounts THEN admins ELSE admins \union {Default}

Next ==
    \/ \E q \in Requests :
         \/ \E actor, target \in Users, op \in {"create", "promote", "demote", "delete"} :
               Authorise(q, actor, target, op)
         \/ Unknown(q) \/ Create(q) \/ Promote(q)
         \/ ReadUser(q) \/ CountAdmins(q) \/ Write(q)
    \/ \E u \in Users : Register(u)
    \/ Restart

Spec == Init /\ [][Next]_vars

-----------------------------------------------------------------------------
(* Properties                                                               *)

\* The role and the account of the last administrator are not taken away
\* (the errors of set_user_admin and delete_user).
AdministratorRemains == admins # {}
=============================================================================
