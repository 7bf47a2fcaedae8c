--------------------------- MODULE AtomicSession ----------------------------
(***************************************************************************)
(* What the methods of the session store look like to their callers: each  *)
(* call takes effect at once on the session as it is at that moment, or    *)
(* not at all when it fails or the session is gone.                        *)
(***************************************************************************)
EXTENDS SessionData

CONSTANTS
    Callers,        \* threads that call a store method, one call each
    Operations,     \* the calls they may make
    Apply(_, _, _)  \* Apply(c, call, session): the session after c's call

VARIABLES
    session,  \* the state of the session
    exists,   \* FALSE once the session has been deleted
    op,       \* the call of each caller
    over      \* callers whose call has taken effect or has failed

atomicVars == <<session, exists, op, over>>

Init ==
    /\ session = EmptySession
    /\ exists = TRUE
    /\ op \in [Callers -> Operations]
    /\ over = {}

TakeEffect(c) ==
    /\ c \notin over
    /\ over' = over \union {c}
    /\ \/ /\ exists /\ op[c].kind # "drop"
          /\ session' = Apply(c, op[c], session)
          /\ UNCHANGED exists
       \/ /\ op[c].kind = "drop"
          /\ exists' = FALSE
          /\ UNCHANGED session
    /\ UNCHANGED op

\* A call that raises changes nothing; a crash fails several calls at once.
Fail(cs) ==
    /\ cs # {} /\ cs \intersect over = {}
    /\ over' = over \union cs
    /\ UNCHANGED <<session, exists, op>>

Next == (\E c \in Callers : TakeEffect(c)) \/ (\E cs \in SUBSET Callers : Fail(cs))

Spec == Init /\ [][Next]_atomicVars

=============================================================================
