------------------------- MODULE MCSessionSources --------------------------
(* Small instances of SessionSources: two files and a database connection. *)
EXTENDS SessionSources

CONSTANTS u1, u2

DistinctNames == [u \in Uploads |-> IF u = u1 THEN "sales" ELSE "costs"]
SameName      == [u \in Uploads |-> "sales"]

=============================================================================
