--------------------------- MODULE MCSessionTurns ---------------------------
(* Small instances of SessionTurns: two or three requests on one session. *)
EXTENDS SessionTurns, TLC

CONSTANTS r1, r2, r3

Interchangeable == Permutations(Requests)

=============================================================================
