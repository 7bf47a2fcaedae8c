--------------------------- MODULE MCQueryStream ----------------------------
(* Instances of QueryStream for TLC. *)
EXTENDS QueryStream

IOFaults  == {"store", "sink", "race"}

=============================================================================
