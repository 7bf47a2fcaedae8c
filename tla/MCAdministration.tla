--------------------------- MODULE MCAdministration ---------------------------
(***************************************************************************)
(* An instance of Administration for TLC.                                   *)
(***************************************************************************)
EXTENDS Administration

=============================================================================
