----------------------------- MODULE MCToolLoop -----------------------------
(* Small instances of ToolLoop. *)
EXTENDS ToolLoop
=============================================================================
