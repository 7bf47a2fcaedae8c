---------------------------- MODULE MCChatClient ----------------------------
(* Two sessions, a stream that may run in the background of the other one.  *)
EXTENDS ChatClient

MCSessions == {"s1", "s2"}

=============================================================================
