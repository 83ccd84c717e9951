----------------------------- MODULE MCEdclLink -----------------------------
(* EdclLink with three words of memory, two per request at most, and three sequence numbers. *)
EXTENDS EdclLink
=============================================================================
