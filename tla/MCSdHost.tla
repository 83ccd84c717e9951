------------------------------- MODULE MCSdHost -------------------------------
(* Model checking of SdHost: cards that are ready at once, at the last question  *)
(* or too late, at the address of the trace or another.                         *)
EXTENDS SdHost
=============================================================================
