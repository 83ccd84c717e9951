---------------------------- MODULE MCSdController ----------------------------
(* Model checking of SdController. *)
EXTENDS SdController
=============================================================================
