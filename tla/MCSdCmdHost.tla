----------------------------- MODULE MCSdCmdHost -----------------------------
(* Model checking of SdCmdHost with the parameter values of the Verilog.     *)
EXTENDS SdCmdHostRefines
=============================================================================
