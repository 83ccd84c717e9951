--------------------------- MODULE MCSdClockDivider ---------------------------
(* Model checking of SdClockDivider.                                          *)
EXTENDS SdClockDivider
=============================================================================
