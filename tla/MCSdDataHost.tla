----------------------------- MODULE MCSdDataHost -----------------------------
(* Model checking of SdDataHost: the transfers the 4-bit bus offers and the   *)
(* reads of the 1-bit bus.                                                    *)
EXTENDS SdDataHostRefines

Transfers_4bit_and_read == {<<1, TRUE>>, <<2, TRUE>>, <<2, FALSE>>}
=============================================================================
