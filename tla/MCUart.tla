-------------------------------- MODULE MCUart --------------------------------
(* Model checking of Uart.                                                    *)
EXTENDS Uart

Zeros  == [i \in 1 .. 8 |-> 0]
Mixed  == <<1, 0, 0, 1, 1, 0, 1, 0>>
HighBit == <<0, 0, 0, 0, 0, 0, 0, 1>>
SomeBytes == {Zeros, Mixed, HighBit}
=============================================================================
