----------------------------- MODULE MCSbiDevice -----------------------------
(* Model checking of SbiDevice: the messages are interchangeable. *)
EXTENDS SbiDevice, TLC

Symmetry == Permutations(Msgs)

=============================================================================
