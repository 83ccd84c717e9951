------------------------------- MODULE MCNetBoot -------------------------------
(* Model checking of NetBoot: two slots, the trigger, an image of three words. *)
EXTENDS NetBoot

Load(a, d) == [load |-> TRUE, addr |-> a, data |-> d]
Zeros(a, n) == [load |-> FALSE, addr |-> a, data |-> [m \in 1 .. n |-> 0]]

\* A text of two words and a stack, linked where it reaches the image's last word; a text of
\* three words, and a comment at address 0, over the first slot and the next one's mode.
Tidy == {[entry |-> 12, sections |-> <<Load(12, <<101, 102>>), Zeros(SHM + 14, 1)>>],
         [entry |-> 13, sections |-> <<Load(12, <<201, 202, 203>>), Zeros(0, 5)>>]}

ASSUME TidyAssumption == \A f \in Tidy : ClearOfSlots(f) /\ Apart(f)

\* Built with -g: the debug sections are at address 0 and longer than 0x2000 bytes.
Debug == {[entry |-> 12, sections |-> <<Load(12, <<101, 102>>), Zeros(0, 13)>>]}
=============================================================================
