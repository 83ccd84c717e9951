-------------------------------- MODULE MCVm --------------------------------
(* Model checking of Vm. *)
EXTENDS Vm

\* A segment that starts inside a page and ends in a page of zeros.
OneSegment == <<[vaddr |-> 3, filesz |-> 1, memsz |-> 2, offset |-> 1]>>
ReadOrAll == {{"r"}, {"r", "w", "x"}}

=============================================================================
