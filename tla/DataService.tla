------------------------------ MODULE DataService ------------------------------
(***************************************************************************)
(* What the data host promises: verilog/sd_data_serial_host.sv without the *)
(* clocks of a block.  A transfer is started, ends with the whole block     *)
(* moved or, a read, with a timeout, and is done until start is taken back. *)
(***************************************************************************)
EXTENDS Naturals

VARIABLES
  start,      \* 0 none, 1 write, 2 read, 3 abort
  phase,      \* "idle", "writing", "reading", "done"
  outcome,    \* of a transfer that is done: "moved" or "timeout"; else "none"
  finish_o

hostVars == <<phase, outcome, finish_o>>
vars     == <<start, hostVars>>

Phases == {"idle", "writing", "reading", "done"}

Init == start = 0 /\ phase = "idle" /\ outcome = "none" /\ finish_o = FALSE

-----------------------------------------------------------------------------

\* The machine goes where it would, or with start = 3 to idle.
Goto(p) == phase' = IF start = 3 THEN "idle" ELSE p

Idle ==
  /\ phase = "idle"
  /\ Goto(IF start = 1 THEN "writing" ELSE IF start = 2 THEN "reading" ELSE "idle")
  /\ outcome' = "none" /\ finish_o' = FALSE

Move ==
  /\ phase \in {"writing", "reading"}
  /\ Goto("done")
  /\ outcome' = IF start = 3 THEN "none" ELSE "moved"
  /\ UNCHANGED finish_o

TimeOut ==
  /\ phase = "reading"
  /\ Goto("done")
  /\ outcome' = IF start = 3 THEN "none" ELSE "timeout"
  /\ UNCHANGED finish_o

Abort == phase \in {"writing", "reading"} /\ start = 3 /\ phase' = "idle" /\ UNCHANGED <<outcome, finish_o>>

Finish ==
  /\ phase = "done"
  /\ finish_o' = TRUE
  /\ Goto(IF start = 0 THEN "idle" ELSE "done")
  /\ outcome' = IF start \in {0, 3} THEN "none" ELSE outcome

Clock == Idle \/ Move \/ TimeOut \/ Abort \/ Finish

-----------------------------------------------------------------------------

SetStart == start' \in (0 .. 3) \ {start} /\ UNCHANGED hostVars

Reset == phase' = "idle" /\ outcome' = "none" /\ finish_o' = FALSE /\ UNCHANGED start

Next == (Clock /\ UNCHANGED start) \/ SetStart \/ Reset

Spec == Init /\ [][Next]_vars

\* A read ends; a write ends when the card lets it.
FairSpec ==
  /\ Spec
  /\ WF_vars((Idle \/ Finish) /\ UNCHANGED start)
  /\ WF_vars(phase = "reading" /\ (Move \/ TimeOut \/ Abort) /\ UNCHANGED start)
=============================================================================
