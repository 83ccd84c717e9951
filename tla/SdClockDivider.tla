---------------------------- MODULE SdClockDivider ----------------------------
(***************************************************************************)
(* The SD clock, verilog/sd_clock_divider.v: a counter that toggles SD_CLK *)
(* when it equals DIVIDER, a register software may change at any time.     *)
(***************************************************************************)
EXTENDS Naturals

CONSTANTS
  COUNT_MOD,   \* values of the counter, 2^8
  Dividers     \* values software writes

ASSUME DividerAssumption ==
  COUNT_MOD \in Nat \ {0} /\ Dividers \subseteq 0 .. COUNT_MOD - 1

VARIABLES
  DIVIDER, RST, ClockDiv, SD_CLK_O,
  half,      \* clocks in the current half period
  changed    \* DIVIDER was written in this half period: at most once

dividerVars == <<DIVIDER, RST, ClockDiv, SD_CLK_O, half, changed>>

DividerInit ==
  /\ DIVIDER = 0 /\ RST = TRUE /\ ClockDiv = 0 /\ SD_CLK_O = 0
  /\ half = 0 /\ changed = FALSE

Increment == (ClockDiv + 1) % COUNT_MOD

\* Mutant: the counter is not set back.
MatchKeepsCount ==
  /\ ~RST /\ ClockDiv = DIVIDER
  /\ ClockDiv' = Increment /\ SD_CLK_O' = 1 - SD_CLK_O
  /\ half' = 0 /\ changed' = FALSE
  /\ UNCHANGED <<DIVIDER, RST>>

Match ==
  /\ ~RST /\ ClockDiv = DIVIDER
  /\ ClockDiv' = 0 /\ SD_CLK_O' = 1 - SD_CLK_O
  /\ half' = 0 /\ changed' = FALSE
  /\ UNCHANGED <<DIVIDER, RST>>

Count ==
  /\ ~RST /\ ClockDiv # DIVIDER
  /\ ClockDiv' = Increment
  /\ half' = half + 1
  /\ UNCHANGED <<DIVIDER, RST, SD_CLK_O, changed>>

\* The reset is asynchronous, and held until software releases it.
SetReset ==
  /\ RST' = ~RST
  /\ IF RST THEN UNCHANGED <<ClockDiv, SD_CLK_O, half, changed>>
     ELSE ClockDiv' = 0 /\ SD_CLK_O' = 0 /\ half' = 0 /\ changed' = FALSE
  /\ UNCHANGED DIVIDER

SetDivider(d) ==
  /\ ~changed
  /\ DIVIDER' = d /\ changed' = ~RST
  /\ UNCHANGED <<RST, ClockDiv, SD_CLK_O, half>>

DividerClock == Match \/ Count

DividerNext == DividerClock \/ SetReset \/ \E d \in Dividers : SetDivider(d)

DividerSpec == DividerInit /\ [][DividerNext]_dividerVars

-----------------------------------------------------------------------------
(* Properties. *)

DividerTypeOK ==
  /\ DIVIDER \in 0 .. COUNT_MOD - 1 /\ ClockDiv \in 0 .. COUNT_MOD - 1
  /\ RST \in BOOLEAN /\ changed \in BOOLEAN /\ SD_CLK_O \in {0, 1} /\ half \in Nat

\* A half period that ends lasts DIVIDER + 1 clocks, whenever DIVIDER was written:
\* never a runt pulse.  Only when it was lowered below the count can the half
\* period be longer, by exactly the counter's wrap.
HalfPeriod ==
  [][SD_CLK_O' # SD_CLK_O /\ ~RST' =>
       \/ half = DIVIDER
       \/ changed /\ half = DIVIDER + COUNT_MOD]_dividerVars

-----------------------------------------------------------------------------
(* The inductive invariant: the counter is below DIVIDER unless DIVIDER has just *)
(* been lowered, and counts the clocks of the half period up to one wrap.       *)

InvHalf ==
  \/ half = ClockDiv /\ (~changed => ClockDiv <= DIVIDER)
  \/ changed /\ half = ClockDiv + COUNT_MOD /\ ClockDiv <= DIVIDER

DividerInv == DividerTypeOK /\ InvHalf /\ (RST => ClockDiv = 0 /\ half = 0 /\ ~changed)
=============================================================================
