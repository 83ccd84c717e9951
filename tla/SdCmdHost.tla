------------------------------ MODULE SdCmdHost ------------------------------
(***************************************************************************)
(* The command host of the SD controller, verilog/sd_cmd_serial_host.v:    *)
(* one step per rising edge of sd_clk.                                     *)
(*                                                                         *)
(* A bit on the CMD line is represented by its POSITION in its frame.      *)
(* Position k of a command frame is its k-th bit, 1 .. BITS_TO_SEND;       *)
(* position k of a response is the k-th bit after its start bit, which is  *)
(* position 0.  A shift register or a CRC register then holds the span of  *)
(* positions it has taken in: that is all it takes to say which bits were  *)
(* sent, received and protected.                                           *)
(***************************************************************************)
EXTENDS Integers

CONSTANTS
  INIT_DELAY,       \* clocks driven high after reset
  BITS_TO_SEND,     \* bits of a command frame
  CMD_SIZE,         \* bits of a command frame before its CRC
  RESP_SIZE_LONG,   \* last position a long response's CRC protects
  RESP_SIZE_SHORT,  \* the same of a short response
  Timeouts,         \* values software writes to the timeout register
  MinDelay,         \* the card answers no sooner than this many clocks ...
  MaxDelay          \* ... and no later than this many, when it does answer

ASSUME CmdHostAssumption ==
  /\ INIT_DELAY \in Nat /\ INIT_DELAY < 255
  /\ CMD_SIZE \in Nat /\ CMD_SIZE >= 2
  /\ BITS_TO_SEND = CMD_SIZE + 8 /\ BITS_TO_SEND < 255
  /\ RESP_SIZE_SHORT \in Nat /\ RESP_SIZE_SHORT >= 1
  /\ RESP_SIZE_LONG \in Nat /\ RESP_SIZE_LONG > RESP_SIZE_SHORT /\ RESP_SIZE_LONG >= 8
  /\ RESP_SIZE_LONG < 247
  /\ MinDelay \in Nat /\ MinDelay >= 2
  /\ MaxDelay \in Nat /\ MaxDelay >= MinDelay
  /\ Timeouts \subseteq Nat
  /\ \A t \in Timeouts : MaxDelay < t

VARIABLES
  setting,       \* setting_i: [resp, long, data], bits 0, 1 and 2
  start_i,       \* software's start bit, a level
  timeout_i,     \* the timeout register
  state, counter, wait_reg_o,
  cmd_dat_reg,   \* the CMD line's pad register
  crc_rst, crc_enable, crc_bit,
  crc,           \* the span of bits in the CRC_7 register
  cmd_oe_o, cmd_out_o,
  packet_o,      \* the span of bits sent
  response_o,    \* the span of bits received
  finish_o, crc_ok_o, index_ok_o, start_data_o,
  card,          \* the card: quiet, waiting to answer, answering
  cardCnt,       \* clocks waited, or the position now on the line
  cardGood       \* is the CRC of the card's answer right

inputVars == <<setting, start_i, timeout_i>>
crcVars   == <<crc_rst, crc_enable, crc_bit, crc>>
padVars   == <<cmd_oe_o, cmd_out_o>>
cardVars  == <<card, cardCnt, cardGood>>
hostVars  == <<state, counter, wait_reg_o, cmd_dat_reg, crcVars, padVars,
               packet_o, response_o, finish_o, crc_ok_o, index_ok_o,
               start_data_o>>
vars      == <<inputVars, hostVars, cardVars>>

States == {"INIT", "IDLE", "SETUP_CRC", "WRITE", "READ_WAIT", "READ", "FINISH_RD_WR"}

High  == -1    \* the line pulled up, or a bit that is 1 outside a frame
Wrong == -2    \* a bit that belongs to no position
Float == -3    \* the line while neither side drives it: either level

-----------------------------------------------------------------------------
(* Spans of bit positions. *)

Empty   == [lo |-> 1, hi |-> 0]
Garbled == [lo |-> 2, hi |-> 0]
Span(a, b) == [lo |-> a, hi |-> b]

Shift(s, p) ==
  IF s = Empty THEN Span(p, p)
  ELSE IF s # Garbled /\ p = s.hi + 1 THEN Span(s.lo, p)
  ELSE Garbled

-----------------------------------------------------------------------------
(* Combinational signals. *)

with_response == setting.resp
with_data     == setting.data
resp_len      == IF setting.long THEN RESP_SIZE_LONG ELSE RESP_SIZE_SHORT

\* The first position the CRC of a response protects: a long response's header
\* is outside its CRC.
crc_first == IF setting.long THEN 8 ELSE 1

\* The line floats for two clocks after the host has released it.
cmd_dat_i ==
  IF card = "answering" THEN cardCnt
  ELSE IF state = "READ_WAIT" /\ wait_reg_o < 2 THEN Float
  ELSE High

\* Positions 0 and 1 of a response (start and transmission bits) are 0; its other
\* bits, and a floating line, can have either value.
Levels(p) == IF p = High THEN {1} ELSE IF p \in {0, 1} THEN {0} ELSE {0, 1}

\* The CRC register has an asynchronous reset and absorbs crc_bit when enabled.
CRC_7 == crc' = IF crc_rst \/ crc_rst' THEN Empty
                ELSE IF crc_enable THEN Shift(crc, crc_bit)
                ELSE crc

-----------------------------------------------------------------------------
(* One action per state of the machine: what a rising edge of sd_clk does. *)

InitState ==
  /\ state = "INIT"
  /\ state' = IF counter >= INIT_DELAY THEN "IDLE" ELSE "INIT"
  /\ counter' = counter + 1
  /\ cmd_oe_o' = TRUE /\ cmd_out_o' = High
  /\ UNCHANGED <<crc_rst, crc_enable, crc_bit, wait_reg_o, cmd_dat_reg, packet_o,
                 response_o, finish_o, crc_ok_o, index_ok_o, start_data_o>>
  /\ CRC_7

\* Mutant: the last command's finish_o stays up.
IdleKeepsFinish ==
  /\ state = "IDLE"
  /\ state' = IF start_i THEN "SETUP_CRC" ELSE "IDLE"
  /\ cmd_oe_o' = FALSE /\ counter' = 0 /\ crc_rst' = TRUE /\ crc_enable' = FALSE
  /\ index_ok_o' = FALSE /\ start_data_o' = FALSE
  /\ UNCHANGED <<finish_o, crc_bit, cmd_out_o, wait_reg_o, cmd_dat_reg, packet_o,
                 response_o, crc_ok_o>>
  /\ CRC_7

Idle ==
  /\ state = "IDLE"
  /\ state' = IF start_i THEN "SETUP_CRC" ELSE "IDLE"
  /\ cmd_oe_o' = FALSE
  /\ counter' = 0
  /\ crc_rst' = TRUE /\ crc_enable' = FALSE
  /\ finish_o' = FALSE /\ index_ok_o' = FALSE /\ start_data_o' = FALSE
  /\ UNCHANGED <<crc_bit, cmd_out_o, wait_reg_o, cmd_dat_reg, packet_o, response_o, crc_ok_o>>
  /\ CRC_7

SetupCrc ==
  /\ state = "SETUP_CRC"
  /\ state' = "WRITE"
  /\ crc_rst' = FALSE /\ crc_enable' = TRUE
  /\ crc_bit' = 1
  /\ response_o' = Empty /\ packet_o' = Empty
  /\ UNCHANGED <<counter, padVars, wait_reg_o, cmd_dat_reg, finish_o, crc_ok_o,
                 index_ok_o, start_data_o>>
  /\ CRC_7

\* The bit put on the line in the WRITE state: the command, its CRC, the stop bit.
FrameBit ==
  IF counter < BITS_TO_SEND - 8 THEN counter + 1
  ELSE IF counter < BITS_TO_SEND - 1
       THEN IF crc = Span(1, CMD_SIZE) THEN counter + 1 ELSE Wrong
  ELSE IF counter = BITS_TO_SEND - 1 THEN BITS_TO_SEND
  ELSE High

\* Mutant: the CRC register stops one bit before the end of the command.
CrcFeedsShort == IF counter \in BITS_TO_SEND - 10 .. BITS_TO_SEND - 2 THEN FALSE ELSE crc_enable

\* crc_bit is one step ahead of the line, so is the end of the feed.
CrcFeeds == IF counter \in BITS_TO_SEND - 9 .. BITS_TO_SEND - 2 THEN FALSE ELSE crc_enable

Write ==
  /\ state = "WRITE"
  /\ state' = IF counter < BITS_TO_SEND THEN "WRITE"
              ELSE IF with_response THEN "READ_WAIT" ELSE "FINISH_RD_WR"
  /\ cmd_dat_reg' = High
  /\ cmd_oe_o' = (counter < BITS_TO_SEND)
  /\ cmd_out_o' = FrameBit
  /\ crc_bit' = IF counter < BITS_TO_SEND - 9 THEN counter + 2 ELSE crc_bit
  /\ crc_enable' = CrcFeeds
  /\ counter' = counter + 1
  /\ wait_reg_o' = 0
  /\ packet_o' = IF cmd_oe_o' THEN Shift(packet_o, cmd_out_o') ELSE packet_o
  /\ UNCHANGED <<crc_rst, response_o, finish_o, crc_ok_o, index_ok_o, start_data_o>>
  /\ CRC_7

\* Mutants: no time for the bus to turn round; a timeout two clocks early; a wait
\* that is not counted.
SeesStartEarly(level) == level = 0
TimedOutEarly == wait_reg_o + 2 >= timeout_i
WaitNotCounted == wait_reg_o

SeesStart(level) == wait_reg_o >= 3 /\ level = 0
TimedOut == wait_reg_o >= timeout_i
Waited == wait_reg_o + 1

ReadWait ==
  /\ state = "READ_WAIT"
  /\ \E level \in Levels(cmd_dat_reg) :
       state' = IF SeesStart(level) THEN "READ"
                ELSE IF TimedOut THEN "FINISH_RD_WR"
                ELSE "READ_WAIT"
  /\ cmd_dat_reg' = cmd_dat_i
  /\ crc_enable' = FALSE /\ crc_rst' = TRUE
  /\ counter' = 1
  /\ cmd_oe_o' = FALSE
  /\ wait_reg_o' = Waited
  /\ UNCHANGED <<crc_bit, cmd_out_o, packet_o, response_o, finish_o, crc_ok_o, index_ok_o,
                 start_data_o>>
  /\ CRC_7

\* response_o[6:0] against the CRC register.  Only over the right bits does the
\* comparison tell whether the card's CRC is right.
CrcMatches ==
  IF crc = Span(crc_first, resp_len) /\ response_o = Span(1, resp_len + 7)
  THEN {cardGood} ELSE BOOLEAN

\* Mutant: the data host is started as soon as the response begins.
DataStartedEarly == with_data

DataStarted == IF counter <= resp_len THEN start_data_o ELSE with_data

ReadOver == counter >= resp_len + 8

Read ==
  /\ state = "READ"
  /\ state' = IF ReadOver THEN "FINISH_RD_WR" ELSE "READ"
  /\ cmd_dat_reg' = cmd_dat_i
  /\ crc_rst' = FALSE
  /\ crc_enable' = (counter <= resp_len /\ (~setting.long \/ counter > 7))
  /\ cmd_oe_o' = FALSE
  /\ crc_bit' = IF counter <= resp_len THEN cmd_dat_reg ELSE crc_bit
  /\ start_data_o' = DataStarted
  /\ IF counter <= resp_len + 7
     THEN response_o' = Shift(response_o, cmd_dat_reg) /\ UNCHANGED crc_ok_o
     ELSE crc_ok_o' \in CrcMatches /\ UNCHANGED response_o
  /\ counter' = counter + 1
  /\ UNCHANGED <<cmd_out_o, wait_reg_o, packet_o, finish_o, index_ok_o>>
  /\ CRC_7

\* index_ok_o compares the command's index with response_o[125:120].  A short
\* response never gets there and a long one has other bits there, so the result
\* is no verdict on the response: any.
FinishRdWr ==
  /\ state = "FINISH_RD_WR"
  /\ state' = IF start_i THEN "FINISH_RD_WR" ELSE "IDLE"
  /\ finish_o' = TRUE /\ index_ok_o' \in BOOLEAN
  /\ crc_enable' = FALSE
  /\ counter' = 0
  /\ cmd_oe_o' = FALSE
  /\ UNCHANGED <<crc_rst, crc_bit, cmd_out_o, wait_reg_o, cmd_dat_reg, packet_o,
                 response_o, crc_ok_o, start_data_o>>
  /\ CRC_7

Host == InitState \/ Idle \/ SetupCrc \/ Write \/ ReadWait \/ Read \/ FinishRdWr

-----------------------------------------------------------------------------
(* The card, as far as the host can see it: when the whole command has been  *)
(* on the line it may stay silent, or answer MinDelay .. MaxDelay clocks     *)
(* later with a response of the length software asked for.                   *)

CommandSeen == state = "WRITE" /\ counter = BITS_TO_SEND

Card ==
  \/ /\ card = "quiet"
     /\ \/ UNCHANGED cardVars
        \/ /\ CommandSeen /\ with_response
           /\ card' = "waiting" /\ cardCnt' = 1
           /\ cardGood' \in BOOLEAN
  \/ /\ card = "waiting" /\ cardCnt < MaxDelay
     /\ cardCnt' = cardCnt + 1
     /\ UNCHANGED <<card, cardGood>>
  \/ /\ card = "waiting" /\ cardCnt >= MinDelay
     /\ card' = "answering" /\ cardCnt' = 0
     /\ UNCHANGED cardGood
  \/ /\ card = "answering" /\ cardCnt < resp_len + 8
     /\ cardCnt' = cardCnt + 1
     /\ UNCHANGED <<card, cardGood>>
  \/ /\ card = "answering" /\ cardCnt >= resp_len + 8
     /\ card' = "quiet" /\ cardCnt' = 0
     /\ UNCHANGED cardGood

Clock == Host /\ Card

-----------------------------------------------------------------------------
(* Software, in the other clock domain: the start bit may change at any time. *)
(* The machine reads the setting and the timeout as they are and sd_bus.sv    *)
(* takes them at any time; the driver writes them between commands            *)
(* (before sd_cmd_start(1) and after sd_cmd_start(0)), and so does this one.  *)

SetStart == start_i' = ~start_i /\ UNCHANGED <<setting, timeout_i, hostVars, cardVars>>

SetRegisters ==
  /\ state \in {"INIT", "IDLE", "FINISH_RD_WR"} /\ card = "quiet"
  /\ setting' \in [resp : BOOLEAN, long : BOOLEAN, data : BOOLEAN]
  /\ timeout_i' \in Timeouts
  /\ UNCHANGED <<start_i, hostVars, cardVars>>

\* The reset is asynchronous.  Software resets the controller before it talks to
\* the card, so not while the card is answering.
Reset ==
  /\ card = "quiet"
  /\ state' = "INIT" /\ counter' = 0 /\ wait_reg_o' = 0 /\ cmd_dat_reg' = 0
  /\ crc_rst' = TRUE /\ crc_enable' = FALSE /\ crc_bit' = 0 /\ crc' = Empty
  /\ cmd_oe_o' = TRUE /\ cmd_out_o' = High
  /\ packet_o' = Empty /\ response_o' = Empty
  /\ finish_o' = FALSE /\ crc_ok_o' = FALSE /\ index_ok_o' = FALSE
  /\ start_data_o' = FALSE
  /\ UNCHANGED <<inputVars, cardVars>>

Init ==
  /\ setting = [resp |-> FALSE, long |-> FALSE, data |-> FALSE]
  /\ start_i = FALSE
  /\ timeout_i \in Timeouts
  /\ state = "INIT" /\ counter = 0 /\ wait_reg_o = 0 /\ cmd_dat_reg = 0
  /\ crc_rst = TRUE /\ crc_enable = FALSE /\ crc_bit = 0 /\ crc = Empty
  /\ cmd_oe_o = TRUE /\ cmd_out_o = High
  /\ packet_o = Empty /\ response_o = Empty
  /\ finish_o = FALSE /\ crc_ok_o = FALSE /\ index_ok_o = FALSE
  /\ start_data_o = FALSE
  /\ card = "quiet" /\ cardCnt = 0 /\ cardGood = FALSE

Next ==
  \/ Clock /\ UNCHANGED inputVars
  \/ SetStart
  \/ SetRegisters
  \/ Reset

Spec == Init /\ [][Next]_vars
FairSpec == Spec /\ WF_vars(Clock /\ UNCHANGED inputVars)

-----------------------------------------------------------------------------
(* Properties. *)

Spans == [lo : Int, hi : Int]

\* Every register keeps a value of its Verilog declaration: in particular the
\* 8-bit counter never reaches 256, so its increments never wrap.
TypeOK ==
  /\ setting \in [resp : BOOLEAN, long : BOOLEAN, data : BOOLEAN]
  /\ start_i \in BOOLEAN /\ timeout_i \in Timeouts
  /\ state \in States
  /\ counter \in 0 .. 255
  /\ wait_reg_o \in Nat /\ cmd_dat_reg \in Int
  /\ crc_rst \in BOOLEAN /\ crc_enable \in BOOLEAN /\ crc_bit \in Int
  /\ crc \in Spans /\ packet_o \in Spans /\ response_o \in Spans
  /\ cmd_oe_o \in BOOLEAN /\ cmd_out_o \in Int
  /\ finish_o \in BOOLEAN /\ crc_ok_o \in BOOLEAN /\ index_ok_o \in BOOLEAN
  /\ start_data_o \in BOOLEAN
  /\ card \in {"quiet", "waiting", "answering"}
  /\ cardCnt \in Nat /\ cardGood \in BOOLEAN

\* The host and the card never drive the CMD line at once: whenever the card
\* answers, the host has released the line and is still listening, so no timeout
\* cuts an answer short (the turn-round wait and the timeout of READ_WAIT).
NoContention == card = "answering" => state \in {"READ_WAIT", "READ"} /\ ~cmd_oe_o

\* Once the host stops sending, exactly the bits of one frame have been sent, in
\* order and with the CRC of exactly the command's bits, whatever software does
\* with the start bit meanwhile (the one-step-ahead CRC feed of WRITE).
FrameIntact ==
  state \in {"READ_WAIT", "READ", "FINISH_RD_WR"} => packet_o = Span(1, BITS_TO_SEND)

\* When a response has been read, every one of its bits is in response_o in its
\* place, its CRC was computed over the bits the card's CRC protects, short or
\* long, and crc_ok_o is the verdict on it (the counters of READ).
AnswerDelivered ==
  [][state = "READ" /\ state' = "FINISH_RD_WR"
       => /\ response_o' = Span(1, resp_len + 7)
          /\ crc_ok_o' = cardGood]_vars

\* The data host is started only for a command with data, and only when the
\* card's response to this command, without its CRC, has arrived: never after a
\* command that got no answer (start_data_o of READ).
DataAfterAnswer ==
  /\ state \in {"READ", "FINISH_RD_WR"} /\ start_data_o
       => response_o.lo = 1 /\ response_o.hi >= RESP_SIZE_SHORT
  /\ state \in {"SETUP_CRC", "WRITE", "READ_WAIT"} => ~start_data_o

\* finish_o says that a whole frame was sent: it is down from the moment the host
\* accepts a command until that command is over (the handshake
\* sd_transaction_wait and sd_transaction_finish rely on).
FinishNotStale == state \in {"SETUP_CRC", "WRITE", "READ_WAIT", "READ"} => ~finish_o
-----------------------------------------------------------------------------
(* The inductive invariant: what the registers hold in each state of the     *)
(* machine, as a function of the counters.                                   *)

Lesser(a, b) == IF a <= b THEN a ELSE b

\* The span of the first n positions.
First(n) == IF n = 0 THEN Empty ELSE Span(1, n)

InvReset == state = "INIT" =>
  /\ counter <= INIT_DELAY /\ ~finish_o /\ ~start_data_o /\ card = "quiet"

InvIdle == state \in {"IDLE", "FINISH_RD_WR"} => card = "quiet"

InvSetup == state = "SETUP_CRC" =>
  /\ counter = 0 /\ crc_rst /\ crc = Empty
  /\ ~finish_o /\ ~start_data_o /\ card = "quiet"

InvWrite == state = "WRITE" =>
  /\ counter <= BITS_TO_SEND
  /\ packet_o = First(counter) /\ response_o = Empty
  /\ ~crc_rst /\ (crc_enable <=> counter < CMD_SIZE)
  /\ crc = First(Lesser(counter, CMD_SIZE))
  /\ counter < CMD_SIZE => crc_bit = counter + 1
  /\ ~finish_o /\ ~start_data_o /\ card = "quiet"

InvReadWait == state = "READ_WAIT" =>
  /\ packet_o = First(BITS_TO_SEND) /\ response_o = Empty
  /\ ~cmd_oe_o /\ ~finish_o /\ ~start_data_o
  /\ counter \in {1, BITS_TO_SEND + 1}
  /\ wait_reg_o > 0 => crc_rst /\ crc = Empty /\ ~crc_enable /\ counter = 1
  /\ IF card = "answering" /\ cardCnt = 1 THEN cmd_dat_reg = 0
     ELSE cmd_dat_reg = High \/ (cmd_dat_reg = Float /\ wait_reg_o \in {1, 2})
  /\ card = "waiting" => cardCnt = wait_reg_o + 1 /\ cardCnt <= MaxDelay
  /\ card = "answering" =>
       \/ cardCnt = 0 /\ wait_reg_o >= MinDelay /\ wait_reg_o <= MaxDelay
       \/ cardCnt = 1 /\ wait_reg_o > MinDelay

InvRead == state = "READ" =>
  /\ packet_o = First(BITS_TO_SEND)
  /\ ~cmd_oe_o /\ ~finish_o
  /\ counter >= 1 /\ counter <= resp_len + 8
  /\ IF counter <= resp_len + 7 THEN card = "answering" /\ cardCnt = counter + 1
                                ELSE card = "quiet"
  /\ cmd_dat_reg = counter
  /\ response_o = First(Lesser(counter - 1, resp_len + 7))
  /\ crc_rst <=> counter = 1
  /\ counter = 1 => ~crc_enable
  /\ counter > 1 => /\ crc_enable <=> (counter - 1 >= crc_first /\ counter - 1 <= resp_len)
                    /\ crc_bit = Lesser(counter - 1, resp_len)
  /\ crc = IF counter - 2 < crc_first THEN Empty
           ELSE Span(crc_first, Lesser(counter - 2, resp_len))
  /\ start_data_o => counter >= resp_len + 2

InvFinish == state = "FINISH_RD_WR" =>
  /\ packet_o = First(BITS_TO_SEND) /\ ~cmd_oe_o
  /\ response_o \in {Empty, First(RESP_SIZE_SHORT + 7), First(RESP_SIZE_LONG + 7)}
  /\ start_data_o => response_o # Empty

IInv == TypeOK /\ InvReset /\ InvIdle /\ InvSetup /\ InvWrite /\ InvReadWait
        /\ InvRead /\ InvFinish
=============================================================================
