------------------------------ MODULE SdDataHost ------------------------------
(***************************************************************************)
(* The data host of the SD controller, verilog/sd_data_serial_host.sv: one *)
(* step per period of sd_clk, its rising edge (the machine) followed by    *)
(* its falling edge (the CRC registers and the FIFOs).                     *)
(*                                                                         *)
(* As in SdCmdHost, what is on the DAT lines is represented by its         *)
(* POSITION in the block: 0 is the start bit, 1 .. n the data (nibbles on  *)
(* four lanes, bits on one), n+1 .. n+16 the CRC, n+17 the stop bit.  The  *)
(* lanes move together, so lane 0 stands for all of them.  A word, a CRC   *)
(* register and a FIFO's contents are spans of positions.                  *)
(***************************************************************************)
EXTENDS Integers

CONSTANTS
  COUNT_MOD,     \* 2^16: transf_cnt counts modulo this
  BlkSizes,      \* values software writes to the block size register, in bytes
  Transfers,     \* pairs <<start, 4-bit bus>> software asks for
  Timeouts,      \* values software writes to the timeout register
  MinDelay,      \* a card asked for a block sends it no sooner than this ...
  MaxDelay,      \* ... and no later than this, when it does
  MaxAck,        \* clocks a card may add to the two before its write status
  MaxBusy        \* clocks a card may stay busy after its write status

ASSUME DataHostAssumption ==
  /\ BlkSizes \subseteq Nat \ {0} /\ \A b \in BlkSizes : b < 4096
  /\ COUNT_MOD \in Nat /\ \A b \in BlkSizes : 8 * b + 26 + MaxAck < COUNT_MOD
  /\ Transfers \subseteq {1, 2} \X BOOLEAN
  /\ MinDelay \in Nat /\ MinDelay >= 2
  /\ MaxDelay \in Nat /\ MaxDelay >= MinDelay
  /\ Timeouts \subseteq Nat /\ \A t \in Timeouts : MaxDelay < t
  /\ MaxAck \in Nat /\ MaxBusy \in Nat

VARIABLES
  start, bus_4bit, blksize, timeout_i,          \* inputs
  state, transf_cnt, data_cycles, bus_4bit_reg,
  data_index, crc_rst, crc_in, crc_c, crc_status, busy_int, wait_reg_o,
  rd, we, we_o,
  data_out, data_out_o,   \* the word being read, the word offered to the FIFO
  crc_din,                \* the CRC received with a block
  crc_lane_ok, crc_s, finish_o, sd_transf_cnt,
  DAT_oe_o, DAT_dat_o, DAT_dat_reg,
  crc_calc,               \* the CRC register: the positions it has absorbed
  popped,                 \* words taken from the transmit FIFO
  sent, received,         \* positions put on DAT, pushed into the receive FIFO
  card, cardCnt, cardGood

inputVars == <<start, bus_4bit, blksize, timeout_i>>
wordVars  == <<data_out, data_out_o, we, we_o, sd_transf_cnt>>
crcVars   == <<crc_rst, crc_in, crc_c, crc_din, crc_lane_ok>>
padVars   == <<DAT_oe_o, DAT_dat_o>>
fifoVars  == <<popped, received>>
cardVars  == <<card, cardCnt, cardGood>>
hostVars  == <<state, transf_cnt, data_cycles, bus_4bit_reg, data_index, crcVars,
               crc_status, busy_int, wait_reg_o, rd, wordVars, crc_s, finish_o,
               padVars, DAT_dat_reg, crc_calc, fifoVars, sent>>
vars      == <<inputVars, hostVars, cardVars>>

States == {"IDLE", "WRITE_DAT", "WRITE_CRC", "WRITE_BUSY", "READ_WAIT", "READ_DAT", "FINISH"}

High == -1    \* a lane pulled up
Busy == -2    \* a lane the card holds low
Off  == -3    \* crc_in with its enable bit down
Wrong == -4   \* a bit that belongs to no position

-----------------------------------------------------------------------------
(* Spans of positions. *)

Empty      == [lo |-> 1, hi |-> 0]
Garbled    == [lo |-> 2, hi |-> 0]
Span(a, b) == [lo |-> a, hi |-> b]
First(n)   == IF n = 0 THEN Empty ELSE Span(1, n)

Join(s, t) ==
  IF s = Empty THEN t
  ELSE IF s # Garbled /\ t.lo = s.hi + 1 THEN Span(s.lo, t.hi)
  ELSE Garbled

Shift(s, p) == Join(s, Span(p, p))

-----------------------------------------------------------------------------
(* Derived quantities. *)

DataCycles(bytes, wide) == IF wide THEN 2 * bytes + 2 ELSE 8 * bytes + 8

\* Positions of a word on the lanes in use, and the place data_index points to.
perWord == IF bus_4bit_reg THEN 8 ELSE 32
place   == data_index % perWord

\* The positions of data the host moves.
payload == data_cycles - 2

\* The DAT lanes: the host's pad, the card, or the pull-up.
DAT_dat_i ==
  IF DAT_oe_o THEN DAT_dat_o
  ELSE IF card \in {"sending", "status"} THEN cardCnt
  ELSE IF card = "busy" THEN Busy
  ELSE High

Levels(p) == IF p \in {0, Busy} THEN {0} ELSE IF p \in {High, payload + 17} THEN {1} ELSE {0, 1}

\* The falling edge: the CRC register absorbs what crc_in now holds; the FIFOs
\* take and give a word.  Software has filled the transmit FIFO with the words of
\* two blocks: a read of the empty FIFO does not advance it.
Words == (blksize + 3) \div 4

FallingEdge ==
  /\ crc_calc' = IF crc_rst' THEN Empty
                 ELSE IF crc_in' # Off THEN Shift(crc_calc, crc_in')
                 ELSE crc_calc
  /\ popped' = IF rd' /\ popped < 2 * Words THEN popped + 1 ELSE popped
  /\ received' = IF we_o' THEN Join(received, data_out_o') ELSE received

\* What every rising edge does, whatever the state.
EveryEdge ==
  /\ DAT_dat_reg' = DAT_dat_i
  /\ we_o' = we

PassWord == data_out_o' = IF we THEN data_out ELSE data_out_o

\* start = 3 aborts: whatever the machine does, it is in IDLE next.
Goto(s) == state' = IF start = 3 THEN "IDLE" ELSE s

-----------------------------------------------------------------------------
(* One action per state of the machine. *)

\* `sent' and the FIFO histories describe one transfer: they count from its
\* start.  The FIFOs themselves are emptied by data_rst alone (minion_soc.sv:586,
\* :603): what an aborted transfer leaves in them software has to clear away, or
\* the next one begins with it.
Idle ==
  /\ state = "IDLE"
  /\ Goto(IF start = 1 THEN "WRITE_DAT" ELSE IF start = 2 THEN "READ_WAIT" ELSE "IDLE")
  /\ DAT_oe_o' = FALSE /\ DAT_dat_o' = High
  /\ crc_in' = Off /\ crc_rst' = TRUE /\ crc_c' = 16 /\ crc_din' = Empty
  /\ transf_cnt' = 0 /\ sd_transf_cnt' = 0
  /\ crc_status' = 0 /\ crc_lane_ok' = FALSE /\ crc_s' = Empty
  /\ we' = FALSE /\ rd' = FALSE
  /\ data_index' = 0
  /\ data_cycles' = DataCycles(blksize, bus_4bit)
  /\ bus_4bit_reg' = bus_4bit
  /\ wait_reg_o' = 0 /\ finish_o' = FALSE
  /\ data_out_o' = Empty
  /\ UNCHANGED <<data_out, busy_int>>
  /\ EveryEdge
  /\ crc_calc' = Empty /\ popped' = 0 /\ received' = Empty /\ sent' = Empty

\* The position data_in holds at data_index: FIFO words are taken in order.
FromFifo == (popped - 1) * perWord + place + 1

\* In WRITE_DAT the data end before this count.
DataEnds == data_cycles - 1

\* Mutant: the word after the last is fetched too.
FetchesPastEnd == IF bus_4bit_reg THEN place = 7 ELSE data_index = 29

\* When WRITE_DAT takes the next word from the FIFO.
Fetches == IF bus_4bit_reg THEN place = 7 /\ transf_cnt < data_cycles - 2
                           ELSE data_index = 29

\* Mutant: the host goes on driving the lanes while it waits for the status.
KeepsDriving == transf_cnt > 0

\* In WRITE_DAT, does the host drive the lanes after this edge.
Drives == IF transf_cnt < data_cycles + 16 THEN TRUE
          ELSE IF transf_cnt >= data_cycles + 17 THEN FALSE
          ELSE DAT_oe_o

SendStart ==
  /\ transf_cnt = 0
  /\ crc_rst' = FALSE /\ data_index' = 0
  /\ rd' = TRUE
  /\ DAT_dat_o' = 0 /\ sent' = Shift(sent, 0)
  /\ sd_transf_cnt' = 0
  /\ Goto("WRITE_DAT")
  /\ UNCHANGED <<crc_in, crc_c, crc_s>>

SendBlock ==
  /\ transf_cnt > 0 /\ transf_cnt < data_cycles + 16
  /\ rd' = Fetches
  /\ sd_transf_cnt' = IF Fetches THEN transf_cnt \div perWord ELSE sd_transf_cnt
  /\ data_index' = (data_index + 1) % 32
  /\ IF transf_cnt < DataEnds
     THEN DAT_dat_o' = FromFifo /\ crc_in' = FromFifo /\ crc_c' = crc_c
     ELSE /\ crc_in' = Off
          /\ IF crc_c # 0
             THEN /\ crc_c' = crc_c - 1
                  /\ DAT_dat_o' = IF crc_calc = First(payload) THEN payload + 17 - crc_c ELSE Wrong
             ELSE DAT_dat_o' = payload + 17 /\ crc_c' = crc_c
  /\ sent' = Shift(sent, DAT_dat_o')
  /\ Goto("WRITE_DAT")
  /\ UNCHANGED <<crc_rst, crc_s>>

AwaitStatus ==
  /\ transf_cnt >= data_cycles + 16
  /\ rd' = FALSE
  /\ IF transf_cnt >= data_cycles + 17
     THEN /\ crc_s' = Span(DAT_dat_reg, DAT_dat_reg)
          /\ \E level \in Levels(DAT_dat_reg) : Goto(IF level = 0 THEN "WRITE_CRC" ELSE "WRITE_DAT")
     ELSE Goto("WRITE_DAT") /\ UNCHANGED crc_s
  /\ UNCHANGED <<sd_transf_cnt, data_index, crc_rst, crc_in, crc_c, DAT_dat_o, sent>>

WriteDat ==
  /\ state = "WRITE_DAT"
  /\ SendStart \/ SendBlock \/ AwaitStatus
  /\ DAT_oe_o' = Drives
  /\ transf_cnt' = (transf_cnt + 1) % COUNT_MOD
  /\ PassWord /\ EveryEdge
  /\ UNCHANGED <<data_cycles, bus_4bit_reg, crc_din, crc_lane_ok, crc_status, busy_int,
                 wait_reg_o, we, data_out, finish_o>>
  /\ FallingEdge

StatusOver == crc_status = 3

WriteCrc ==
  /\ state = "WRITE_CRC"
  /\ DAT_oe_o' = FALSE
  /\ crc_status' = (crc_status + 1) % 8
  /\ crc_s' = Shift(crc_s, DAT_dat_reg)
  /\ busy_int' = TRUE
  /\ Goto(IF StatusOver THEN "WRITE_BUSY" ELSE "WRITE_CRC")
  /\ PassWord /\ EveryEdge
  /\ UNCHANGED <<transf_cnt, data_cycles, bus_4bit_reg, data_index, crcVars, wait_reg_o, rd,
                 we, data_out, sd_transf_cnt, finish_o, DAT_dat_o, sent>>
  /\ FallingEdge

\* Mutant: busy is not looked at.
NeverBusy == TRUE

BusyOver == ~busy_int

WriteBusy ==
  /\ state = "WRITE_BUSY"
  /\ \E level \in Levels(DAT_dat_reg) : busy_int' = (level = 0)
  /\ Goto(IF BusyOver THEN "FINISH" ELSE "WRITE_BUSY")
  /\ PassWord /\ EveryEdge
  /\ UNCHANGED <<transf_cnt, data_cycles, bus_4bit_reg, data_index, crcVars, crc_status,
                 crc_s, wait_reg_o, rd, we, data_out, sd_transf_cnt, finish_o, padVars, sent>>
  /\ FallingEdge

\* Mutant: the wait is not counted.
WaitNotCounted == wait_reg_o

Waited == wait_reg_o + 1

ReadWait ==
  /\ state = "READ_WAIT"
  /\ DAT_oe_o' = FALSE
  /\ crc_rst' = FALSE /\ crc_in' = Off /\ crc_c' = 15
  /\ transf_cnt' = 0 /\ data_index' = 0
  /\ wait_reg_o' = Waited
  /\ \E level \in Levels(DAT_dat_reg) :
       Goto(IF wait_reg_o >= 3 /\ level = 0 THEN "READ_DAT"
            ELSE IF wait_reg_o >= timeout_i THEN "FINISH"
            ELSE "READ_WAIT")
  /\ PassWord /\ EveryEdge
  /\ UNCHANGED <<data_cycles, bus_4bit_reg, crc_din, crc_lane_ok, crc_status, crc_s, busy_int,
                 rd, we, data_out, sd_transf_cnt, finish_o, DAT_dat_o, sent>>
  /\ FallingEdge

\* Mutant: the last word of a block is not pushed.
DropsLastWord == place = perWord - 1 /\ transf_cnt + 1 < payload

\* A word is complete.
WordFull == place = perWord - 1

\* data_out is written place by place, from the first: of what it holds only the
\* places written since are ever pushed.
ReadData ==
  /\ transf_cnt < payload
  /\ we' = WordFull
  /\ sd_transf_cnt' = IF WordFull THEN transf_cnt \div perWord ELSE sd_transf_cnt
  /\ data_out' = IF place = 0 THEN Span(DAT_dat_reg, DAT_dat_reg)
                 ELSE Shift(data_out, DAT_dat_reg)
  /\ data_index' = (data_index + 1) % 32
  /\ crc_in' = DAT_dat_reg
  /\ transf_cnt' = (transf_cnt + 1) % COUNT_MOD
  /\ Goto("READ_DAT")
  /\ UNCHANGED <<crc_c, crc_din, crc_lane_ok>>

ReadCrc ==
  /\ transf_cnt >= payload /\ crc_c # 31
  /\ crc_din' = Shift(crc_din, DAT_dat_reg)
  /\ transf_cnt' = (transf_cnt + 1) % COUNT_MOD
  /\ crc_in' = Off
  /\ we' = FALSE
  /\ crc_c' = (crc_c - 1) % 32
  /\ Goto("READ_DAT")
  /\ UNCHANGED <<sd_transf_cnt, data_out, data_index, crc_lane_ok>>

\* The data positions of a block of the size software asked for.
BlockSize == IF bus_4bit_reg THEN 2 * blksize ELSE 8 * blksize

\* Only over the right positions does the comparison of crc_calc and crc_din tell
\* whether the card's CRC is right.
LaneVerdicts ==
  IF crc_calc = First(BlockSize) /\ crc_din = Span(BlockSize + 1, BlockSize + 16)
  THEN {cardGood} ELSE BOOLEAN

ReadVerdict ==
  /\ transf_cnt >= payload /\ crc_c = 31
  /\ crc_lane_ok' \in LaneVerdicts
  /\ we' = FALSE
  /\ Goto("FINISH")
  /\ UNCHANGED <<transf_cnt, sd_transf_cnt, data_out, data_index, crc_in, crc_c, crc_din>>

ReadDat ==
  /\ state = "READ_DAT"
  /\ ReadData \/ ReadCrc \/ ReadVerdict
  /\ PassWord /\ EveryEdge
  /\ UNCHANGED <<data_cycles, bus_4bit_reg, crc_rst, crc_status, crc_s, busy_int, wait_reg_o,
                 rd, finish_o, padVars, sent>>
  /\ FallingEdge

Finish ==
  /\ state = "FINISH"
  /\ finish_o' = TRUE
  /\ Goto(IF start = 0 THEN "IDLE" ELSE "FINISH")
  /\ PassWord /\ EveryEdge
  /\ UNCHANGED <<transf_cnt, data_cycles, bus_4bit_reg, data_index, crcVars, crc_status, crc_s,
                 busy_int, wait_reg_o, rd, we, data_out, sd_transf_cnt, padVars, sent>>
  /\ FallingEdge

Host == Idle \/ WriteDat \/ WriteCrc \/ WriteBusy \/ ReadWait \/ ReadDat \/ Finish

-----------------------------------------------------------------------------
(* The card.  Asked for a block it may send one, MinDelay .. MaxDelay clocks  *)
(* later.  Having seen the stop bit of a block it may answer, two clocks later  *)
(* at the earliest, with a status token and then hold DAT0 low while it is     *)
(* busy; or it stays mute until the host gives up.                             *)

\* transf_cnt when the status token may be on its way at the earliest.
StatusDue == BlockSize + 20

AnswerDue == state = "WRITE_DAT" /\ transf_cnt >= StatusDue

CardIdle ==
  /\ card = "quiet"
  /\ ~(state = "WRITE_DAT" /\ transf_cnt >= StatusDue + MaxAck)
  /\ UNCHANGED cardVars

CardAsked ==
  /\ card = "quiet" /\ state = "IDLE" /\ start = 2
  /\ card' = "waiting" /\ cardCnt' = 1 /\ cardGood' \in BOOLEAN

CardSends ==
  \/ /\ card = "waiting" /\ cardCnt < MaxDelay
     /\ cardCnt' = cardCnt + 1 /\ UNCHANGED <<card, cardGood>>
  \/ /\ card = "waiting" /\ cardCnt >= MinDelay
     /\ card' = "sending" /\ cardCnt' = 0 /\ UNCHANGED cardGood
  \/ /\ card = "sending" /\ cardCnt < BlockSize + 17
     /\ cardCnt' = cardCnt + 1 /\ UNCHANGED <<card, cardGood>>
  \/ /\ card = "sending" /\ cardCnt >= BlockSize + 17
     /\ card' = "quiet" /\ cardCnt' = 0 /\ UNCHANGED cardGood

CardAnswers ==
  \/ /\ card = "quiet" /\ AnswerDue
     /\ card' \in {"status", "mute"} /\ cardCnt' = 0 /\ UNCHANGED cardGood
  \/ /\ card = "status" /\ cardCnt < 4
     /\ cardCnt' = cardCnt + 1 /\ UNCHANGED <<card, cardGood>>
  \/ /\ card = "status" /\ cardCnt >= 4
     /\ \/ card' = "quiet" /\ cardCnt' = 0
        \/ MaxBusy > 0 /\ card' = "busy" /\ cardCnt' = 1
     /\ UNCHANGED cardGood
  \/ /\ card = "busy"
     /\ \/ cardCnt < MaxBusy /\ cardCnt' = cardCnt + 1 /\ UNCHANGED card
        \/ card' = "quiet" /\ cardCnt' = 0
     /\ UNCHANGED cardGood
  \/ /\ card = "mute"
     /\ card' = IF state = "IDLE" THEN "quiet" ELSE "mute"
     /\ UNCHANGED <<cardCnt, cardGood>>

Card == CardIdle \/ CardAsked \/ CardSends \/ CardAnswers

Clock == Host /\ Card

-----------------------------------------------------------------------------
(* The inputs.  The start code may change at any time.  The machine takes an   *)
(* abort in any state; software, which has the card to stop as well, aborts a  *)
(* transfer while the card is silent and no answer of it is due (the driver    *)
(* never aborts).  The other registers change between transfers.               *)

SetStart ==
  /\ start' \in (0 .. 3) \ {start}
  /\ start' \in {1, 2} => <<start', bus_4bit>> \in Transfers
  /\ start' = 3 => card = "mute" \/ (card = "quiet" /\ ~AnswerDue)
  /\ UNCHANGED <<bus_4bit, blksize, timeout_i, hostVars, cardVars>>

SetRegisters ==
  /\ state \in {"IDLE", "FINISH"} /\ card = "quiet" /\ start = 0
  /\ bus_4bit' \in BOOLEAN /\ blksize' \in BlkSizes /\ timeout_i' \in Timeouts
  /\ UNCHANGED <<start, hostVars, cardVars>>

\* The values of the registers rst sets.
Cleared ==
  /\ state = "IDLE" /\ DAT_oe_o = FALSE /\ crc_in = Off /\ crc_rst = TRUE /\ transf_cnt = 0
  /\ rd = FALSE /\ crc_c = 0 /\ DAT_dat_o = Busy /\ crc_status = 0 /\ crc_lane_ok = FALSE
  /\ crc_s = Empty /\ we = FALSE /\ we_o = FALSE /\ data_out = Empty /\ busy_int = FALSE
  /\ data_index = 0 /\ data_cycles = 0 /\ bus_4bit_reg = FALSE /\ wait_reg_o = 0
  /\ finish_o = FALSE /\ DAT_dat_reg = Busy /\ data_out_o = Empty /\ sd_transf_cnt = 0

\* Software resets the data host only while the card is not talking.
Reset ==
  /\ card \in {"quiet", "mute"}
  /\ state' = "IDLE" /\ DAT_oe_o' = FALSE /\ crc_in' = Off /\ crc_rst' = TRUE /\ transf_cnt' = 0
  /\ rd' = FALSE /\ crc_c' = 0 /\ DAT_dat_o' = Busy /\ crc_status' = 0 /\ crc_lane_ok' = FALSE
  /\ crc_s' = Empty /\ we' = FALSE /\ we_o' = FALSE /\ data_out' = Empty /\ busy_int' = FALSE
  /\ data_index' = 0 /\ data_cycles' = 0 /\ bus_4bit_reg' = FALSE /\ wait_reg_o' = 0
  /\ finish_o' = FALSE /\ DAT_dat_reg' = Busy /\ data_out_o' = Empty /\ sd_transf_cnt' = 0
  /\ crc_calc' = Empty /\ popped' = 0 /\ received' = Empty /\ sent' = Empty
  /\ UNCHANGED <<crc_din, inputVars, cardVars>>

Init ==
  /\ Cleared
  /\ crc_din = Empty /\ crc_calc = Empty /\ popped = 0 /\ received = Empty /\ sent = Empty
  /\ start = 0 /\ bus_4bit \in BOOLEAN /\ blksize \in BlkSizes /\ timeout_i \in Timeouts
  /\ card = "quiet" /\ cardCnt = 0 /\ cardGood = FALSE

Next ==
  \/ Clock /\ UNCHANGED inputVars
  \/ SetStart
  \/ SetRegisters
  \/ Reset

Spec == Init /\ [][Next]_vars
FairSpec == Spec /\ WF_vars(Clock /\ UNCHANGED inputVars)

-----------------------------------------------------------------------------
(* Properties. *)

\* The host and the card never drive the DAT lanes at once, and while the card
\* drives them the host is in a state that listens: a status token is not met by
\* the tail of the block, a block is not cut by a timeout (the release in
\* WRITE_DAT, the timeout of READ_WAIT).
LanesOwned ==
  card \in {"sending", "status", "busy"} =>
    /\ ~DAT_oe_o
    /\ state \in {"READ_WAIT", "READ_DAT", "WRITE_DAT", "WRITE_CRC", "WRITE_BUSY"}
         \/ (card = "sending" /\ cardCnt > BlockSize + 16)

\* A block that has been read is in the receive FIFO, every whole word of it once
\* and in order, by the time the machine leaves READ_DAT; on the 4-bit bus
\* crc_lane_ok is then the verdict on the card's CRC (the counters of READ_DAT,
\* the delay of one clock from we to we_o, the half clock to the CRC register).
BlockDelivered ==
  [][state = "READ_DAT" /\ state' = "FINISH"
       => /\ received' = First((BlockSize \div perWord) * perWord)
          /\ bus_4bit_reg => crc_lane_ok' = cardGood]_vars

\* When the card has acknowledged a block, exactly the positions of one block have
\* been sent, start bit to stop bit, with the CRC of exactly its data; every word
\* of it, and no other, has been taken from the FIFO since the transfer began, so
\* that a FIFO that held this block first is left at the first word of the next; and once the status is read, it is the card's, start
\* bit to end bit.
BlockSent ==
  /\ state \in {"WRITE_CRC", "WRITE_BUSY"} =>
       /\ sent = Span(0, BlockSize + 17)
       /\ popped = Words
       /\ ~rd
  /\ state = "WRITE_BUSY" => crc_s = Span(0, 4)

\* finish_o goes up only after everything the transfer does is done: no word is
\* still on its way to a FIFO, the lanes are free, the card no longer busy.
FinishMeansDone ==
  [][finish_o' /\ ~finish_o
       => ~we /\ ~we_o' /\ ~rd' /\ ~DAT_oe_o' /\ card \in {"quiet", "mute"}]_vars
==============================================================================
