--------------------------------- MODULE Uart ---------------------------------
(***************************************************************************)
(* The serial port: verilog/uart.v, the majority filter rx_delay.v in      *)
(* front of it, and the registers of minion_soc.sv around it; one step per *)
(* rising edge of msoc_clk.  A bit lasts four quarters of baud clocks.     *)
(*                                                                         *)
(* A byte is the tuple of its bits, the least significant first.           *)
(***************************************************************************)
EXTENDS Naturals, Sequences, FiniteSets

CONSTANTS
  baud,          \* u_baud, clocks in a quarter of a bit
  Bytes,         \* bytes in use
  BitTimes,      \* clocks in a bit of the remote sender
  StopBits,      \* stop bits the remote sender leaves
  Glitches,      \* lengths of the low pulses on an idle line
  WriteToPoll    \* clocks from the driver's write of a byte to its next poll

ASSUME UartAssumption ==
  /\ baud \in 1 .. 2047 /\ Bytes \subseteq [1 .. 8 -> {0, 1}]
  /\ BitTimes \subseteq Nat \ {0} /\ StopBits \subseteq Nat \ {0}
  /\ Glitches \subseteq 1 .. 2 * baud - 1
  /\ WriteToPoll \in Nat \ {0, 1}

VARIABLES
  loop,          \* is the line the port's own tx, or a remote sender's
  line,                                                     \* the pin uart_rx
  rx_dly, maj,                                              \* rx_delay
  recv_state, rx_clk_divider, rx_countdown, rx_bits_remaining, rx_data,
  received, rx_byte, recv_error,
  tx_state, tx_clk_divider, tx_countdown, tx_bits_remaining, tx_out,
  u_recv, u_trans, u_tx_byte,                               \* minion_soc.sv
  sw, swWait,      \* the driver's transmit loop and the clocks to its next access
  bits, bitTime, left,   \* the remote sender: bits to come, their length, clocks left
  due,             \* bytes begun on the line and not yet written to the FIFO
  erred, glitched  \* an error since the last write to the FIFO; a pulse of 3 or more

rxVars     == <<recv_state, rx_clk_divider, rx_countdown, rx_bits_remaining, rx_data>>
rxOut      == <<received, rx_byte, recv_error>>
txVars     == <<tx_state, tx_clk_divider, tx_countdown, tx_bits_remaining, tx_out>>
lineVars   == <<loop, line, rx_dly, maj>>
socVars    == <<u_recv, u_trans, u_tx_byte>>
driverVars == <<sw, swWait>>
remoteVars == <<bits, bitTime, left>>
ghosts     == <<due, erred, glitched>>
vars == <<lineVars, rxVars, rxOut, txVars, socVars, driverVars, remoteVars, ghosts>>

tx == tx_out[1]
is_transmitting == tx_state # "TX_IDLE"

\* The FIFO takes a word on the falling edge after this one.
wr_en == received /\ ~u_recv

-----------------------------------------------------------------------------
(* Receiver.  The dividers and countdowns run before the state machine looks  *)
(* at them.  In RX_IDLE and TX_IDLE they run on but nothing reads them: there  *)
(* they stand still here.                                                     *)

rxTick  == rx_clk_divider = 1
rxCount == IF rxTick THEN rx_countdown - 1 ELSE rx_countdown

RxRuns(count) ==
  /\ rx_clk_divider' = IF rxTick THEN baud ELSE rx_clk_divider - 1
  /\ rx_countdown' = count

\* Mutant: the quarters of a whole bit to the middle of the start bit.
WholeBit == 4

HalfBit == 2

RxIdle ==
  /\ recv_state = "RX_IDLE"
  /\ IF maj = 0
     THEN recv_state' = "RX_CHECK_START" /\ rx_clk_divider' = baud /\ rx_countdown' = HalfBit
     ELSE UNCHANGED <<recv_state, rx_clk_divider, rx_countdown>>
  /\ UNCHANGED <<rx_bits_remaining, rx_data>>

RxCheckStart ==
  /\ recv_state = "RX_CHECK_START"
  /\ IF rxCount = 0 /\ maj = 0
     THEN recv_state' = "RX_READ_BITS" /\ RxRuns(4) /\ rx_bits_remaining' = 8
     ELSE /\ recv_state' = IF rxCount = 0 THEN "RX_ERROR" ELSE "RX_CHECK_START"
          /\ RxRuns(rxCount) /\ UNCHANGED rx_bits_remaining
  /\ UNCHANGED rx_data

RxReadBits ==
  /\ recv_state = "RX_READ_BITS"
  /\ IF rxCount = 0
     THEN /\ rx_data' = Append(Tail(rx_data), maj)
          /\ RxRuns(4)
          /\ rx_bits_remaining' = rx_bits_remaining - 1
          /\ recv_state' = IF rx_bits_remaining' = 0 THEN "RX_CHECK_STOP" ELSE "RX_READ_BITS"
     ELSE RxRuns(rxCount) /\ UNCHANGED <<recv_state, rx_bits_remaining, rx_data>>

RxCheckStop ==
  /\ recv_state = "RX_CHECK_STOP"
  /\ recv_state' = IF rxCount # 0 THEN "RX_CHECK_STOP"
                   ELSE IF maj = 1 THEN "RX_RECEIVED" ELSE "RX_ERROR"
  /\ RxRuns(rxCount)
  /\ UNCHANGED <<rx_bits_remaining, rx_data>>

RxDelayRestart ==
  /\ recv_state = "RX_DELAY_RESTART"
  /\ recv_state' = IF rxCount # 0 THEN "RX_DELAY_RESTART" ELSE "RX_IDLE"
  /\ RxRuns(rxCount)
  /\ UNCHANGED <<rx_bits_remaining, rx_data>>

RxError ==
  /\ recv_state = "RX_ERROR" /\ recv_state' = "RX_DELAY_RESTART"
  /\ RxRuns(8)
  /\ UNCHANGED <<rx_bits_remaining, rx_data>>

RxReceived ==
  /\ recv_state = "RX_RECEIVED" /\ recv_state' = "RX_IDLE"
  /\ RxRuns(rxCount)
  /\ UNCHANGED <<rx_bits_remaining, rx_data>>

\* Mutants: the acknowledgement does not reach received, or recv_error.
KeepsReceived(flag) == flag
ErrorNotAcked(flag) == flag

Acked(flag) == flag /\ ~u_recv
ErrorAcked(flag) == flag /\ ~u_recv

\* recv_ack clears both flags; RX_RECEIVED and RX_ERROR come after it.
RxFlags ==
  /\ received'   = (Acked(received) \/ recv_state = "RX_RECEIVED")
  /\ recv_error' = (ErrorAcked(recv_error) \/ recv_state = "RX_ERROR")
  /\ rx_byte'    = IF recv_state = "RX_RECEIVED" THEN rx_data ELSE rx_byte

Receive ==
  /\ \/ RxIdle \/ RxCheckStart \/ RxReadBits \/ RxCheckStop \/ RxDelayRestart
     \/ RxError \/ RxReceived
  /\ RxFlags

-----------------------------------------------------------------------------
(* Transmitter. *)

txTick  == tx_clk_divider = 1
txCount == IF txTick THEN tx_countdown - 1 ELSE tx_countdown

TxRuns(count) ==
  /\ tx_clk_divider' = IF txTick THEN baud ELSE tx_clk_divider - 1
  /\ tx_countdown' = count

TxIdle ==
  /\ tx_state = "TX_IDLE"
  /\ IF u_trans
     THEN /\ tx_out' = <<0>> \o u_tx_byte
          /\ tx_clk_divider' = baud /\ tx_countdown' = 4 /\ tx_bits_remaining' = 9
          /\ tx_state' = "TX_SENDING"
     ELSE UNCHANGED txVars

TxSending ==
  /\ tx_state = "TX_SENDING"
  /\ IF txCount # 0
     THEN TxRuns(txCount) /\ UNCHANGED <<tx_state, tx_bits_remaining, tx_out>>
     ELSE IF tx_bits_remaining # 0
     THEN /\ tx_bits_remaining' = tx_bits_remaining - 1
          /\ tx_out' = Append(Tail(tx_out), 1)
          /\ TxRuns(4)
          /\ UNCHANGED tx_state
     ELSE /\ tx_state' = "TX_DELAY_RESTART"
          /\ TxRuns(8)
          /\ UNCHANGED <<tx_bits_remaining, tx_out>>

TxDelayRestart ==
  /\ tx_state = "TX_DELAY_RESTART"
  /\ tx_state' = IF txCount # 0 THEN "TX_DELAY_RESTART" ELSE "TX_IDLE"
  /\ TxRuns(txCount)
  /\ UNCHANGED <<tx_bits_remaining, tx_out>>

Transmit == TxIdle \/ TxSending \/ TxDelayRestart

-----------------------------------------------------------------------------
(* The pin, and what drives it. *)

\* Mutant: one sample in five is enough.
AnyLow(samples) == IF \E i \in 1 .. 5 : samples[i] = 0 THEN 0 ELSE 1

Majority(samples) == IF Cardinality({i \in 1 .. 5 : samples[i] = 1}) > 2 THEN 1 ELSE 0

Filter ==
  /\ maj' = Majority(rx_dly)
  /\ rx_dly' = <<line>> \o SubSeq(rx_dly, 1, 4)

\* The remote sender's line is idle when it has no bits to send.
Ones(n) == [i \in 1 .. n |-> 1]

\* A remote frame: start bit, data, stop bits.
RemoteStart(b) ==
  /\ bits = <<>>
  /\ \E t \in BitTimes, s \in StopBits :
       bitTime' = t /\ left' = t /\ bits' = <<0>> \o b \o Ones(s)

\* A pulse of noise, after which the line is quiet for three bits.
Noise(g) ==
  /\ bits = <<>>
  /\ bits' = <<0>> \o Ones(12 * baud + g)
  /\ bitTime' = 1 /\ left' = g

RemoteRuns ==
  /\ bits # <<>>
  /\ IF left > 1 THEN left' = left - 1 /\ UNCHANGED <<bits, bitTime>>
     ELSE bits' = Tail(bits) /\ left' = bitTime /\ UNCHANGED bitTime

RemoteIdle == bits = <<>> /\ UNCHANGED remoteVars

Pin == UNCHANGED loop /\ line' = IF loop THEN tx_out'[1] ELSE IF bits' = <<>> THEN 1 ELSE bits'[1]

-----------------------------------------------------------------------------
(* The driver's transmit loop: poll is_trans, write the byte. *)

DriverElsewhere ==
  /\ swWait' = IF swWait = 0 THEN 0 ELSE swWait - 1
  /\ u_trans' = FALSE
  /\ UNCHANGED <<u_tx_byte, sw>>

Poll ==
  /\ loop
  /\ sw = "poll" /\ swWait = 0
  /\ ~is_transmitting
  /\ sw' = "write"
  /\ u_trans' = FALSE
  /\ UNCHANGED <<u_tx_byte, swWait>>

WriteByte(b) ==
  /\ sw = "write"
  /\ u_trans' = TRUE /\ u_tx_byte' = b
  /\ sw' = "poll" /\ swWait' = WriteToPoll - 1

-----------------------------------------------------------------------------

\* The books of the properties: begun is the sequence of bytes that begin now.
Books(begun) ==
  /\ due' = (IF wr_en' THEN (IF due = <<>> THEN <<>> ELSE Tail(due)) ELSE due) \o begun
  /\ erred' = (recv_state = "RX_ERROR" \/ (erred /\ ~wr_en))

\* A bound on due, which NoByteLost shows is never met.
MaxDue == 2

Edge == Receive /\ Transmit /\ Filter /\ u_recv' = received

Clock ==
  \/ /\ Edge /\ DriverElsewhere
     /\ RemoteIdle \/ RemoteRuns
     /\ Pin /\ Books(<<>>) /\ UNCHANGED glitched
  \/ /\ Edge /\ Poll
     /\ RemoteIdle
     /\ Pin /\ Books(<<>>) /\ UNCHANGED glitched
  \/ \E b \in Bytes :
       /\ Len(due) < MaxDue
       /\ Edge /\ WriteByte(b)
       /\ RemoteIdle
       /\ Pin /\ Books(<<b>>) /\ UNCHANGED glitched
  \/ \E b \in Bytes :
       /\ ~loop /\ Len(due) < MaxDue
       /\ Edge /\ DriverElsewhere /\ RemoteStart(b)
       /\ Pin /\ Books(<<b>>) /\ UNCHANGED glitched
  \/ \E g \in Glitches :
       /\ ~loop
       /\ Edge /\ DriverElsewhere /\ Noise(g)
       /\ Pin /\ Books(<<>>) /\ glitched' = (glitched \/ g > 2)

Init ==
  /\ loop \in BOOLEAN /\ line = 1 /\ rx_dly = Ones(5) /\ maj = 1
  /\ recv_state = "RX_IDLE" /\ rx_clk_divider = baud /\ rx_countdown = 0
  /\ rx_bits_remaining = 0 /\ rx_data = [i \in 1 .. 8 |-> 0]
  /\ received = FALSE /\ rx_byte = [i \in 1 .. 8 |-> 0] /\ recv_error = FALSE
  /\ tx_state = "TX_DELAY_RESTART" /\ tx_clk_divider = baud /\ tx_countdown = 15
  /\ tx_bits_remaining = 0 /\ tx_out = Ones(9)
  /\ u_recv = FALSE /\ u_trans = FALSE /\ u_tx_byte = [i \in 1 .. 8 |-> 0]
  /\ sw = "poll" /\ swWait = 0
  /\ bits = <<>> /\ bitTime = 1 /\ left = 1
  /\ due = <<>> /\ erred = FALSE /\ glitched = FALSE

Spec == Init /\ [][Clock]_vars

\* The clock runs, and a started frame is sent without pauses: RemoteRuns and the
\* driver take no choice from the clock.
FairSpec == Spec /\ WF_vars(Clock)

-----------------------------------------------------------------------------
(* Properties. *)

\* What goes into the receive FIFO is a byte that was put on the line, whole and in
\* order: each bit is sampled inside its own period, for every bit time in use.
BytesExact == [][wr_en' => due # <<>> /\ rx_byte' = Head(due)]_vars

\* A byte that begins finds the one before it already in the FIFO, so none is lost:
\* not by the receiver's handshake with u_recv, not by a transmit pulse that comes
\* while the transmitter is busy.
NoByteLost == Len(due) <= 1

\* Pulses of one or two clocks on an idle line are not seen.
GlitchFiltered == recv_error => glitched

\* The error bit of a FIFO word says whether a reception failed since the word
\* before: no error goes unreported, none is reported twice.
ErrorsCounted == wr_en => (recv_error <=> erred)

\* A byte that begins on the line reaches the FIFO.
BytesArrive == due # <<>> ~> due = <<>>
=============================================================================
