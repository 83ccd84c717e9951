--------------------------- MODULE SdDataHostProofs ---------------------------
(***************************************************************************)
(* The data host keeps its promises, and implements DataService, for every *)
(* value of its parameters, as long as software writes blocks on four      *)
(* lanes only: on one lane the host counts six positions more than the     *)
(* block has (PayloadSize), which a read does not mind and a write does.   *)
(***************************************************************************)
EXTENDS SdDataHostRefines, TLAPS

-----------------------------------------------------------------------------
(* The inductive invariant, one conjunct for each state of the machine. *)

\* No block is written on one lane (the drivers start no write at all).
WideWrites == <<1, FALSE>> \notin Transfers

Spans == [lo : Int, hi : Int]

TypeInputs ==
  start \in 0 .. 3 /\ bus_4bit \in BOOLEAN /\ blksize \in BlkSizes /\ timeout_i \in Timeouts

TypeNumbers ==
  /\ state \in States
  /\ transf_cnt \in Nat /\ data_cycles \in Int /\ data_index \in 0 .. 31
  /\ crc_in \in Int /\ crc_c \in Nat /\ crc_status \in Nat /\ wait_reg_o \in Nat
  /\ DAT_dat_o \in Int /\ DAT_dat_reg \in Int /\ popped \in Nat

TypeSpans ==
  /\ data_out \in Spans /\ data_out_o \in Spans /\ crc_din \in Spans /\ crc_s \in Spans
  /\ crc_calc \in Spans /\ sent \in Spans /\ received \in Spans

TypeFlags ==
  /\ bus_4bit_reg \in BOOLEAN /\ crc_rst \in BOOLEAN /\ busy_int \in BOOLEAN
  /\ rd \in BOOLEAN /\ we \in BOOLEAN /\ we_o \in BOOLEAN
  /\ finish_o \in BOOLEAN /\ DAT_oe_o \in BOOLEAN

TypeCard ==
  /\ card \in {"quiet", "waiting", "sending", "status", "busy", "mute"}
  /\ cardCnt \in Nat /\ cardGood \in BOOLEAN

TypeOK == TypeInputs /\ TypeNumbers /\ TypeSpans /\ TypeFlags /\ TypeCard

\* Software starts what the bus offers, and aborts only when the card is silent.
InvStart ==
  /\ start \in {1, 2} => <<start, bus_4bit>> \in Transfers
  /\ start = 3 => card = "mute" \/ (card = "quiet" /\ ~AnswerDue)

\* When the card may talk.
InvCard ==
  /\ card = "waiting" => state = "READ_WAIT"
  /\ card = "sending" => state \in {"READ_WAIT", "READ_DAT"}
  /\ card = "status" => state \in {"WRITE_DAT", "WRITE_CRC"}
  /\ card = "busy" => state \in {"WRITE_CRC", "WRITE_BUSY"}
  /\ card = "mute" => state \in {"WRITE_DAT", "IDLE"}

Moving == state \in {"WRITE_DAT", "WRITE_CRC", "WRITE_BUSY", "READ_WAIT", "READ_DAT"}

\* The registers that a transfer keeps.
InvTransfer ==
  Moving =>
    /\ data_cycles = DataCycles(blksize, bus_4bit_reg)
    /\ state \in {"WRITE_DAT", "WRITE_CRC", "WRITE_BUSY"} => bus_4bit_reg /\ ~we
    /\ state \in {"READ_WAIT", "READ_DAT"} => ~DAT_oe_o /\ ~rd /\ sent = Empty

\* How far a write is that the card has not left waiting: after t edges of WRITE_DAT
\* the start bit, t - 1 positions of data, ... are out.
Sent(t) ==
  /\ sent = (IF t = 0 THEN Empty ELSE Span(0, IF t < payload + 18 THEN t - 1 ELSE payload + 17))
  /\ crc_c = (IF t <= payload + 1 THEN 16 ELSE IF t <= payload + 17 THEN payload + 17 - t ELSE 0)
  /\ crc_calc = First(IF t = 0 THEN 0 ELSE IF t <= payload THEN t - 1 ELSE payload)
  /\ t = 0 => popped = 0
  /\ t \in 1 .. payload => 8 * (popped - 1) + place = t - 1 /\ popped >= 1
  /\ t > payload => popped = Words

InvWriteDat ==
  state = "WRITE_DAT" =>
    LET t == transf_cnt
    IN  /\ crc_status = 0 /\ t < COUNT_MOD
        /\ IF card = "mute" THEN crc_c = 0 ELSE Sent(t) /\ t <= payload + 23 + MaxAck
        /\ card # "mute" /\ t = 0 => crc_in = Off
        /\ t >= 1 => ~crc_rst
        /\ t >= payload + 2 => crc_in = Off
        /\ t \in 1 .. payload + 19 => DAT_oe_o
        /\ t >= payload + 20 => ~DAT_oe_o
        /\ t >= payload + 18 => DAT_dat_o = payload + 17
        /\ t >= payload + 19 => ~rd
        /\ t \in {payload + 19, payload + 20} => DAT_dat_reg = payload + 17
        /\ t >= payload + 21 =>
             DAT_dat_reg = (IF card = "status" /\ cardCnt = 1 THEN 0 ELSE High)
        /\ card = "status" => cardCnt \in {0, 1} /\ t >= payload + 21 + cardCnt
                                /\ t <= payload + 21 + MaxAck + cardCnt
        /\ card = "quiet" => t <= payload + 20 + MaxAck

\* A block that is out, as the card acknowledges it.
Out == sent = Span(0, payload + 17) /\ popped = Words /\ ~rd /\ ~DAT_oe_o /\ crc_c = 0

InvWriteCrc ==
  state = "WRITE_CRC" =>
    /\ Out
    /\ crc_status \in 0 .. 3
    /\ crc_s = Span(0, crc_status)
    /\ DAT_dat_reg = crc_status + 1
    /\ IF crc_status < 3 THEN card = "status" /\ cardCnt = crc_status + 2
                         ELSE card \in {"quiet", "busy"}

InvWriteBusy ==
  state = "WRITE_BUSY" =>
    /\ Out
    /\ crc_s = Span(0, 4)
    /\ card \in {"quiet", "busy"}
    /\ card = "busy" => busy_int /\ DAT_dat_reg = Busy

InvReadWait ==
  state = "READ_WAIT" =>
    LET w == wait_reg_o
    IN  /\ received = Empty /\ crc_calc = Empty /\ crc_din = Empty /\ ~we
        /\ card \in {"quiet", "waiting"} /\ w > 0 => DAT_dat_reg = High
        /\ card = "waiting" => cardCnt = w + 1 /\ cardCnt <= MaxDelay
        /\ card = "sending" =>
             /\ cardCnt \in {0, 1} /\ w >= 2 + cardCnt /\ w <= MaxDelay + cardCnt
             /\ DAT_dat_reg = (IF cardCnt = 0 THEN High ELSE 0)

\* The last position of data taken, and how much of it is in whole words.
Taken   == IF transf_cnt < payload THEN transf_cnt ELSE payload
Whole   == Taken - place

\* A word that is full is pushed by the next edge.
InvWords ==
  state = "READ_DAT" =>
    /\ data_index = Taken % 32
    /\ we <=> transf_cnt > 0 /\ transf_cnt <= payload /\ place = 0
    /\ received = First(IF we THEN Whole - perWord ELSE Whole)
    /\ transf_cnt <= payload =>
         /\ place > 0 => data_out = Span(Whole + 1, transf_cnt)
         /\ we => data_out = Span(Whole - perWord + 1, Whole)

InvReadDat ==
  state = "READ_DAT" =>
    LET t == transf_cnt
    IN  /\ t <= payload + 16
        /\ crc_c = (IF t <= payload THEN 15 ELSE IF t = payload + 16 THEN 31 ELSE payload + 15 - t)
        /\ crc_calc = First(Taken)
        /\ ~crc_rst /\ (t > payload \/ t = 0 => crc_in = Off)
        /\ bus_4bit_reg => crc_din = (IF t <= payload THEN Empty ELSE Span(payload + 1, t))
        /\ t <= BlockSize + 16 => DAT_dat_reg = t + 1
        /\ IF t <= BlockSize + 15 THEN card = "sending" /\ cardCnt = t + 2 ELSE card = "quiet"

InvFinish ==
  /\ finish_o => state \in {"IDLE", "FINISH"}
  /\ state = "FINISH" => ~we /\ ~rd /\ ~DAT_oe_o /\ outcome \in {"moved", "timeout"}

Invs == /\ InvStart /\ InvCard /\ InvTransfer /\ InvWriteDat /\ InvWriteCrc /\ InvWriteBusy
        /\ InvReadWait /\ InvWords /\ InvReadDat /\ InvFinish

IInv == TypeOK /\ Invs

-----------------------------------------------------------------------------
(* Spans, and the numbers the registers are compared with. *)

\* The operators on spans return spans.
LEMMA SpanTypes ==
  /\ Empty \in Spans /\ Garbled \in Spans
  /\ \A a, b \in Int : Span(a, b) \in Spans
  /\ \A s, t \in Spans : Join(s, t) \in Spans
  /\ \A s \in Spans, p \in Int : Shift(s, p) \in Spans
<1>1. Empty \in Spans /\ Garbled \in Spans /\ \A a, b \in Int : Span(a, b) \in Spans
  BY DEF Spans, Empty, Garbled, Span
<1>2. ASSUME NEW s \in Spans, NEW t \in Spans
      PROVE  Join(s, t) \in Spans
  <2>1. s.lo \in Int /\ t.hi \in Int
    BY DEF Spans
  <2>2. Span(s.lo, t.hi) \in Spans
    BY <1>1, <2>1
  <2> QED
    BY <1>1, <2>2, Zenon DEF Join
<1>3. \A s \in Spans, p \in Int : Shift(s, p) \in Spans
  BY <1>1, <1>2 DEF Shift
<1> QED
  BY <1>1, <1>2, <1>3

\* A register that took in the first n positions holds the first n + 1 after the next.
LEMMA ShiftFirst ==
  ASSUME NEW n \in Nat
  PROVE  Shift(First(n), n + 1) = First(n + 1)
BY DEF Shift, Join, First, Span, Empty, Garbled

\* The same for a span that begins at position a.
LEMMA ShiftSpan ==
  ASSUME NEW a \in Nat, NEW b \in Nat, b >= a
  PROVE  /\ Shift(Empty, a) = Span(a, a)
         /\ Shift(Span(a, b), b + 1) = Span(a, b + 1)
BY DEF Shift, Join, Span, Empty, Garbled

\* A word laid after the first n positions.
LEMMA JoinFirst ==
  ASSUME NEW n \in Nat, NEW m \in Nat, m > n
  PROVE  Join(First(n), Span(n + 1, m)) = First(m)
BY DEF Join, First, Span, Empty, Garbled

\* The sizes of a block on the lanes in use.
LEMMA Sizes ==
  ASSUME TypeInputs, bus_4bit_reg \in BOOLEAN
  PROVE  /\ blksize \in Nat /\ blksize >= 1 /\ MaxAck \in Nat
         /\ COUNT_MOD \in Nat /\ 8 * blksize + 26 + MaxAck < COUNT_MOD
         /\ timeout_i \in Nat /\ MaxDelay \in Nat /\ MinDelay \in Nat
         /\ MinDelay >= 2 /\ MaxDelay < timeout_i
         /\ BlockSize = (IF bus_4bit_reg THEN 2 * blksize ELSE 8 * blksize)
         /\ BlockSize \in Nat /\ BlockSize >= 2
BY DataHostAssumption DEF TypeInputs, BlockSize

\* data_cycles counts the payload and two: on one lane six positions more than the block's.
LEMMA PayloadSize ==
  ASSUME TypeInputs, bus_4bit_reg \in BOOLEAN,
         data_cycles = DataCycles(blksize, bus_4bit_reg)
  PROVE  /\ payload \in Nat /\ payload >= 2 /\ data_cycles = payload + 2
         /\ bus_4bit_reg => payload = 2 * blksize
         /\ ~bus_4bit_reg => payload = 8 * blksize + 6
         /\ payload >= BlockSize /\ payload <= BlockSize + 6
         /\ payload + 17 < COUNT_MOD /\ (bus_4bit_reg => payload + 24 + MaxAck < COUNT_MOD)
BY Sizes DEF payload, DataCycles

\* The place in the word, and the next one.
LEMMA Places ==
  ASSUME data_index \in 0 .. 31
  PROVE  /\ bus_4bit_reg => perWord = 8 /\ place = data_index % 8 /\ place \in 0 .. 7
         /\ ~bus_4bit_reg => perWord = 32 /\ place = data_index /\ place \in 0 .. 31
BY DEF perWord, place

\* A lane that is pulled up is never taken for a start bit, nor is the stop bit.
LEMMA LevelFacts ==
  /\ Levels(0) = {0} /\ Levels(Busy) = {0} /\ Levels(High) = {1}
  /\ payload \in Nat => Levels(payload + 17) = {1}
  /\ \A p : Levels(p) \subseteq {0, 1}
BY DEF Levels, Busy, High

-----------------------------------------------------------------------------
(* Type correctness of a clock edge. *)

\* What the data lanes carry is a position or a level.
LEMMA LanesType ==
  ASSUME TypeNumbers, TypeCard, TypeFlags
  PROVE  DAT_dat_i \in Int
BY DEF TypeNumbers, TypeCard, TypeFlags, DAT_dat_i, Busy, High

\* Every move of the card keeps its type.
LEMMA CardTypes ==
  ASSUME TypeCard, Card
  PROVE  TypeCard'
<1> USE DEF TypeCard, cardVars
<1>1. CASE CardIdle
  BY <1>1 DEF CardIdle
<1>2. CASE CardAsked
  BY <1>2 DEF CardAsked
<1>3. CASE CardSends
  BY <1>3 DEF CardSends
<1>4. CASE CardAnswers
  BY <1>4 DEF CardAnswers
<1> QED
  BY <1>1, <1>2, <1>3, <1>4 DEF Card

\* The falling edge takes whole words and positions.
LEMMA EdgeTypes ==
  ASSUME TypeSpans, TypeNumbers, FallingEdge, crc_in' \in Int
  PROVE  popped' \in Nat /\ crc_calc' \in Spans
<1>1. popped' \in Nat
  BY DEF TypeNumbers, FallingEdge
<1>2. crc_calc' \in Spans
  BY SpanTypes DEF TypeSpans, FallingEdge
<1> QED
  BY <1>1, <1>2

\* The word handed to the FIFO is a span, and so is what the FIFO has received.
LEMMA ReceivedType ==
  ASSUME TypeSpans, FallingEdge, PassWord
  PROVE  received' \in Spans /\ data_out_o' \in Spans
BY SpanTypes DEF TypeSpans, FallingEdge, PassWord

\* Where the machine goes.
LEMMA GotoTypes ==
  ASSUME NEW s \in States, Goto(s)
  PROVE  state' \in States
BY DEF Goto, States

\* Types across an edge of IDLE.
LEMMA TypesIdle ==
  ASSUME TypeOK, Idle
  PROVE  TypeNumbers' /\ TypeSpans' /\ TypeFlags'
<1>0. TypeNumbers /\ TypeSpans /\ TypeFlags /\ TypeCard /\ TypeInputs /\ DAT_dat_i \in Int
  BY LanesType DEF TypeOK
<1>1. TypeNumbers'
  <2>1. state' \in States
    BY DEF Idle, Goto, States
  <2>2. data_cycles' \in Int
    BY <1>0, DataHostAssumption DEF Idle, DataCycles, TypeInputs
  <2> QED
    BY <1>0, <2>1, <2>2 DEF Idle, EveryEdge, TypeNumbers, Off, High
<1>2. TypeSpans'
  BY <1>0, SpanTypes, Zenon DEF Idle, TypeSpans
<1>3. TypeFlags'
  BY <1>0, Zenon DEF Idle, EveryEdge, TypeFlags, TypeInputs
<1> QED
  BY <1>1, <1>2, <1>3

\* Types across an edge of WRITE_DAT.
LEMMA TypesWriteDat ==
  ASSUME TypeOK, WriteDat
  PROVE  TypeNumbers' /\ TypeSpans' /\ TypeFlags'
<1>0. TypeNumbers /\ TypeSpans /\ TypeFlags /\ TypeCard /\ TypeInputs /\ DAT_dat_i \in Int
  BY LanesType DEF TypeOK
<1>1. /\ transf_cnt' = (transf_cnt + 1) % COUNT_MOD /\ COUNT_MOD \in Nat /\ COUNT_MOD > 0
      /\ DAT_dat_reg' = DAT_dat_i
  BY <1>0, Sizes DEF WriteDat, EveryEdge, TypeFlags
<1>2. transf_cnt' \in Nat
  BY <1>0, <1>1 DEF TypeNumbers
<1>3. FromFifo \in Int
  <2>1. popped \in Nat /\ place \in Int /\ perWord \in {8, 32}
    BY <1>0, Places DEF TypeNumbers, TypeFlags
  <2>2. CASE perWord = 8
    BY <2>1, <2>2 DEF FromFifo
  <2>3. CASE perWord = 32
    BY <2>1, <2>3 DEF FromFifo
  <2> QED
    BY <2>1, <2>2, <2>3
<1>4. /\ state' \in States /\ data_index' \in 0 .. 31 /\ crc_in' \in Int /\ crc_c' \in Nat
      /\ DAT_dat_o' \in Int
  <2>1. CASE SendStart
    BY <1>0, <2>1 DEF SendStart, Goto, States, TypeNumbers
  <2>2. CASE SendBlock
    <3>1. state' \in States
      BY <2>2 DEF SendBlock, Goto, States
    <3>2. data_index' \in 0 .. 31
      BY <1>0, <2>2 DEF SendBlock, TypeNumbers
    <3>3. payload \in Int /\ Wrong \in Int /\ Off \in Int
      BY <1>0 DEF payload, TypeNumbers, Wrong, Off
    <3>4. crc_in' \in Int /\ crc_c' \in Nat /\ DAT_dat_o' \in Int
      BY <1>0, <1>3, <2>2, <3>3 DEF SendBlock, TypeNumbers
    <3> QED
      BY <3>1, <3>2, <3>4
  <2>3. CASE AwaitStatus
    <3>1. state' \in States
      BY <2>3 DEF AwaitStatus, Goto, States
    <3> QED
      BY <1>0, <2>3, <3>1, Zenon DEF AwaitStatus, TypeNumbers, crcVars
  <2> QED
    BY <2>1, <2>2, <2>3 DEF WriteDat
<1>5. popped' \in Nat /\ crc_calc' \in Spans
  BY <1>0, <1>4, EdgeTypes DEF WriteDat
<1>6. received' \in Spans /\ data_out_o' \in Spans
  BY <1>0, ReceivedType DEF WriteDat
<1>7. sent' \in Spans /\ crc_s' \in Spans
  <2>1. CASE SendStart
    BY <1>0, <2>1, SpanTypes DEF SendStart, TypeSpans
  <2>2. CASE SendBlock
    BY <1>0, <1>4, <2>2, SpanTypes DEF SendBlock, TypeSpans
  <2>3. CASE AwaitStatus
    BY <1>0, <2>3, SpanTypes DEF AwaitStatus, TypeSpans, TypeNumbers
  <2> QED
    BY <2>1, <2>2, <2>3 DEF WriteDat
<1>8. rd' \in BOOLEAN /\ crc_rst' \in BOOLEAN /\ DAT_oe_o' \in BOOLEAN
  <2>1. DAT_oe_o' \in BOOLEAN
    BY <1>0 DEF WriteDat, Drives, TypeFlags
  <2>2. Fetches \in BOOLEAN
    BY DEF Fetches
  <2>3. CASE SendStart
    BY <2>1, <2>3, Zenon DEF SendStart
  <2>4. CASE SendBlock
    BY <1>0, <2>1, <2>2, <2>4, Zenon DEF SendBlock, TypeFlags
  <2>5. CASE AwaitStatus
    BY <1>0, <2>1, <2>5, Zenon DEF AwaitStatus, TypeFlags
  <2> QED
    BY <2>3, <2>4, <2>5 DEF WriteDat
<1>9. /\ UNCHANGED <<data_cycles, bus_4bit_reg, crc_din, crc_status, busy_int, wait_reg_o,
                     we, data_out, finish_o>>
      /\ we_o' = we
  BY DEF WriteDat, EveryEdge
<1>10. TypeNumbers'
  BY <1>0, <1>1, <1>2, <1>4, <1>5, <1>9, Zenon DEF TypeNumbers
<1>11. TypeSpans'
  BY <1>0, <1>5, <1>6, <1>7, <1>9, Zenon DEF TypeSpans
<1>12. TypeFlags'
  BY <1>0, <1>8, <1>9, Zenon DEF TypeFlags
<1> QED
  BY <1>10, <1>11, <1>12

\* Types across an edge of WRITE_CRC.
LEMMA TypesWriteCrc ==
  ASSUME TypeOK, WriteCrc
  PROVE  TypeNumbers' /\ TypeSpans' /\ TypeFlags'
<1>0. TypeNumbers /\ TypeSpans /\ TypeFlags /\ TypeCard /\ TypeInputs /\ DAT_dat_i \in Int
  BY LanesType DEF TypeOK
<1>1. state' \in States /\ DAT_dat_reg' = DAT_dat_i /\ we_o' = we
  BY DEF WriteCrc, EveryEdge, Goto, States
<1>2. crc_status' \in Nat
  BY <1>0 DEF WriteCrc, TypeNumbers
<1>3. crc_in' \in Int
  BY <1>0 DEF WriteCrc, TypeNumbers, crcVars
<1>4. popped' \in Nat /\ crc_calc' \in Spans
  BY <1>0, <1>3, EdgeTypes DEF WriteCrc
<1>5. received' \in Spans /\ data_out_o' \in Spans
  BY <1>0, ReceivedType DEF WriteCrc
<1>6. TypeNumbers'
  BY <1>0, <1>1, <1>2, <1>4 DEF WriteCrc, TypeNumbers, crcVars, padVars
<1>7. TypeSpans'
  <2>1. crc_s' \in Spans
    BY <1>0, SpanTypes DEF WriteCrc, TypeSpans, TypeNumbers
  <2> QED
    BY <1>0, <1>4, <1>5, <2>1, Zenon DEF WriteCrc, TypeSpans, crcVars
<1>8. TypeFlags'
  BY <1>0, <1>1, Zenon DEF WriteCrc, TypeFlags, crcVars, padVars
<1> QED
  BY <1>6, <1>7, <1>8

\* Types across an edge of WRITE_BUSY.
LEMMA TypesWriteBusy ==
  ASSUME TypeOK, WriteBusy
  PROVE  TypeNumbers' /\ TypeSpans' /\ TypeFlags'
<1>0. TypeNumbers /\ TypeSpans /\ TypeFlags /\ TypeCard /\ TypeInputs /\ DAT_dat_i \in Int
  BY LanesType DEF TypeOK
<1>1. state' \in States /\ DAT_dat_reg' = DAT_dat_i /\ we_o' = we
  BY DEF WriteBusy, EveryEdge, Goto, States
<1>2. busy_int' \in BOOLEAN
  BY <1>0 DEF WriteBusy
<1>3. crc_in' \in Int
  BY <1>0 DEF WriteBusy, TypeNumbers, crcVars
<1>4. popped' \in Nat /\ crc_calc' \in Spans
  BY <1>0, <1>3, EdgeTypes DEF WriteBusy
<1>5. received' \in Spans /\ data_out_o' \in Spans
  BY <1>0, ReceivedType DEF WriteBusy
<1>6. TypeNumbers'
  BY <1>0, <1>1, <1>2, <1>4 DEF WriteBusy, TypeNumbers, crcVars, padVars
<1>7. TypeSpans'
  BY <1>0, <1>4, <1>5, SpanTypes, Zenon DEF WriteBusy, TypeSpans, TypeNumbers, crcVars
<1>8. TypeFlags'
  BY <1>0, <1>1, <1>2, Zenon DEF WriteBusy, TypeFlags, crcVars, padVars
<1> QED
  BY <1>6, <1>7, <1>8

\* Types across an edge of READ_WAIT.
LEMMA TypesReadWait ==
  ASSUME TypeOK, ReadWait
  PROVE  TypeNumbers' /\ TypeSpans' /\ TypeFlags'
<1>0. TypeNumbers /\ TypeSpans /\ TypeFlags /\ TypeCard /\ TypeInputs /\ DAT_dat_i \in Int
  BY LanesType DEF TypeOK
<1>1. state' \in States /\ DAT_dat_reg' = DAT_dat_i /\ we_o' = we
  BY DEF ReadWait, EveryEdge, Goto, States
<1>2. wait_reg_o' \in Nat
  BY <1>0 DEF ReadWait, Waited, TypeNumbers
<1>3. crc_in' \in Int
  BY DEF ReadWait, Off
<1>4. popped' \in Nat /\ crc_calc' \in Spans
  BY <1>0, <1>3, EdgeTypes DEF ReadWait
<1>5. received' \in Spans /\ data_out_o' \in Spans
  BY <1>0, ReceivedType DEF ReadWait
<1>6. TypeNumbers'
  <2>1. /\ crc_c' = 15 /\ transf_cnt' = 0 /\ data_index' = 0
        /\ data_cycles' = data_cycles /\ crc_status' = crc_status /\ DAT_dat_o' = DAT_dat_o
    BY DEF ReadWait
  <2>2. crc_c' \in Nat /\ transf_cnt' \in Nat /\ data_index' \in 0 .. 31
    BY <2>1
  <2> QED
    BY <1>0, <1>1, <1>2, <1>3, <1>4, <2>1, <2>2, Zenon DEF TypeNumbers
<1>7. TypeSpans'
  BY <1>0, <1>4, <1>5, SpanTypes, Zenon DEF ReadWait, TypeSpans, TypeNumbers, crcVars
<1>8. TypeFlags'
  BY <1>0, <1>1, Zenon DEF ReadWait, TypeFlags, crcVars, padVars
<1> QED
  BY <1>6, <1>7, <1>8

\* Types across an edge of FINISH.
LEMMA TypesFinish ==
  ASSUME TypeOK, Finish
  PROVE  TypeNumbers' /\ TypeSpans' /\ TypeFlags'
<1>0. TypeNumbers /\ TypeSpans /\ TypeFlags /\ TypeCard /\ TypeInputs /\ DAT_dat_i \in Int
  BY LanesType DEF TypeOK
<1>1. state' \in States /\ DAT_dat_reg' = DAT_dat_i /\ we_o' = we
  BY DEF Finish, EveryEdge, Goto, States
<1>3. crc_in' \in Int
  BY <1>0 DEF Finish, TypeNumbers, crcVars
<1>4. popped' \in Nat /\ crc_calc' \in Spans
  BY <1>0, <1>3, EdgeTypes DEF Finish
<1>5. received' \in Spans /\ data_out_o' \in Spans
  BY <1>0, ReceivedType DEF Finish
<1>6. TypeNumbers'
  BY <1>0, <1>1, <1>4 DEF Finish, TypeNumbers, crcVars, padVars
<1>7. TypeSpans'
  BY <1>0, <1>4, <1>5, SpanTypes, Zenon DEF Finish, TypeSpans, TypeNumbers, crcVars
<1>8. TypeFlags'
  BY <1>0, <1>1, Zenon DEF Finish, TypeFlags, crcVars, padVars
<1> QED
  BY <1>6, <1>7, <1>8

\* Types across an edge of READ_DAT.
LEMMA TypesReadDat ==
  ASSUME TypeOK, ReadDat
  PROVE  TypeNumbers' /\ TypeSpans' /\ TypeFlags'
<1>0. TypeNumbers /\ TypeSpans /\ TypeFlags /\ TypeCard /\ TypeInputs /\ DAT_dat_i \in Int
  BY LanesType DEF TypeOK
<1>1. DAT_dat_reg' = DAT_dat_i /\ we_o' = we /\ COUNT_MOD \in Nat /\ COUNT_MOD > 0
  BY <1>0, Sizes DEF ReadDat, EveryEdge, TypeFlags
<1>2. state' \in States
  BY DEF ReadDat, ReadData, ReadCrc, ReadVerdict, Goto, States
<1>3. transf_cnt' \in Nat /\ data_index' \in 0 .. 31 /\ crc_in' \in Int /\ crc_c' \in Nat
  <2>1. CASE ReadData
    BY <1>0, <1>1, <2>1 DEF ReadData, TypeNumbers
  <2>2. CASE ReadCrc
    BY <1>0, <1>1, <2>2 DEF ReadCrc, TypeNumbers, Off
  <2>3. CASE ReadVerdict
    BY <1>0, <2>3 DEF ReadVerdict, TypeNumbers
  <2> QED
    BY <2>1, <2>2, <2>3 DEF ReadDat
<1>4. popped' \in Nat /\ crc_calc' \in Spans
  BY <1>0, <1>3, EdgeTypes DEF ReadDat
<1>5. received' \in Spans /\ data_out_o' \in Spans
  BY <1>0, ReceivedType DEF ReadDat
<1>6. data_out' \in Spans /\ crc_din' \in Spans /\ we' \in BOOLEAN
  <2>1. CASE ReadData
    BY <1>0, <2>1, SpanTypes DEF ReadData, WordFull, TypeNumbers, TypeSpans
  <2>2. CASE ReadCrc
    BY <1>0, <2>2, SpanTypes DEF ReadCrc, TypeNumbers, TypeSpans
  <2>3. CASE ReadVerdict
    BY <1>0, <2>3 DEF ReadVerdict, TypeSpans
  <2> QED
    BY <2>1, <2>2, <2>3 DEF ReadDat
<1>7. TypeNumbers'
  BY <1>0, <1>1, <1>2, <1>3, <1>4 DEF ReadDat, TypeNumbers, padVars
<1>8. TypeSpans'
  BY <1>0, <1>4, <1>5, <1>6, Zenon DEF ReadDat, TypeSpans
<1>9. TypeFlags'
  BY <1>0, <1>1, <1>6, Zenon DEF ReadDat, TypeFlags, padVars
<1> QED
  BY <1>7, <1>8, <1>9

\* Types across any edge of the clock.
LEMMA ClockTypes ==
  ASSUME TypeOK, Clock, UNCHANGED inputVars
  PROVE  TypeOK'
<1>1. TypeInputs'
  BY DEF TypeOK, TypeInputs, inputVars
<1>2. TypeCard'
  BY CardTypes DEF TypeOK, Clock
<1>3. TypeNumbers' /\ TypeSpans' /\ TypeFlags'
  BY TypesIdle, TypesWriteDat, TypesWriteCrc, TypesWriteBusy, TypesReadWait, TypesReadDat,
     TypesFinish, Zenon DEF Clock, Host
<1> QED
  BY <1>1, <1>2, <1>3 DEF TypeOK

-----------------------------------------------------------------------------
(* The card's part of a clock. *)

\* What the card may do next, by what it is doing.
LEMMA CardMoves ==
  ASSUME Card
  PROVE  /\ card = "quiet" =>
              \/ /\ card' = "quiet" /\ cardCnt' = cardCnt /\ cardGood' = cardGood
                 /\ state = "WRITE_DAT" => ~(transf_cnt >= StatusDue + MaxAck)
              \/ state = "IDLE" /\ start = 2 /\ card' = "waiting" /\ cardCnt' = 1
              \/ /\ state = "WRITE_DAT" /\ transf_cnt >= StatusDue
                 /\ card' \in {"status", "mute"} /\ cardCnt' = 0
         /\ card = "waiting" =>
              \/ cardCnt < MaxDelay /\ card' = "waiting" /\ cardCnt' = cardCnt + 1
              \/ cardCnt >= MinDelay /\ card' = "sending" /\ cardCnt' = 0
         /\ card = "sending" =>
              /\ cardGood' = cardGood
              /\ \/ cardCnt < BlockSize + 17 /\ card' = "sending" /\ cardCnt' = cardCnt + 1
                 \/ cardCnt >= BlockSize + 17 /\ card' = "quiet" /\ cardCnt' = 0
         /\ card = "status" =>
              \/ cardCnt < 4 /\ card' = "status" /\ cardCnt' = cardCnt + 1
              \/ cardCnt >= 4 /\ card' \in {"quiet", "busy"}
         /\ card = "busy" => card' \in {"quiet", "busy"}
         /\ card = "mute" => card' = (IF state = "IDLE" THEN "quiet" ELSE "mute")
<1> USE DEF cardVars
<1>1. CASE CardIdle
  BY <1>1 DEF CardIdle
<1>2. CASE CardAsked
  BY <1>2 DEF CardAsked
<1>3. CASE CardSends
  BY <1>3 DEF CardSends
<1>4. CASE CardAnswers
  BY <1>4 DEF CardAnswers, AnswerDue
<1> QED
  BY <1>1, <1>2, <1>3, <1>4 DEF Card

\* An abort is followed by IDLE, and finds no card talking.
LEMMA Aborts ==
  ASSUME IInv, Host, Card, UNCHANGED inputVars
  PROVE  /\ InvStart'
         /\ start = 3 => state' = "IDLE" /\ card' \in {"quiet", "mute"}
<1>1. start' = start /\ bus_4bit' = bus_4bit
  BY DEF inputVars
<1>2. start = 3 => state' = "IDLE"
  <2> SUFFICES ASSUME start = 3 PROVE state' = "IDLE"
    OBVIOUS
  <2>1. CASE Idle
    BY <2>1 DEF Idle, Goto
  <2>2. CASE WriteDat
    BY <2>2 DEF WriteDat, SendStart, SendBlock, AwaitStatus, Goto
  <2>3. CASE WriteCrc
    BY <2>3 DEF WriteCrc, Goto
  <2>4. CASE WriteBusy
    BY <2>4 DEF WriteBusy, Goto
  <2>5. CASE ReadWait
    BY <2>5 DEF ReadWait, Goto
  <2>6. CASE ReadDat
    BY <2>6 DEF ReadDat, ReadData, ReadCrc, ReadVerdict, Goto
  <2>7. CASE Finish
    BY <2>7 DEF Finish, Goto
  <2> QED
    BY <2>1, <2>2, <2>3, <2>4, <2>5, <2>6, <2>7 DEF Host
<1>3. start = 3 => card' \in {"quiet", "mute"}
  BY CardMoves DEF IInv, Invs, InvStart, AnswerDue
<1> QED
  BY <1>1, <1>2, <1>3 DEF IInv, Invs, InvStart, AnswerDue

\* In IDLE nothing is promised but that the card is silent.
LEMMA InIdle ==
  ASSUME state' = "IDLE", card' \in {"quiet", "mute"}, InvStart'
  PROVE  Invs'
BY DEF Invs, InvStart, InvCard, InvTransfer, Moving, InvWriteDat, InvWriteCrc, InvWriteBusy,
       InvReadWait, InvWords, InvReadDat, InvFinish

\* IDLE: the start of a transfer.
LEMMA FromIdle ==
  ASSUME IInv, WideWrites, Idle, Card, UNCHANGED inputVars
  PROVE  Invs'
<1>1. /\ TypeInputs /\ TypeCard /\ state = "IDLE" /\ card \in {"quiet", "mute"}
      /\ start' = start /\ bus_4bit' = bus_4bit /\ blksize' = blksize
  BY DEF IInv, TypeOK, TypeCard, Invs, InvCard, Idle, inputVars
<1>2. InvStart' /\ (start = 3 => state' = "IDLE" /\ card' \in {"quiet", "mute"})
  BY Aborts DEF Host
<1>3. \/ card' = "quiet"
      \/ start = 2 /\ card' = "waiting" /\ cardCnt' = 1
  BY <1>1, CardMoves
<1>4. /\ state' = (IF start = 1 THEN "WRITE_DAT" ELSE IF start = 2 THEN "READ_WAIT" ELSE "IDLE")
      /\ DAT_oe_o' = FALSE /\ crc_in' = Off /\ crc_rst' = TRUE /\ crc_c' = 16 /\ crc_din' = Empty
      /\ transf_cnt' = 0 /\ crc_status' = 0 /\ we' = FALSE /\ rd' = FALSE /\ data_index' = 0
      /\ data_cycles' = DataCycles(blksize, bus_4bit) /\ bus_4bit_reg' = bus_4bit
      /\ wait_reg_o' = 0 /\ finish_o' = FALSE
      /\ crc_calc' = Empty /\ popped' = 0 /\ received' = Empty /\ sent' = Empty
  BY DEF Idle, Goto
<1>5. data_cycles' - 2 \in Nat /\ data_cycles' - 2 >= 2
  BY <1>1, <1>4, DataHostAssumption DEF DataCycles, TypeInputs
<1>p. PICK P \in Nat : P = data_cycles' - 2 /\ P >= 2
  BY <1>5
<1>q. payload' = P
  BY <1>p DEF payload
<1>6. CASE start = 1
  <2>1. state' = "WRITE_DAT" /\ card' = "quiet" /\ bus_4bit
    <3>1. <<1, bus_4bit>> \in Transfers
      BY <1>6 DEF IInv, Invs, InvStart
    <3>2. bus_4bit
      BY <1>1, <3>1 DEF WideWrites, TypeInputs
    <3> QED
      BY <1>3, <1>4, <1>6, <3>2
  <2>2. InvTransfer'
    BY <1>1, <1>4, <2>1 DEF InvTransfer
  <2>3. Sent(0)'
    <3>1. 0 <= P + 1 /\ 0 \notin 1 .. P /\ ~(0 > P) /\ First(0) = Empty
      BY <1>p DEF First
    <3> QED
      BY <1>4, <1>q, <3>1, Zenon DEF Sent
  <2>4. InvWriteDat'
    <3>1. Sent(transf_cnt)'
      BY <1>4, <2>3 DEF Sent
    <3>2. MaxAck \in Nat
      BY DataHostAssumption
    <3>3. 0 <= P + 23 + MaxAck /\ 0 <= P + 20 + MaxAck /\ 0 < COUNT_MOD
      BY <1>1, <1>p, <3>2, DataHostAssumption DEF TypeInputs
    <3>4. ~(transf_cnt' >= 1) /\ transf_cnt' \notin 1 .. P + 19
      BY <1>4
    <3>5. ~(0 >= P + 2) /\ ~(0 >= P + 20) /\ ~(0 >= P + 18)
          /\ ~(0 >= P + 19) /\ 0 \notin {P + 19, P + 20} /\ ~(0 >= P + 21)
      BY <1>p
    <3> QED
      BY <1>4, <1>q, <2>1, <3>1, <3>3, <3>4, <3>5 DEF InvWriteDat
  <2> QED
    BY <1>2, <1>4, <2>1, <2>2, <2>4 DEF Invs, InvCard, InvWriteCrc, InvWriteBusy,
       InvReadWait, InvWords, InvReadDat, InvFinish
<1>7. CASE start = 2
  <2>1. state' = "READ_WAIT" /\ card' \in {"quiet", "waiting"} /\ (card' = "waiting" => cardCnt' = 1)
    BY <1>3, <1>4, <1>7
  <2>2. InvTransfer'
    BY <1>1, <1>4, <2>1 DEF InvTransfer
  <2>3. InvReadWait'
    <3>1. 1 <= MaxDelay
      BY DataHostAssumption
    <3> QED
      BY <1>4, <2>1, <3>1 DEF InvReadWait
  <2> QED
    BY <1>2, <1>4, <2>1, <2>2, <2>3 DEF Invs, InvCard, InvWriteCrc, InvWriteBusy,
       InvWriteDat, InvWords, InvReadDat, InvFinish
<1>8. CASE start \notin {1, 2}
  BY <1>2, <1>3, <1>4, <1>8, InIdle
<1> QED
  BY <1>6, <1>7, <1>8

\* A block that is out stays out while the card acknowledges it.
LEMMA OutStays ==
  ASSUME Out, UNCHANGED <<blksize, data_cycles, sent, rd, crcVars>>, FallingEdge, ~DAT_oe_o'
  PROVE  Out'
<1>1. payload' = payload /\ Words' = Words /\ crc_c' = crc_c
  BY DEF payload, Words, crcVars
<1>2. popped' = popped
  BY DEF Out, FallingEdge
<1> QED
  BY <1>1, <1>2 DEF Out

\* WRITE_CRC: the status token is taken in, position by position.
LEMMA FromWriteCrc ==
  ASSUME IInv, WriteCrc, Card, UNCHANGED inputVars
  PROVE  Invs'
<1>1. /\ state = "WRITE_CRC" /\ Out /\ crc_status \in 0 .. 3 /\ crc_s = Span(0, crc_status)
      /\ IF crc_status < 3 THEN card = "status" /\ cardCnt = crc_status + 2
                           ELSE card \in {"quiet", "busy"}
      /\ DAT_dat_reg = crc_status + 1
      /\ data_cycles = DataCycles(blksize, bus_4bit_reg) /\ bus_4bit_reg /\ ~we /\ ~finish_o
  BY DEF IInv, Invs, InvWriteCrc, InvTransfer, InvFinish, Moving, WriteCrc
<1>2. InvStart' /\ (start = 3 => state' = "IDLE" /\ card' \in {"quiet", "mute"})
  BY Aborts DEF Host
<1>3. /\ UNCHANGED <<blksize, data_cycles, bus_4bit_reg, sent, rd, crcVars, we, finish_o>>
      /\ FallingEdge /\ ~DAT_oe_o' /\ DAT_dat_reg' = DAT_dat_i
      /\ crc_status' = (crc_status + 1) % 8 /\ crc_s' = Shift(crc_s, DAT_dat_reg) /\ busy_int'
      /\ state' = (IF start = 3 THEN "IDLE" ELSE IF crc_status = 3 THEN "WRITE_BUSY" ELSE "WRITE_CRC")
  BY DEF WriteCrc, inputVars, EveryEdge, Goto, StatusOver
<1>4. Out'
  BY <1>1, <1>3, OutStays
<1>5. crc_status' = crc_status + 1 /\ crc_s' = Span(0, crc_status + 1)
  BY <1>1, <1>3, ShiftSpan
<1>6. InvTransfer'
  BY <1>1, <1>3 DEF InvTransfer
<1>7. CASE start = 3
  BY <1>2, <1>7, InIdle
<1>8. CASE start # 3 /\ crc_status < 3
  <2>1. state' = "WRITE_CRC" /\ card = "status" /\ cardCnt = crc_status + 2
    BY <1>1, <1>3, <1>8
  <2>2. DAT_dat_reg' = crc_status + 2
    BY <1>1, <1>3, <2>1 DEF DAT_dat_i, Out
  <2>3. \/ crc_status < 2 /\ card' = "status" /\ cardCnt' = crc_status + 3
        \/ crc_status = 2 /\ card' \in {"quiet", "busy"}
    BY <1>1, <2>1, CardMoves
  <2>4. InvWriteCrc'
    BY <1>1, <1>4, <1>5, <2>1, <2>2, <2>3 DEF InvWriteCrc
  <2> QED
    BY <1>2, <1>3, <1>1, <1>6, <2>1, <2>3, <2>4 DEF Invs, InvCard, InvWriteDat, InvWriteBusy,
       InvReadWait, InvWords, InvReadDat, InvFinish
<1>9. CASE start # 3 /\ crc_status = 3
  <2>1. state' = "WRITE_BUSY" /\ card \in {"quiet", "busy"}
    BY <1>1, <1>3, <1>9
  <2>2. card' \in {"quiet", "busy"} /\ (card' = "busy" => card = "busy")
    BY <1>1, <2>1, CardMoves
  <2>3. card = "busy" => DAT_dat_reg' = Busy
    BY <1>1, <1>3 DEF DAT_dat_i, Out
  <2>4. InvWriteBusy'
    BY <1>3, <1>4, <1>5, <1>9, <2>1, <2>2, <2>3 DEF InvWriteBusy
  <2> QED
    BY <1>2, <1>3, <1>1, <1>6, <2>1, <2>2, <2>4 DEF Invs, InvCard, InvWriteDat, InvWriteCrc,
       InvReadWait, InvWords, InvReadDat, InvFinish
<1> QED
  BY <1>1, <1>7, <1>8, <1>9

\* WRITE_BUSY: the host leaves when the lane has been high, and the card is then silent.
LEMMA FromWriteBusy ==
  ASSUME IInv, WriteBusy, Card, UNCHANGED inputVars
  PROVE  Invs'
<1>1. /\ state = "WRITE_BUSY" /\ Out /\ crc_s = Span(0, 4) /\ card \in {"quiet", "busy"}
      /\ card = "busy" => busy_int /\ DAT_dat_reg = Busy
      /\ data_cycles = DataCycles(blksize, bus_4bit_reg) /\ bus_4bit_reg /\ ~we /\ ~finish_o
  BY DEF IInv, Invs, InvWriteBusy, InvTransfer, InvFinish, Moving, WriteBusy
<1>2. InvStart' /\ (start = 3 => state' = "IDLE" /\ card' \in {"quiet", "mute"})
  BY Aborts DEF Host
<1>3. /\ UNCHANGED <<blksize, data_cycles, bus_4bit_reg, sent, rd, crcVars, crc_s, we, finish_o,
                     DAT_oe_o>>
      /\ FallingEdge /\ DAT_dat_reg' = DAT_dat_i
      /\ \E level \in Levels(DAT_dat_reg) : busy_int' = (level = 0)
      /\ state' = (IF start = 3 THEN "IDLE" ELSE IF ~busy_int THEN "FINISH" ELSE "WRITE_BUSY")
  BY DEF WriteBusy, inputVars, EveryEdge, Goto, BusyOver, padVars
<1>4. Out'
  BY <1>1, <1>3, OutStays DEF Out
<1>5. InvTransfer'
  BY <1>1, <1>3 DEF InvTransfer
<1>6. /\ card' \in {"quiet", "busy"}
      /\ card' = "busy" => card = "busy" /\ busy_int' /\ DAT_dat_reg' = Busy
  <2>1. card' \in {"quiet", "busy"} /\ (card' = "busy" => card = "busy")
    BY <1>1, CardMoves
  <2>2. card = "busy" => busy_int'
    BY <1>1, <1>3, LevelFacts
  <2>3. card = "busy" => DAT_dat_reg' = Busy
    BY <1>1, <1>3 DEF DAT_dat_i, Out
  <2> QED
    BY <2>1, <2>2, <2>3
<1>7. CASE start = 3
  BY <1>2, <1>7, InIdle
<1>8. CASE start # 3 /\ busy_int
  <2>1. state' = "WRITE_BUSY"
    BY <1>3, <1>8
  <2>2. InvWriteBusy'
    BY <1>1, <1>3, <1>4, <1>6, <2>1 DEF InvWriteBusy
  <2> QED
    BY <1>1, <1>2, <1>3, <1>5, <1>6, <2>1, <2>2 DEF Invs, InvCard, InvWriteDat, InvWriteCrc,
       InvReadWait, InvWords, InvReadDat, InvFinish
<1>9. CASE start # 3 /\ ~busy_int
  <2>1. state' = "FINISH" /\ card' = "quiet"
    BY <1>1, <1>3, <1>6, <1>9
  <2>2. outcome' = "moved"
    BY <1>1, <1>3, <1>4, <2>1 DEF outcome, Out
  <2>3. InvFinish'
    BY <1>1, <1>3, <1>4, <2>1, <2>2 DEF InvFinish, Out
  <2> QED
    BY <1>2, <1>5, <2>1, <2>3 DEF Invs, InvCard, InvWriteDat, InvWriteCrc, InvWriteBusy,
       InvReadWait, InvWords, InvReadDat
<1> QED
  BY <1>7, <1>8, <1>9

\* FINISH: what the registers say of the transfer stands.
LEMMA FromFinish ==
  ASSUME IInv, Finish, Card, UNCHANGED inputVars
  PROVE  Invs'
<1>1. /\ state = "FINISH" /\ card = "quiet" /\ ~we /\ ~rd /\ ~DAT_oe_o
      /\ outcome \in {"moved", "timeout"}
  BY DEF IInv, TypeOK, TypeCard, Invs, InvFinish, InvCard, Finish
<1>2. InvStart' /\ (start = 3 => state' = "IDLE" /\ card' \in {"quiet", "mute"})
  BY Aborts DEF Host
<1>3. /\ UNCHANGED <<data_cycles, bus_4bit_reg, sent, rd, crcVars, crc_s, we, DAT_oe_o>>
      /\ FallingEdge /\ we_o' = we
      /\ state' = (IF start = 3 THEN "IDLE" ELSE IF start = 0 THEN "IDLE" ELSE "FINISH")
  BY DEF Finish, EveryEdge, Goto, padVars
<1>4. card' = "quiet"
  BY <1>1, CardMoves
<1>5. CASE state' = "IDLE"
  BY <1>2, <1>4, <1>5, InIdle
<1>6. CASE state' = "FINISH"
  <2>1. received' = received
    BY <1>1, <1>3 DEF FallingEdge
  <2>2. crc_c' = crc_c /\ crc_din' = crc_din /\ payload' = payload /\ perWord' = perWord
    BY <1>3 DEF crcVars, payload, perWord
  <2>3. outcome' = outcome
    BY <1>1, <1>3, <1>6, <2>1, <2>2 DEF outcome
  <2>4. InvFinish'
    BY <1>1, <1>3, <1>6, <2>3 DEF InvFinish
  <2> QED
    BY <1>2, <1>4, <1>6, <2>4 DEF Invs, InvCard, InvTransfer, Moving, InvWriteDat, InvWriteCrc,
       InvWriteBusy, InvReadWait, InvWords, InvReadDat
<1> QED
  BY <1>3, <1>5, <1>6

\* READ_WAIT: the start bit, or the timeout, which no card that answers meets.
LEMMA FromReadWait ==
  ASSUME IInv, ReadWait, Card, UNCHANGED inputVars
  PROVE  Invs'
<1>1. /\ state = "READ_WAIT" /\ card \in {"quiet", "waiting", "sending"} /\ cardCnt \in Nat
      /\ wait_reg_o \in Nat /\ TypeInputs /\ bus_4bit_reg \in BOOLEAN
      /\ received = Empty /\ crc_calc = Empty /\ crc_din = Empty /\ ~we /\ ~finish_o
      /\ data_cycles = DataCycles(blksize, bus_4bit_reg) /\ ~DAT_oe_o /\ ~rd /\ sent = Empty
  BY DEF IInv, TypeOK, TypeCard, TypeNumbers, TypeFlags, Invs, InvReadWait, InvTransfer, InvCard,
         InvFinish, Moving, ReadWait
<1>2. InvStart' /\ (start = 3 => state' = "IDLE" /\ card' \in {"quiet", "mute"})
  BY Aborts DEF Host
<1>3. /\ UNCHANGED <<blksize, data_cycles, bus_4bit_reg, crc_din, rd, we, finish_o, sent>>
      /\ ~DAT_oe_o' /\ crc_rst' = FALSE /\ crc_in' = Off /\ crc_c' = 15 /\ transf_cnt' = 0
      /\ data_index' = 0 /\ wait_reg_o' = wait_reg_o + 1 /\ DAT_dat_reg' = DAT_dat_i
  BY DEF ReadWait, EveryEdge, Waited, inputVars
<1>4. received' = Empty /\ crc_calc' = Empty
  BY <1>1, <1>3 DEF ReadWait, FallingEdge, EveryEdge
<1>5. PICK level \in Levels(DAT_dat_reg) :
        state' = (IF start = 3 THEN "IDLE"
                  ELSE IF wait_reg_o >= 3 /\ level = 0 THEN "READ_DAT"
                  ELSE IF wait_reg_o >= timeout_i THEN "FINISH" ELSE "READ_WAIT")
  BY DEF ReadWait, Goto
<1>6. InvTransfer'
  <2>1. state' \notin {"WRITE_DAT", "WRITE_CRC", "WRITE_BUSY"}
    BY <1>5
  <2> QED
    BY <1>1, <1>3, <2>1 DEF InvTransfer
<1>7. CASE start = 3
  BY <1>2, <1>7, InIdle
<1>8. CASE start # 3 /\ card = "quiet"
  <2>1. wait_reg_o > 0 => DAT_dat_reg = High
    BY <1>1, <1>8 DEF IInv, Invs, InvReadWait
  <2>2. wait_reg_o >= 3 => level = 1
    BY <1>1, <2>1, LevelFacts
  <2>3. state' \in {"FINISH", "READ_WAIT"}
    BY <1>5, <1>8, <2>2
  <2>4. card' = "quiet" /\ DAT_dat_reg' = High
    BY <1>1, <1>3, <1>8, CardMoves DEF DAT_dat_i
  <2>5. CASE state' = "FINISH"
    <3>1. outcome' = "timeout"
      BY <1>1, <1>3, <1>4, <2>5 DEF outcome
    <3>2. InvFinish'
      BY <1>1, <1>3, <2>5, <3>1 DEF InvFinish
    <3> QED
      BY <1>2, <1>6, <2>4, <2>5, <3>2 DEF Invs, InvCard, InvWriteDat, InvWriteCrc, InvWriteBusy,
         InvReadWait, InvWords, InvReadDat
  <2>6. CASE state' = "READ_WAIT"
    <3>1. InvReadWait'
      BY <1>1, <1>3, <1>4, <2>4, <2>6 DEF InvReadWait
    <3> QED
      BY <1>1, <1>2, <1>3, <1>6, <2>4, <2>6, <3>1 DEF Invs, InvCard, InvWriteDat, InvWriteCrc,
         InvWriteBusy, InvWords, InvReadDat, InvFinish
  <2> QED
    BY <2>3, <2>5, <2>6
<1>9. CASE start # 3 /\ (card = "waiting" \/ (card = "sending" /\ cardCnt = 0))
  <2>1. /\ timeout_i \in Nat /\ MaxDelay \in Nat /\ MinDelay \in Nat /\ MinDelay >= 2
        /\ MaxDelay < timeout_i /\ BlockSize \in Nat
    BY <1>1, Sizes
  <2>2. /\ wait_reg_o > 0 => DAT_dat_reg = High
        /\ card = "waiting" => cardCnt = wait_reg_o + 1 /\ cardCnt <= MaxDelay
        /\ card = "sending" => wait_reg_o >= 2 /\ wait_reg_o <= MaxDelay
    <3>1. InvReadWait
      BY DEF IInv, Invs
    <3>2. CASE card = "waiting"
      BY <1>1, <3>1, <3>2 DEF InvReadWait
    <3>3. CASE card = "sending" /\ cardCnt = 0
      <4>1. /\ wait_reg_o >= 2 + cardCnt /\ wait_reg_o <= MaxDelay + cardCnt
            /\ DAT_dat_reg = (IF cardCnt = 0 THEN High ELSE 0)
        BY <1>1, <3>1, <3>3 DEF InvReadWait
      <4> QED
        BY <1>1, <2>1, <3>3, <4>1
    <3> QED
      BY <1>9, <3>2, <3>3
  <2>3. wait_reg_o >= 3 => level = 1
    BY <1>1, <2>2, LevelFacts
  <2>4. ~(wait_reg_o >= timeout_i)
    BY <1>1, <1>9, <2>1, <2>2
  <2>5. state' = "READ_WAIT"
    BY <1>5, <1>9, <2>3, <2>4
  <2>6. CASE card = "waiting"
    <3>1. DAT_dat_reg' = High
      BY <1>1, <1>3, <2>6 DEF DAT_dat_i
    <3>2. \/ cardCnt < MaxDelay /\ card' = "waiting" /\ cardCnt' = cardCnt + 1
          \/ cardCnt >= MinDelay /\ card' = "sending" /\ cardCnt' = 0
      BY <2>6, CardMoves
    <3>3. InvReadWait'
      BY <1>1, <1>3, <1>4, <2>1, <2>2, <2>5, <2>6, <3>1, <3>2 DEF InvReadWait
    <3> QED
      BY <1>1, <1>2, <1>3, <1>6, <2>5, <3>2, <3>3 DEF Invs, InvCard, InvWriteDat, InvWriteCrc,
         InvWriteBusy, InvWords, InvReadDat, InvFinish
  <2>7. CASE card = "sending"
    <3>1. DAT_dat_reg' = 0
      BY <1>1, <1>3, <1>9, <2>7 DEF DAT_dat_i
    <3>2. card' = "sending" /\ cardCnt' = 1
      BY <1>9, <2>1, <2>7, CardMoves
    <3>3. InvReadWait'
      BY <1>1, <1>3, <1>4, <2>1, <2>2, <2>5, <2>7, <3>1, <3>2 DEF InvReadWait
    <3> QED
      BY <1>1, <1>2, <1>3, <1>6, <2>5, <3>2, <3>3 DEF Invs, InvCard, InvWriteDat, InvWriteCrc,
         InvWriteBusy, InvWords, InvReadDat, InvFinish
  <2> QED
    BY <1>9, <2>6, <2>7
<1>10. CASE start # 3 /\ card = "sending" /\ cardCnt # 0
  <2>1. cardCnt = 1 /\ wait_reg_o >= 3 /\ DAT_dat_reg = 0
    BY <1>1, <1>10 DEF IInv, Invs, InvReadWait
  <2>2. state' = "READ_DAT"
    BY <1>5, <1>10, <2>1, LevelFacts
  <2>3. DAT_dat_reg' = 1
    BY <1>1, <1>3, <1>10, <2>1 DEF DAT_dat_i
  <2>4. BlockSize \in Nat /\ BlockSize' = BlockSize
    BY <1>1, <1>3, Sizes DEF BlockSize
  <2>5. card' = "sending" /\ cardCnt' = 2
    BY <1>10, <2>1, <2>4, CardMoves
  <2>6. PICK P \in Nat : P = data_cycles - 2 /\ P >= 2
    BY <1>1, PayloadSize DEF payload
  <2>7. payload' = P
    BY <1>3, <2>6 DEF payload
  <2>8. place' = 0
    BY <1>3 DEF place, perWord
  <2>9. Taken' = 0 /\ Whole' = 0
    BY <1>3, <2>6, <2>7, <2>8 DEF Taken, Whole
  <2>10. InvWords'
    <3>1. First(0) = Empty /\ ~(0 > 0) /\ 0 % 32 = 0
      BY DEF First
    <3> QED
      BY <1>1, <1>3, <1>4, <2>2, <2>8, <2>9, <3>1 DEF InvWords
  <2>11. InvReadDat'
    <3>1. First(0) = Empty /\ 0 <= P + 16 /\ 0 <= P /\ ~(0 > P)
      BY <2>6 DEF First
    <3>2. 0 <= BlockSize' + 15 /\ 0 <= BlockSize' + 16
      BY <2>4
    <3> QED
      BY <1>1, <1>3, <1>4, <2>2, <2>3, <2>5, <2>7, <2>9, <3>1, <3>2 DEF InvReadDat
  <2> QED
    BY <1>1, <1>2, <1>3, <1>6, <2>2, <2>5, <2>10, <2>11 DEF Invs, InvCard, InvWriteDat,
       InvWriteCrc, InvWriteBusy, InvReadWait, InvFinish
<1> QED
  BY <1>1, <1>7, <1>8, <1>9, <1>10

\* The whole words before a position.
LEMMA WholeWords ==
  ASSUME NEW t \in Nat
  PROVE  t - (t % 8) = (t \div 8) * 8 /\ t - (t % 32) = (t \div 32) * 32
OBVIOUS

\* One position further into a word.
LEMMA NextPlace ==
  ASSUME NEW t \in Nat, bus_4bit_reg \in BOOLEAN, data_index = t % 32
  PROVE  /\ data_index \in 0 .. 31 /\ (data_index + 1) % 32 = (t + 1) % 32
         /\ place \in 0 .. perWord - 1 /\ perWord \in {8, 32} /\ place <= t
         /\ ((t + 1) % 32) % perWord = (IF place = perWord - 1 THEN 0 ELSE place + 1)
         /\ place = 0 /\ t > 0 => t >= perWord
         /\ t - place = (t \div perWord) * perWord
<1>1. CASE bus_4bit_reg
  <2>1. perWord = 8 /\ place = data_index % 8
    BY <1>1 DEF perWord, place
  <2>2. place = t % 8
    BY <2>1
  <2>3. ((t + 1) % 32) % 8 = (IF t % 8 = 7 THEN 0 ELSE (t % 8) + 1)
    OBVIOUS
  <2>4. t - (t % 8) = (t \div 8) * 8
    BY WholeWords
  <2> QED
    BY <2>1, <2>2, <2>3, <2>4
<1>2. CASE ~bus_4bit_reg
  <2>1. perWord = 32 /\ place = data_index % 32
    BY <1>2 DEF perWord, place
  <2>2. place = t % 32
    BY <2>1
  <2>3. ((t + 1) % 32) % 32 = (IF t % 32 = 31 THEN 0 ELSE (t % 32) + 1)
    OBVIOUS
  <2>4. t - (t % 32) = (t \div 32) * 32
    BY WholeWords
  <2> QED
    BY <2>1, <2>2, <2>3, <2>4
<1> QED
  BY <1>1, <1>2

\* The word that is on its way reaches the FIFO with this edge.
LEMMA WordPushed ==
  ASSUME TypeOK, state = "READ_DAT", InvWords, PassWord, we_o' = we, FallingEdge
  PROVE  received' = First(Whole)
<1>1. /\ received = First(IF we THEN Whole - perWord ELSE Whole)
      /\ we => transf_cnt > 0 /\ transf_cnt <= payload /\ place = 0
                 /\ data_out = Span(Whole - perWord + 1, Whole)
  BY DEF InvWords
<1>2. CASE ~we
  BY <1>1, <1>2 DEF FallingEdge
<1>3. CASE we
  <2>1. transf_cnt \in Nat /\ bus_4bit_reg \in BOOLEAN /\ data_cycles \in Int
    BY DEF TypeOK, TypeNumbers, TypeFlags
  <2>2. Taken = transf_cnt /\ Whole = transf_cnt /\ data_index = transf_cnt % 32
    BY <1>1, <1>3, <2>1 DEF InvWords, Taken, Whole, payload
  <2>3. transf_cnt >= perWord /\ perWord \in {8, 32}
    BY <1>1, <1>3, <2>1, <2>2, NextPlace
  <2>4. received' = Join(First(Whole - perWord), Span(Whole - perWord + 1, Whole))
    BY <1>1, <1>3 DEF FallingEdge, PassWord
  <2>5. Whole - perWord \in Nat /\ Whole \in Nat /\ Whole > Whole - perWord
    BY <2>1, <2>2, <2>3
  <2> QED
    BY <2>4, <2>5, JoinFirst
<1> QED
  BY <1>2, <1>3

\* What READ_DAT knows of the card and the lanes, one clock on.
LEMMA ReadLanes ==
  ASSUME IInv, ReadDat, Card, UNCHANGED inputVars
  PROVE  /\ transf_cnt \in Nat /\ BlockSize \in Nat /\ BlockSize' = BlockSize
         /\ transf_cnt + 1 <= BlockSize + 16 => DAT_dat_reg' = transf_cnt + 2
         /\ IF transf_cnt + 1 <= BlockSize + 15
            THEN card' = "sending" /\ cardCnt' = transf_cnt + 3 ELSE card' = "quiet"
         /\ card # "quiet" => cardGood' = cardGood
<1>1. /\ state = "READ_DAT" /\ transf_cnt \in Nat /\ TypeInputs /\ bus_4bit_reg \in BOOLEAN
      /\ ~DAT_oe_o
      /\ IF transf_cnt <= BlockSize + 15 THEN card = "sending" /\ cardCnt = transf_cnt + 2
                                         ELSE card = "quiet"
  BY DEF IInv, TypeOK, TypeNumbers, TypeFlags, Invs, InvReadDat, InvTransfer, Moving, ReadDat
<1>2. BlockSize \in Nat /\ BlockSize' = BlockSize /\ DAT_dat_reg' = DAT_dat_i
  BY <1>1, Sizes DEF BlockSize, ReadDat, EveryEdge, inputVars
<1>3. CASE transf_cnt <= BlockSize + 15
  <2>1. DAT_dat_reg' = transf_cnt + 2
    BY <1>1, <1>2, <1>3 DEF DAT_dat_i
  <2>2. /\ cardGood' = cardGood
        /\ \/ cardCnt < BlockSize + 17 /\ card' = "sending" /\ cardCnt' = cardCnt + 1
           \/ cardCnt >= BlockSize + 17 /\ card' = "quiet" /\ cardCnt' = 0
    BY <1>1, <1>3, CardMoves
  <2> QED
    BY <1>1, <1>2, <1>3, <2>1, <2>2
<1>4. CASE ~(transf_cnt <= BlockSize + 15)
  <2>1. card' = "quiet"
    BY <1>1, <1>4, CardMoves
  <2> QED
    BY <1>1, <1>2, <1>4, <2>1
<1> QED
  BY <1>3, <1>4

\* What every edge of READ_DAT finds and keeps.
LEMMA ReadKeeps ==
  ASSUME IInv, ReadDat, Card, UNCHANGED inputVars
  PROVE  /\ state = "READ_DAT" /\ bus_4bit_reg \in BOOLEAN /\ transf_cnt \in Nat
         /\ payload \in Nat /\ payload >= 2 /\ payload >= BlockSize /\ payload <= BlockSize + 6
         /\ BlockSize \in Nat
         /\ bus_4bit_reg => payload = BlockSize
         /\ COUNT_MOD \in Nat /\ payload + 17 < COUNT_MOD /\ transf_cnt <= payload + 16
         /\ payload' = payload /\ perWord' = perWord /\ bus_4bit_reg' = bus_4bit_reg
         /\ data_index = Taken % 32 /\ received' = First(Whole)
         /\ ~rd' /\ ~DAT_oe_o' /\ ~finish_o' /\ InvTransfer' /\ InvStart'
<1>1. /\ state = "READ_DAT" /\ TypeInputs /\ bus_4bit_reg \in BOOLEAN /\ transf_cnt \in Nat
      /\ data_cycles = DataCycles(blksize, bus_4bit_reg) /\ ~DAT_oe_o /\ ~rd /\ sent = Empty
      /\ ~finish_o /\ transf_cnt <= payload + 16 /\ data_index = Taken % 32
  BY DEF IInv, TypeOK, TypeNumbers, TypeFlags, Invs, InvReadDat, InvTransfer, InvWords, InvFinish,
         Moving, ReadDat
<1>2. /\ UNCHANGED <<blksize, data_cycles, bus_4bit_reg, rd, finish_o, DAT_oe_o, sent>>
      /\ state' \in {"IDLE", "READ_DAT", "FINISH"}
  BY DEF ReadDat, ReadData, ReadCrc, ReadVerdict, Goto, inputVars, padVars
<1>3. /\ payload \in Nat /\ payload >= 2 /\ payload >= BlockSize /\ payload <= BlockSize + 6
      /\ BlockSize \in Nat
      /\ bus_4bit_reg => payload = BlockSize
      /\ COUNT_MOD \in Nat /\ payload + 17 < COUNT_MOD
  BY <1>1, PayloadSize, Sizes
<1>4. payload' = payload /\ perWord' = perWord
  BY <1>2 DEF payload, perWord
<1>5. received' = First(Whole)
  BY WordPushed DEF IInv, Invs, ReadDat, EveryEdge
<1>6. InvTransfer'
  BY <1>1, <1>2 DEF InvTransfer
<1>7. InvStart'
  BY Aborts DEF Host
<1> QED
  BY <1>1, <1>2, <1>3, <1>4, <1>5, <1>6, <1>7

\* A position of data is taken in.
LEMMA FromReadData ==
  ASSUME IInv, ReadDat, ReadData, Card, UNCHANGED inputVars, start # 3
  PROVE  Invs'
<1>k. /\ state = "READ_DAT" /\ bus_4bit_reg \in BOOLEAN /\ transf_cnt \in Nat
      /\ payload \in Nat /\ payload <= BlockSize + 6 /\ BlockSize \in Nat
      /\ COUNT_MOD \in Nat /\ payload + 17 < COUNT_MOD
      /\ payload' = payload /\ perWord' = perWord /\ bus_4bit_reg' = bus_4bit_reg
      /\ data_index = Taken % 32 /\ received' = First(Whole)
      /\ ~rd' /\ ~DAT_oe_o' /\ ~finish_o' /\ InvTransfer' /\ InvStart'
  BY ReadKeeps
<1>1. PICK t \in Nat : t = transf_cnt
  BY <1>k
<1>2. PICK P \in Nat : P = payload
  BY <1>k
<1>3. /\ t < P /\ we' = (place = perWord - 1) /\ data_index' = (data_index + 1) % 32
      /\ crc_in' = DAT_dat_reg /\ transf_cnt' = (t + 1) % COUNT_MOD /\ state' = "READ_DAT"
      /\ data_out' = IF place = 0 THEN Span(DAT_dat_reg, DAT_dat_reg) ELSE Shift(data_out, DAT_dat_reg)
      /\ crc_c' = crc_c /\ crc_din' = crc_din /\ crc_rst' = crc_rst
  BY <1>1, <1>2 DEF ReadDat, ReadData, Goto, WordFull
<1>4. Taken = t /\ data_index = t % 32
  BY <1>k, <1>1, <1>2, <1>3 DEF Taken
<1>5. /\ place \in 0 .. perWord - 1 /\ perWord \in {8, 32} /\ place <= t
      /\ (data_index + 1) % 32 = (t + 1) % 32
      /\ ((t + 1) % 32) % perWord = (IF place = perWord - 1 THEN 0 ELSE place + 1)
  BY <1>k, <1>4, NextPlace
<1>6. data_index' = (t + 1) % 32 /\ place' = (IF place = perWord - 1 THEN 0 ELSE place + 1)
  <2>1. data_index' = (t + 1) % 32
    BY <1>3, <1>5, Zenon
  <2>2. place' = data_index' % perWord'
    BY DEF place
  <2>3. place' = ((t + 1) % 32) % perWord
    BY <1>k, <2>1, <2>2, Zenon
  <2> QED
    BY <1>5, <2>1, <2>3, Zenon
<1>7. transf_cnt' = t + 1
  BY <1>k, <1>2, <1>3
<1>8. Taken' = t + 1
  BY <1>k, <1>2, <1>3, <1>7 DEF Taken
<1>9. Whole = t - place /\ Whole' = (t + 1) - place'
  <2>1. Whole = Taken - place /\ Whole' = Taken' - place'
    BY DEF Whole
  <2>2. Whole = t - place
    BY <1>4, <2>1, Zenon
  <2>3. Whole' = (t + 1) - place'
    BY <1>8, <2>1, Zenon
  <2> QED
    BY <2>2, <2>3
<1>10. PICK w \in Nat : w = Whole /\ w = t - place
  BY <1>5, <1>9
<1>11. /\ crc_calc = First(t) /\ crc_c = 15 /\ ~crc_rst /\ (bus_4bit_reg => crc_din = Empty)
       /\ DAT_dat_reg = t + 1
  <2>1. /\ crc_calc = First(Taken) /\ ~crc_rst
        /\ crc_c = (IF t <= P THEN 15 ELSE IF t = P + 16 THEN 31 ELSE P + 15 - t)
        /\ bus_4bit_reg => crc_din = (IF t <= P THEN Empty ELSE Span(P + 1, t))
        /\ t <= BlockSize + 16 => DAT_dat_reg = t + 1
    BY <1>k, <1>1, <1>2 DEF IInv, Invs, InvReadDat
  <2>2. t <= P /\ t <= BlockSize + 16
    BY <1>k, <1>2, <1>3
  <2> QED
    BY <1>4, <2>1, <2>2
<1>12. place > 0 => data_out = Span(w + 1, t)
  BY <1>k, <1>1, <1>2, <1>3, <1>10 DEF IInv, Invs, InvWords
<1>13. data_out' = Span(w + 1, t + 1)
  <2>1. CASE place = 0
    BY <1>3, <1>10, <1>11, <2>1
  <2>2. CASE place # 0
    <3>1. place > 0 /\ t >= w + 1
      BY <1>5, <1>10, <2>2
    <3>2. data_out' = Shift(Span(w + 1, t), t + 1)
      BY <1>3, <1>11, <1>12, <2>2, <3>1
    <3> QED
      BY <3>1, <3>2, ShiftSpan
  <2> QED
    BY <2>1, <2>2
<1>14. crc_calc' = First(t + 1)
  <2>1. t + 1 # Off
    BY DEF Off
  <2>2. crc_calc' = Shift(First(t), t + 1)
    BY <1>3, <1>11, <2>1 DEF ReadDat, FallingEdge
  <2> QED
    BY <2>2, ShiftFirst
<1>15. InvWords'
  <2>1. data_index' = Taken' % 32
    BY <1>6, <1>8
  <2>2. CASE place = perWord - 1
    <3>1. place' = 0 /\ we' /\ w = t - (perWord - 1)
      BY <1>3, <1>6, <1>10, <2>2
    <3>0. Whole' = t + 1 /\ Whole' - perWord' = w
      <4>1. Whole' = t + 1
        BY <1>9, <3>1
      <4>2. (t + 1) - perWord = w
        BY <1>5, <3>1
      <4> QED
        BY <1>k, <4>1, <4>2, Zenon
    <3>2. received' = First(Whole' - perWord') /\ data_out' = Span(Whole' - perWord' + 1, Whole')
      BY <1>k, <1>10, <1>13, <3>0, Zenon
    <3>3. transf_cnt' > 0 /\ transf_cnt' <= payload'
      BY <1>k, <1>2, <1>3, <1>7
    <3> QED
      BY <2>1, <3>0, <3>1, <3>2, <3>3 DEF InvWords
  <2>3. CASE place # perWord - 1
    <3>0. place' = place + 1 /\ ~we'
      BY <1>3, <1>6, <2>3
    <3>1. place' > 0 /\ Whole' = w
      <4>1. place \in Nat
        BY <1>5
      <4>2. place + 1 > 0 /\ (t + 1) - (place + 1) = t - place
        BY <4>1
      <4> QED
        BY <1>9, <1>10, <3>0, <4>2, Zenon
    <3>2. received' = First(Whole') /\ data_out' = Span(Whole' + 1, transf_cnt')
      BY <1>k, <1>7, <1>10, <1>13, <3>1
    <3> QED
      BY <2>1, <3>0, <3>1, <3>2 DEF InvWords
  <2> QED
    BY <2>2, <2>3
<1>16. InvReadDat' /\ card' = "sending"
  <2>1. /\ BlockSize \in Nat /\ BlockSize' = BlockSize
        /\ t + 1 <= BlockSize + 16 => DAT_dat_reg' = t + 2
        /\ IF t + 1 <= BlockSize + 15
           THEN card' = "sending" /\ cardCnt' = t + 3 ELSE card' = "quiet"
    BY <1>1, ReadLanes
  <2>2. t + 1 <= BlockSize + 15
    BY <1>k, <1>2, <1>3, <2>1
  <2>3. payload' = P /\ t + 1 <= P /\ t + 1 # 0
    BY <1>k, <1>2, <1>3
  <2> QED
    BY <1>k, <1>3, <1>7, <1>8, <1>11, <1>14, <2>1, <2>2, <2>3 DEF InvReadDat
<1> QED
  BY <1>k, <1>3, <1>15, <1>16 DEF Invs, InvCard, InvWriteDat, InvWriteCrc, InvWriteBusy,
     InvReadWait, InvFinish

\* A position of the CRC, or the clock after the last.
LEMMA FromReadCrc ==
  ASSUME IInv, ReadDat, ReadCrc, Card, UNCHANGED inputVars, start # 3
  PROVE  Invs'
<1>k. /\ state = "READ_DAT" /\ bus_4bit_reg \in BOOLEAN /\ transf_cnt \in Nat
      /\ payload \in Nat /\ payload <= BlockSize + 6 /\ payload >= 2
      /\ bus_4bit_reg => payload = BlockSize
      /\ COUNT_MOD \in Nat /\ payload + 17 < COUNT_MOD /\ transf_cnt <= payload + 16
      /\ payload' = payload /\ perWord' = perWord /\ bus_4bit_reg' = bus_4bit_reg
      /\ data_index = Taken % 32 /\ received' = First(Whole)
      /\ ~rd' /\ ~DAT_oe_o' /\ ~finish_o' /\ InvTransfer' /\ InvStart'
  BY ReadKeeps
<1>1. PICK t \in Nat : t = transf_cnt
  BY <1>k
<1>2. PICK P \in Nat : P = payload
  BY <1>k
<1>3. /\ t >= P /\ crc_c # 31 /\ we' = FALSE /\ data_index' = data_index
      /\ crc_in' = Off /\ transf_cnt' = (t + 1) % COUNT_MOD /\ state' = "READ_DAT"
      /\ crc_din' = Shift(crc_din, DAT_dat_reg) /\ crc_c' = (crc_c - 1) % 32 /\ crc_rst' = crc_rst
  BY <1>1, <1>2 DEF ReadDat, ReadCrc, Goto
<1>4. /\ crc_c = (IF t <= P THEN 15 ELSE IF t = P + 16 THEN 31 ELSE P + 15 - t)
      /\ crc_calc = First(Taken) /\ ~crc_rst
      /\ bus_4bit_reg => crc_din = (IF t <= P THEN Empty ELSE Span(P + 1, t))
      /\ t <= BlockSize + 16 => DAT_dat_reg = t + 1
  BY <1>k, <1>1, <1>2 DEF IInv, Invs, InvReadDat
<1>5. t <= P + 15
  BY <1>k, <1>1, <1>2, <1>3, <1>4
<1>6. transf_cnt' = t + 1
  BY <1>k, <1>2, <1>3, <1>5
<1>7. Taken = P /\ Taken' = P
  BY <1>k, <1>1, <1>2, <1>3, <1>6 DEF Taken
<1>8. place' = place /\ Whole' = Whole
  BY <1>k, <1>3, <1>7 DEF place, Whole
<1>9. crc_calc' = First(P)
  BY <1>3, <1>4, <1>7 DEF ReadDat, FallingEdge
<1>10. crc_c' = (IF t + 1 = P + 16 THEN 31 ELSE P + 15 - (t + 1))
  <2>1. CASE t = P + 15
    BY <1>3, <1>4, <2>1
  <2>2. CASE t # P + 15
    <3>1. crc_c - 1 = P + 14 - t /\ P + 14 - t \in 0 .. 31
      BY <1>3, <1>4, <1>5, <2>2
    <3> QED
      BY <1>3, <1>5, <2>2, <3>1
  <2> QED
    BY <2>1, <2>2
<1>11. bus_4bit_reg => crc_din' = Span(P + 1, t + 1)
  <2> SUFFICES ASSUME bus_4bit_reg PROVE crc_din' = Span(P + 1, t + 1)
    OBVIOUS
  <2>1. DAT_dat_reg = t + 1
    BY <1>k, <1>2, <1>4, <1>5
  <2>2. CASE t = P
    BY <1>3, <1>4, <2>1, <2>2, ShiftSpan
  <2>3. CASE t # P
    <3>1. crc_din' = Shift(Span(P + 1, t), t + 1) /\ t >= P + 1
      BY <1>3, <1>4, <2>1, <2>3
    <3> QED
      BY <3>1, ShiftSpan
  <2> QED
    BY <2>2, <2>3
<1>12. InvWords'
  <2>1. data_index' = Taken' % 32 /\ received' = First(Whole')
    BY <1>k, <1>3, <1>7, <1>8
  <2>2. ~(transf_cnt' <= payload')
    BY <1>k, <1>2, <1>3, <1>6
  <2> QED
    BY <1>3, <2>1, <2>2 DEF InvWords
<1>13. InvReadDat' /\ card' \in {"quiet", "sending"}
  <2>1. /\ BlockSize \in Nat /\ BlockSize' = BlockSize
        /\ t + 1 <= BlockSize + 16 => DAT_dat_reg' = t + 2
        /\ IF t + 1 <= BlockSize + 15
           THEN card' = "sending" /\ cardCnt' = t + 3 ELSE card' = "quiet"
    BY <1>1, ReadLanes
  <2>2. payload' = P /\ t + 1 <= P + 16 /\ ~(t + 1 <= P)
    BY <1>k, <1>2, <1>3, <1>5
  <2>3. /\ t + 2 = (t + 1) + 1 /\ t + 3 = (t + 1) + 2
        /\ IF t + 1 <= BlockSize + 15 THEN card' = "sending" /\ cardCnt' = (t + 1) + 2 ELSE card' = "quiet"
        /\ t + 1 <= BlockSize + 16 => DAT_dat_reg' = (t + 1) + 1
    BY <2>1
  <2>4. bus_4bit_reg' => crc_din' = Span(payload' + 1, t + 1)
    BY <1>k, <1>11, <2>2
  <2>5. crc_calc' = First(Taken') /\ ~crc_rst' /\ crc_in' = Off
    BY <1>3, <1>4, <1>7, <1>9
  <2> QED
    BY <1>6, <1>10, <2>1, <2>2, <2>3, <2>4, <2>5 DEF InvReadDat
<1> QED
  BY <1>k, <1>3, <1>12, <1>13 DEF Invs, InvCard, InvWriteDat, InvWriteCrc, InvWriteBusy,
     InvReadWait, InvFinish

\* The last clock of READ_DAT: everything is in, and the word on its way arrives.
LEMMA LastRead ==
  ASSUME IInv, ReadDat, ReadVerdict, Card, UNCHANGED inputVars
  PROVE  /\ transf_cnt = payload + 16 /\ crc_c = 31 /\ card = "quiet" /\ card' = "quiet"
         /\ received' = First((payload \div perWord) * perWord)
         /\ crc_calc = First(payload)
         /\ bus_4bit_reg => crc_din = Span(payload + 1, payload + 16)
<1>k. /\ bus_4bit_reg \in BOOLEAN /\ transf_cnt \in Nat
      /\ payload \in Nat /\ payload <= BlockSize + 6 /\ payload >= 2 /\ payload >= BlockSize
      /\ transf_cnt <= payload + 16
      /\ data_index = Taken % 32 /\ received' = First(Whole)
  BY ReadKeeps
<1>1. transf_cnt >= payload /\ crc_c = 31 /\ state = "READ_DAT"
  BY DEF ReadVerdict, ReadDat
<1>2. /\ crc_c = (IF transf_cnt <= payload THEN 15 ELSE IF transf_cnt = payload + 16 THEN 31
                  ELSE payload + 15 - transf_cnt)
      /\ crc_calc = First(Taken)
      /\ bus_4bit_reg => crc_din = (IF transf_cnt <= payload THEN Empty ELSE Span(payload + 1, transf_cnt))
      /\ IF transf_cnt <= BlockSize + 15 THEN card = "sending" /\ cardCnt = transf_cnt + 2 ELSE card = "quiet"
  BY <1>1 DEF IInv, Invs, InvReadDat
<1>3. transf_cnt = payload + 16
  BY <1>k, <1>1, <1>2
<1>4. card = "quiet" /\ card' = "quiet"
  <2>1. BlockSize \in Nat
    BY ReadLanes
  <2>2. ~(transf_cnt <= BlockSize + 15) /\ ~(transf_cnt + 1 <= BlockSize + 15)
    BY <1>k, <1>3, <2>1
  <2> QED
    BY <1>2, <2>2, ReadLanes
<1>5. Taken = payload
  BY <1>k, <1>1, <1>3 DEF Taken
<1>6. payload - place = (payload \div perWord) * perWord
  BY <1>k, <1>5, NextPlace
<1>7. received' = First((payload \div perWord) * perWord)
  BY <1>k, <1>5, <1>6 DEF Whole
<1>8. bus_4bit_reg => crc_din = Span(payload + 1, payload + 16)
  BY <1>k, <1>2, <1>3
<1> QED
  BY <1>1, <1>2, <1>3, <1>4, <1>5, <1>7, <1>8

\* The last edge of READ_DAT ends the transfer.
LEMMA FromReadVerdict ==
  ASSUME IInv, ReadDat, ReadVerdict, Card, UNCHANGED inputVars, start # 3
  PROVE  Invs'
<1>k. /\ payload' = payload /\ perWord' = perWord /\ bus_4bit_reg' = bus_4bit_reg
      /\ ~rd' /\ ~DAT_oe_o' /\ InvTransfer' /\ InvStart'
  BY ReadKeeps
<1>1. state' = "FINISH" /\ we' = FALSE /\ crc_c' = crc_c /\ crc_din' = crc_din
  BY DEF ReadVerdict, Goto
<1>2. /\ card' = "quiet" /\ crc_c' = 31
      /\ received' = First((payload' \div perWord') * perWord')
      /\ bus_4bit_reg' => crc_din' = Span(payload' + 1, payload' + 16)
  BY <1>k, <1>1, LastRead
<1>3. outcome' = "moved"
  <2>1. outcome' = IF state' # "FINISH" THEN "none"
                   ELSE IF crc_c' = 31 /\ (bus_4bit_reg' => crc_din' = Span(payload' + 1, payload' + 16))
                           /\ received' = First((payload' \div perWord') * perWord') THEN "moved"
                   ELSE outcome'
    BY DEF outcome
  <2>2. crc_c' = 31 /\ (bus_4bit_reg' => crc_din' = Span(payload' + 1, payload' + 16))
        /\ received' = First((payload' \div perWord') * perWord')
    BY <1>2, Zenon
  <2>3. ~(state' # "FINISH")
    BY <1>1
  <2> QED
    BY <2>1, <2>2, <2>3, Zenon
<1>4. InvFinish'
  BY <1>k, <1>1, <1>3 DEF InvFinish
<1>5. state' = "FINISH" /\ card' = "quiet" /\ InvStart' /\ InvTransfer'
  BY <1>k, <1>1, <1>2, Zenon
<1> QED
  BY <1>4, <1>5 DEF Invs, InvCard, InvWriteDat, InvWriteCrc, InvWriteBusy,
     InvReadWait, InvWords, InvReadDat

\* READ_DAT, by its three kinds of edge.
LEMMA FromReadDat ==
  ASSUME IInv, ReadDat, Card, UNCHANGED inputVars
  PROVE  Invs'
<1>1. CASE start = 3
  BY <1>1, Aborts, InIdle DEF Host
<1>2. CASE start # 3
  BY <1>2, FromReadData, FromReadCrc, FromReadVerdict DEF ReadDat
<1> QED
  BY <1>1, <1>2

\* The words of a block.
LEMMA WordCount ==
  ASSUME blksize \in Nat, blksize >= 1
  PROVE  Words \in Nat /\ Words >= 1 /\ 4 * Words <= blksize + 3 /\ 4 * Words >= blksize
<1>1. \A n \in Nat : n \div 4 \in Nat /\ 4 * (n \div 4) <= n /\ n < 4 * (n \div 4) + 4
  OBVIOUS
<1>2. blksize + 3 \in Nat
  OBVIOUS
<1>3. Words \in Nat /\ 4 * Words <= blksize + 3 /\ blksize + 3 < 4 * Words + 4
  BY <1>1, <1>2, Zenon DEF Words
<1> QED
  BY <1>3

\* What every edge of WRITE_DAT finds and keeps.
LEMMA WriteKeeps ==
  ASSUME IInv, WriteDat, Card, UNCHANGED inputVars
  PROVE  /\ state = "WRITE_DAT" /\ transf_cnt \in Nat /\ popped \in Nat
         /\ bus_4bit_reg = TRUE /\ bus_4bit_reg' = TRUE /\ data_index \in 0 .. 31
         /\ payload \in Nat /\ payload >= 2 /\ data_cycles = payload + 2 /\ BlockSize = payload
         /\ COUNT_MOD \in Nat /\ MaxAck \in Nat /\ payload + 24 + MaxAck < COUNT_MOD
         /\ Words \in Nat /\ Words >= 1 /\ 8 * Words <= payload + 6 /\ 8 * Words >= payload
         /\ payload' = payload /\ Words' = Words
         /\ crc_status' = 0 /\ ~finish_o' /\ InvTransfer' /\ InvStart'
         /\ card \in {"quiet", "status", "mute"}
<1>1. /\ state = "WRITE_DAT" /\ TypeInputs /\ bus_4bit_reg = TRUE /\ transf_cnt \in Nat
      /\ data_cycles = DataCycles(blksize, bus_4bit_reg) /\ ~we /\ popped \in Nat
      /\ ~finish_o /\ crc_status = 0 /\ data_index \in 0 .. 31
      /\ card \in {"quiet", "status", "mute"}
  BY DEF IInv, TypeOK, TypeNumbers, TypeFlags, TypeCard, Invs, InvWriteDat, InvTransfer, InvFinish,
         InvCard, Moving, WriteDat
<1>2. /\ UNCHANGED <<blksize, data_cycles, bus_4bit_reg, finish_o, we, crc_status>>
      /\ state' \in {"IDLE", "WRITE_DAT", "WRITE_CRC"}
  BY DEF WriteDat, SendStart, SendBlock, AwaitStatus, Goto, inputVars
<1>3. /\ payload \in Nat /\ payload >= 2 /\ data_cycles = payload + 2 /\ payload = 2 * blksize
      /\ COUNT_MOD \in Nat /\ MaxAck \in Nat /\ payload + 24 + MaxAck < COUNT_MOD
      /\ BlockSize = 2 * blksize /\ blksize \in Nat /\ blksize >= 1
  BY <1>1, PayloadSize, Sizes
<1>4. payload' = payload /\ Words' = Words
  BY <1>2 DEF payload, Words
<1>5. Words \in Nat /\ Words >= 1 /\ 8 * Words <= payload + 6 /\ 8 * Words >= payload
  BY <1>3, WordCount
<1>6. InvTransfer'
  BY <1>1, <1>2 DEF InvTransfer
<1>7. InvStart'
  BY Aborts DEF Host
<1> QED
  BY <1>1, <1>2, <1>3, <1>4, <1>5, <1>6, <1>7

\* Before the status is due the card waits.
LEMMA CardWaits ==
  ASSUME IInv, WriteDat, Card, UNCHANGED inputVars, transf_cnt < payload + 20
  PROVE  card \in {"quiet", "mute"} /\ card' = card
<1>1. /\ state = "WRITE_DAT" /\ transf_cnt \in Nat /\ payload \in Nat /\ BlockSize = payload
      /\ card \in {"quiet", "status", "mute"}
  BY WriteKeeps
<1>2. card = "status" => transf_cnt >= payload + 21
  BY <1>1 DEF IInv, Invs, InvWriteDat
<1>3. ~(transf_cnt >= StatusDue)
  BY <1>1 DEF StatusDue
<1> QED
  BY <1>1, <1>2, <1>3, CardMoves

\* The start bit.
LEMMA FromSendStart ==
  ASSUME IInv, WriteDat, SendStart, Card, UNCHANGED inputVars, start # 3
  PROVE  Invs'
<1>k. /\ state = "WRITE_DAT" /\ bus_4bit_reg' = TRUE /\ popped \in Nat
      /\ payload \in Nat /\ payload >= 2 /\ data_cycles = payload + 2
      /\ COUNT_MOD \in Nat /\ MaxAck \in Nat /\ payload + 24 + MaxAck < COUNT_MOD
      /\ Words \in Nat /\ Words >= 1
      /\ payload' = payload /\ Words' = Words
      /\ crc_status' = 0 /\ ~finish_o' /\ InvTransfer' /\ InvStart'
  BY WriteKeeps
<1>1. PICK P \in Nat : P = payload /\ P >= 2
  BY <1>k
<1>2. /\ transf_cnt = 0 /\ crc_rst' = FALSE /\ data_index' = 0 /\ rd' = TRUE
      /\ sent' = Shift(sent, 0) /\ state' = "WRITE_DAT" /\ UNCHANGED <<crc_in, crc_c>>
      /\ transf_cnt' = (0 + 1) % COUNT_MOD /\ DAT_oe_o' = Drives
  BY DEF WriteDat, SendStart, Goto
<1>3. card \in {"quiet", "mute"} /\ card' = card
  BY <1>k, <1>2, CardWaits
<1>4. transf_cnt' = 1
  BY <1>k, <1>2
<1>5. DAT_oe_o' = TRUE
  BY <1>k, <1>2 DEF Drives
<1>6. place' = 0
  BY <1>2, <1>k DEF place, perWord
<1>7. card = "mute" => crc_c' = 0
  BY <1>k, <1>2 DEF IInv, Invs, InvWriteDat
<1>8. ASSUME card # "mute"
      PROVE  sent' = Span(0, 0) /\ crc_c' = 16 /\ crc_calc' = Empty /\ popped' = 1
  <2>1. Sent(0) /\ crc_in = Off
    BY <1>k, <1>2, <1>8 DEF IInv, Invs, InvWriteDat
  <2>2. sent = Empty /\ popped = 0
    BY <2>1 DEF Sent
  <2>3. crc_c = 16 /\ crc_calc = First(0)
    <3>1. 0 <= P + 1
      OBVIOUS
    <3> QED
      BY <1>1, <2>1, <3>1 DEF Sent
  <2>4. sent' = Span(0, 0)
    BY <1>2, <2>2, ShiftSpan
  <2>5. popped' = 1
    BY <1>k, <1>2, <2>2 DEF WriteDat, FallingEdge
  <2>6. crc_calc' = Empty
    BY <1>2, <2>1, <2>3 DEF WriteDat, FallingEdge, First
  <2> QED
    BY <1>2, <2>3, <2>4, <2>5, <2>6
<1>9. card' # "mute" => Sent(transf_cnt)'
  <2>1. /\ 1 < P + 18 /\ 1 <= P + 1 /\ 1 <= P /\ ~(1 > P) /\ 1 - 1 = 0 /\ 1 # 0
        /\ 8 * (1 - 1) + 0 = 0
    BY <1>1
  <2>2. First(0) = Empty
    BY DEF First
  <2> QED
    BY <1>k, <1>1, <1>3, <1>4, <1>6, <1>8, <2>1, <2>2 DEF Sent
<1>10. InvWriteDat'
  <2>1. /\ 1 <= P + 23 + MaxAck /\ ~(1 >= P + 2) /\ ~(1 >= P + 20) /\ ~(1 >= P + 18)
        /\ ~(1 >= P + 19) /\ 1 \notin {P + 19, P + 20} /\ ~(1 >= P + 21)
        /\ 1 <= P + 20 + MaxAck /\ 1 < COUNT_MOD
    BY <1>k, <1>1
  <2> QED
    BY <1>k, <1>1, <1>2, <1>3, <1>4, <1>5, <1>7, <1>9, <2>1 DEF InvWriteDat
<1> QED
  BY <1>k, <1>2, <1>3, <1>10 DEF Invs, InvCard, InvWriteCrc, InvWriteBusy, InvReadWait,
     InvWords, InvReadDat, InvFinish

\* A position of the block is put on the lanes.
LEMMA FromSendBlock ==
  ASSUME IInv, WriteDat, SendBlock, Card, UNCHANGED inputVars, start # 3
  PROVE  Invs'
<1>k. /\ state = "WRITE_DAT" /\ bus_4bit_reg = TRUE /\ bus_4bit_reg' = TRUE /\ popped \in Nat
      /\ transf_cnt \in Nat /\ data_index \in 0 .. 31
      /\ payload \in Nat /\ payload >= 2 /\ data_cycles = payload + 2
      /\ COUNT_MOD \in Nat /\ MaxAck \in Nat /\ payload + 24 + MaxAck < COUNT_MOD
      /\ Words \in Nat /\ 8 * Words <= payload + 6 /\ 8 * Words >= payload
      /\ payload' = payload /\ Words' = Words
      /\ crc_status' = 0 /\ ~finish_o' /\ InvTransfer' /\ InvStart'
  BY WriteKeeps
<1>1. PICK P \in Nat : P = payload /\ P >= 2
  BY <1>k
<1>2. PICK t \in Nat : t = transf_cnt
  BY <1>k
<1>3. PICK W \in Nat : W = Words /\ 8 * W <= P + 6 /\ 8 * W >= P
  BY <1>k, <1>1
<1>4. /\ t > 0 /\ t < P + 18 /\ data_index' = (data_index + 1) % 32 /\ crc_rst' = crc_rst
      /\ rd' = Fetches /\ sent' = Shift(sent, DAT_dat_o') /\ state' = "WRITE_DAT"
      /\ transf_cnt' = (t + 1) % COUNT_MOD /\ DAT_oe_o' = Drives
      /\ t < P + 1 => DAT_dat_o' = FromFifo /\ crc_in' = FromFifo /\ crc_c' = crc_c
      /\ t >= P + 1 =>
           /\ crc_in' = Off
           /\ crc_c # 0 => /\ crc_c' = crc_c - 1
                           /\ crc_calc = First(P) => DAT_dat_o' = P + 17 - crc_c
           /\ crc_c = 0 => DAT_dat_o' = P + 17 /\ crc_c' = 0
  <2>1. /\ t > 0 /\ t < data_cycles + 16 /\ data_index' = (data_index + 1) % 32 /\ crc_rst' = crc_rst
        /\ rd' = Fetches /\ sent' = Shift(sent, DAT_dat_o') /\ state' = "WRITE_DAT"
        /\ transf_cnt' = (t + 1) % COUNT_MOD /\ DAT_oe_o' = Drives
    BY <1>2 DEF WriteDat, SendBlock, Goto
  <2>2. /\ t < DataEnds => DAT_dat_o' = FromFifo /\ crc_in' = FromFifo /\ crc_c' = crc_c
        /\ ~(t < DataEnds) =>
             /\ crc_in' = Off
             /\ crc_c # 0 => /\ crc_c' = crc_c - 1
                             /\ crc_calc = First(P) => DAT_dat_o' = P + 17 - crc_c
             /\ crc_c = 0 => DAT_dat_o' = P + 17 /\ crc_c' = 0
    BY <1>1, <1>2, Zenon DEF SendBlock
  <2>3. DataEnds = P + 1 /\ data_cycles + 16 = P + 18
    BY <1>k, <1>1 DEF DataEnds
  <2>4. ~(t < P + 1) <=> t >= P + 1
    OBVIOUS
  <2> QED
    BY <2>1, <2>2, <2>3, <2>4, Zenon
<1>5. card \in {"quiet", "mute"} /\ card' = card
  BY <1>k, <1>1, <1>2, <1>4, CardWaits
<1>6. transf_cnt' = t + 1
  BY <1>k, <1>1, <1>4
<1>7. DAT_oe_o' = TRUE
  BY <1>k, <1>1, <1>2, <1>4 DEF Drives
<1>8. crc_rst' = FALSE
  BY <1>k, <1>2, <1>4 DEF IInv, Invs, InvWriteDat
<1>9. card = "mute" => crc_c = 0 /\ crc_c' = 0
  <2>1. card = "mute" => crc_c = 0
    BY <1>k DEF IInv, Invs, InvWriteDat
  <2> QED
    BY <1>1, <1>2, <1>4, <2>1
<1>10. card # "mute" => Sent(t)
  BY <1>k, <1>2 DEF IInv, Invs, InvWriteDat
<1>11. /\ place \in 0 .. 7
       /\ place' = (IF place = 7 THEN 0 ELSE place + 1)
       /\ FromFifo = (popped - 1) * 8 + place + 1
       /\ rd' = (place = 7 /\ t < P)
  <2>1. place = data_index % 8 /\ place' = data_index' % 8 /\ perWord = 8
    BY <1>k DEF place, perWord
  <2>2. \A i \in 0 .. 31 : /\ i % 8 \in 0 .. 7
                           /\ ((i + 1) % 32) % 8 = (IF i % 8 = 7 THEN 0 ELSE (i % 8) + 1)
    OBVIOUS
  <2>3. place \in 0 .. 7 /\ place' = (IF place = 7 THEN 0 ELSE place + 1)
    BY <1>k, <1>4, <2>1, <2>2, Zenon
  <2>4. FromFifo = (popped - 1) * 8 + place + 1
    BY <2>1, Zenon DEF FromFifo
  <2>5. data_cycles - 2 = P
    BY <1>k, <1>1
  <2>6. rd' = (place = 7 /\ t < P)
    BY <1>k, <1>2, <1>4, <2>5, Zenon DEF Fetches
  <2> QED
    BY <2>3, <2>4, <2>6
<1>12. popped' = IF (place = 7 /\ t < P) /\ popped < 2 * W THEN popped + 1 ELSE popped
  BY <1>3, <1>11, Zenon DEF WriteDat, FallingEdge
<1>13. crc_calc' = IF crc_in' # Off THEN Shift(crc_calc, crc_in') ELSE crc_calc
  BY <1>8 DEF WriteDat, FallingEdge
<1>14. t >= P + 17 => DAT_dat_o' = P + 17
  <2>1. t >= P + 17 /\ card # "mute" => crc_c = 0
    BY <1>1, <1>4, <1>10 DEF Sent
  <2> QED
    BY <1>1, <1>4, <1>9, <2>1
<1>15. ASSUME card # "mute", t <= P
       PROVE  Sent(transf_cnt)'
  <2>1. /\ sent = Span(0, t - 1) /\ crc_c = 16 /\ crc_calc = First(t - 1)
        /\ 8 * (popped - 1) + place = t - 1 /\ popped >= 1
    <3>1. t # 0 /\ t < P + 18 /\ t <= P + 1 /\ t \in 1 .. P
      BY <1>4, <1>15
    <3> QED
      BY <1>1, <1>10, <1>15, <3>1, Zenon DEF Sent
  <2>2. DAT_dat_o' = t /\ crc_in' = t /\ crc_c' = 16
    <3>1. FromFifo = t
      BY <1>k, <1>11, <2>1
    <3>2. t < P + 1
      BY <1>15
    <3> QED
      BY <1>4, <2>1, <3>1, <3>2
  <2>3. sent' = Span(0, t)
    <3>1. t - 1 \in Nat /\ (t - 1) + 1 = t /\ t - 1 >= 0
      BY <1>4
    <3>2. Shift(Span(0, t - 1), (t - 1) + 1) = Span(0, (t - 1) + 1)
      BY <3>1, ShiftSpan
    <3> QED
      BY <1>4, <2>1, <2>2, <3>1, <3>2
  <2>4. crc_calc' = First(t)
    <3>1. t - 1 \in Nat /\ (t - 1) + 1 = t /\ t # Off
      BY <1>4 DEF Off
    <3>2. Shift(First(t - 1), (t - 1) + 1) = First((t - 1) + 1)
      BY <3>1, ShiftFirst
    <3> QED
      BY <1>13, <2>1, <2>2, <3>1, <3>2
  <2>5. /\ t < P => 8 * (popped' - 1) + place' = t /\ popped' >= 1
        /\ t = P => popped' = W
    <3>1. CASE t < P /\ place = 7
      <4>1. popped < 2 * W
        BY <1>k, <1>3, <2>1, <3>1
      <4> QED
        BY <1>k, <1>11, <1>12, <2>1, <3>1, <4>1
    <3>2. CASE t < P /\ place # 7
      BY <1>k, <1>11, <1>12, <2>1, <3>2
    <3>3. CASE t = P
      <4>1. popped' = popped
        BY <1>12, <3>3
      <4>2. popped = W
        BY <1>k, <1>3, <1>11, <2>1, <3>3
      <4> QED
        BY <3>3, <4>1, <4>2
    <3> QED
      BY <1>15, <3>1, <3>2, <3>3
  <2>6. PICK u \in Nat : u = t + 1 /\ u # 0 /\ u < P + 18 /\ u - 1 = t /\ u <= P + 1
                         /\ (u <= P <=> t < P) /\ (u > P <=> t = P)
    BY <1>15
  <2>7. First(IF u <= P THEN u - 1 ELSE P) = First(t)
    BY <1>15, <2>6
  <2>8. transf_cnt' = u /\ payload' = P /\ Words' = W
    BY <1>k, <1>1, <1>3, <1>6, <2>6
  <2>9. /\ sent' = (IF u = 0 THEN Empty ELSE Span(0, IF u < P + 18 THEN u - 1 ELSE P + 17))
        /\ crc_c' = (IF u <= P + 1 THEN 16 ELSE IF u <= P + 17 THEN P + 17 - u ELSE 0)
    BY <2>2, <2>3, <2>6
  <2>10. crc_calc' = First(IF u = 0 THEN 0 ELSE IF u <= P THEN u - 1 ELSE P)
    BY <2>4, <2>6, <2>7
  <2>11. /\ u = 0 => popped' = 0
         /\ u \in 1 .. P => 8 * (popped' - 1) + place' = u - 1 /\ popped' >= 1
         /\ u > P => popped' = W
    BY <2>5, <2>6
  <2> QED
    BY <2>8, <2>9, <2>10, <2>11, Zenon DEF Sent
<1>16. ASSUME card # "mute", t > P
       PROVE  Sent(transf_cnt)'
  <2>1. /\ sent = Span(0, t - 1) /\ crc_calc = First(P) /\ popped = W
        /\ crc_c = P + 17 - t
    <3>2. /\ t # 0 /\ t < P + 18 /\ ~(t <= P) /\ t <= P + 17
      BY <1>4, <1>16
    <3>3. crc_c = (IF t <= P + 1 THEN 16 ELSE IF t <= P + 17 THEN P + 17 - t ELSE 0)
      BY <1>1, <1>10, <1>16, Zenon DEF Sent
    <3>4. crc_c = P + 17 - t
      BY <1>16, <3>2, <3>3
    <3> QED
      BY <1>1, <1>3, <1>10, <1>16, <3>2, <3>4, Zenon DEF Sent
  <2>2. t >= P + 1 /\ t <= P + 17
    BY <1>4, <1>16
  <2>3. DAT_dat_o' = t /\ crc_in' = Off /\ crc_c' = (IF t <= P + 16 THEN P + 16 - t ELSE 0)
    <3>1. CASE t <= P + 16
      <4>1. crc_c # 0 /\ P + 17 - crc_c = t /\ crc_c - 1 = P + 16 - t
        BY <2>1, <2>2, <3>1
      <4> QED
        BY <1>4, <2>1, <2>2, <3>1, <4>1, Zenon
    <3>2. CASE ~(t <= P + 16)
      <4>1. crc_c = 0 /\ P + 17 = t
        BY <2>1, <2>2, <3>2
      <4> QED
        BY <1>4, <2>2, <3>2, <4>1, Zenon
    <3> QED
      BY <3>1, <3>2
  <2>4. sent' = Span(0, t)
    <3>1. t - 1 \in Nat /\ (t - 1) + 1 = t /\ t - 1 >= 0
      BY <1>4
    <3>2. Shift(Span(0, t - 1), (t - 1) + 1) = Span(0, (t - 1) + 1)
      BY <3>1, ShiftSpan
    <3> QED
      BY <1>4, <2>1, <2>3, <3>1, <3>2
  <2>5. crc_calc' = First(P) /\ popped' = W
    BY <1>12, <1>13, <1>16, <2>1, <2>3
  <2>6. PICK u \in Nat : u = t + 1 /\ u # 0 /\ (u < P + 18 <=> t <= P + 16) /\ u - 1 = t /\ u > P + 1
                         /\ u > P /\ (u <= P + 17 <=> t <= P + 16)
    BY <1>16
  <2>8. transf_cnt' = u /\ payload' = P /\ Words' = W
    BY <1>k, <1>1, <1>3, <1>6, <2>6
  <2>9. sent' = (IF u = 0 THEN Empty ELSE Span(0, IF u < P + 18 THEN u - 1 ELSE P + 17))
    BY <2>2, <2>4, <2>6
  <2>10. crc_c' = (IF u <= P + 1 THEN 16 ELSE IF u <= P + 17 THEN P + 17 - u ELSE 0)
    BY <2>3, <2>6
  <2>11. crc_calc' = First(IF u = 0 THEN 0 ELSE IF u <= P THEN u - 1 ELSE P)
    BY <2>5, <2>6
  <2>12. /\ u = 0 => popped' = 0
         /\ u \in 1 .. P => 8 * (popped' - 1) + place' = u - 1 /\ popped' >= 1
         /\ u > P => popped' = W
    BY <2>5, <2>6
  <2> QED
    BY <2>8, <2>9, <2>10, <2>11, <2>12, Zenon DEF Sent
<1>17. card' # "mute" => Sent(transf_cnt)'
  <2>1. t <= P \/ t > P
    OBVIOUS
  <2> QED
    BY <1>5, <1>15, <1>16, <2>1
<1>18. InvWriteDat'
  <2>1. PICK u \in Nat : u = t + 1 /\ u >= 1 /\ u <= P + 18
    BY <1>4
  <2>2. /\ u <= P + 23 + MaxAck /\ u # 0 /\ (u >= P + 2 => t >= P + 1) /\ ~(u >= P + 20)
        /\ (u >= P + 18 => t >= P + 17) /\ ~(u >= P + 19) /\ u \notin {P + 19, P + 20}
        /\ ~(u >= P + 21) /\ u <= P + 20 + MaxAck /\ u < COUNT_MOD
    BY <1>k, <1>1, <2>1
  <2>3. transf_cnt' = u /\ payload' = P
    BY <1>k, <1>1, <1>6, <2>1
  <2> QED
    BY <1>k, <1>4, <1>5, <1>7, <1>8, <1>9, <1>14, <1>17, <2>2, <2>3 DEF InvWriteDat
<1> QED
  BY <1>k, <1>4, <1>5, <1>18 DEF Invs, InvCard, InvWriteCrc, InvWriteBusy, InvReadWait,
     InvWords, InvReadDat, InvFinish

\* The block is out; the host releases the lanes and waits for the status.
LEMMA FromAwaitStatus ==
  ASSUME IInv, WriteDat, AwaitStatus, Card, UNCHANGED inputVars, start # 3
  PROVE  Invs'
<1>k. /\ state = "WRITE_DAT" /\ bus_4bit_reg' = TRUE /\ popped \in Nat
      /\ transf_cnt \in Nat /\ BlockSize = payload
      /\ payload \in Nat /\ payload >= 2 /\ data_cycles = payload + 2
      /\ COUNT_MOD \in Nat /\ MaxAck \in Nat /\ payload + 24 + MaxAck < COUNT_MOD
      /\ payload' = payload /\ Words' = Words /\ card \in {"quiet", "status", "mute"}
      /\ crc_status' = 0 /\ ~finish_o' /\ InvTransfer' /\ InvStart'
  BY WriteKeeps
<1>1. PICK P \in Nat : P = payload /\ P >= 2
  BY <1>k
<1>2. PICK t \in Nat : t = transf_cnt
  BY <1>k
<1>3. /\ t >= P + 18 /\ rd' = FALSE /\ transf_cnt' = (t + 1) % COUNT_MOD
      /\ UNCHANGED <<crc_rst, crc_in, crc_c, DAT_dat_o, sent>> /\ DAT_dat_reg' = DAT_dat_i
      /\ DAT_oe_o' = (IF t = P + 18 THEN DAT_oe_o ELSE FALSE)
  <2>1. data_cycles + 16 = P + 18 /\ data_cycles + 17 = P + 19
    BY <1>k, <1>1
  <2>2. /\ transf_cnt >= data_cycles + 16 /\ rd' = FALSE
        /\ UNCHANGED <<crc_rst, crc_in, crc_c, DAT_dat_o, sent>>
    <3>1. transf_cnt >= data_cycles + 16 /\ rd' = FALSE
      BY Zenon DEF AwaitStatus
    <3>2. UNCHANGED <<sd_transf_cnt, data_index, crc_rst, crc_in, crc_c, DAT_dat_o, sent>>
      BY Zenon DEF AwaitStatus
    <3> QED
      BY <3>1, <3>2
  <2>4. transf_cnt' = (transf_cnt + 1) % COUNT_MOD /\ DAT_dat_reg' = DAT_dat_i /\ DAT_oe_o' = Drives
    BY DEF WriteDat, EveryEdge
  <2>5. t >= P + 18 /\ transf_cnt' = (t + 1) % COUNT_MOD
    BY <1>2, <2>1, <2>2, <2>4, Zenon
  <2>3. DAT_oe_o' = (IF t = P + 18 THEN DAT_oe_o ELSE FALSE)
    <3>1. Drives = IF t < P + 18 THEN TRUE ELSE IF t >= P + 19 THEN FALSE ELSE DAT_oe_o
      BY <1>2, <2>1, Zenon DEF Drives
    <3>2. ~(t < P + 18) /\ (t >= P + 19 <=> t # P + 18)
      BY <2>5
    <3> QED
      BY <2>4, <3>1, <3>2, Zenon
  <2> QED
    BY <2>2, <2>3, <2>4, <2>5
<1>4. /\ IF card = "mute" THEN crc_c = 0 ELSE Sent(t) /\ t <= P + 23 + MaxAck
      /\ t >= 1 => ~crc_rst /\ t < COUNT_MOD
      /\ t >= P + 2 => crc_in = Off
      /\ t \in 1 .. P + 19 => DAT_oe_o
      /\ t >= P + 20 => ~DAT_oe_o
      /\ t >= P + 18 => DAT_dat_o = P + 17
      /\ t \in {P + 19, P + 20} => DAT_dat_reg = P + 17
      /\ t >= P + 21 => DAT_dat_reg = (IF card = "status" /\ cardCnt = 1 THEN 0 ELSE High)
      /\ card = "status" => cardCnt \in {0, 1} /\ t >= P + 21 + cardCnt
                              /\ t <= P + 21 + MaxAck + cardCnt
      /\ card = "quiet" => t <= P + 20 + MaxAck
  BY <1>k, <1>1, <1>2 DEF IInv, Invs, InvWriteDat
<1>5. /\ ~crc_rst' /\ crc_in' = Off /\ DAT_dat_o' = P + 17
      /\ (t \in {P + 18, P + 19} => DAT_oe_o)
  BY <1>1, <1>3, <1>4
<1>6. popped' = popped /\ crc_calc' = crc_calc
  BY <1>3, <1>5 DEF WriteDat, FallingEdge
<1>7. card # "mute" => transf_cnt' = t + 1
  BY <1>k, <1>1, <1>3, <1>4
<1>8. card # "mute" => /\ sent' = Span(0, P + 17) /\ crc_c' = 0 /\ crc_calc' = First(P)
                       /\ popped' = Words
  <2> SUFFICES ASSUME card # "mute"
               PROVE  sent' = Span(0, P + 17) /\ crc_c' = 0 /\ crc_calc' = First(P) /\ popped' = Words
    OBVIOUS
  <2>1. t # 0 /\ ~(t < P + 18) /\ ~(t <= P + 1) /\ ~(t <= P + 17) /\ ~(t <= P) /\ t > P
    BY <1>3
  <2>2. sent = Span(0, P + 17) /\ crc_c = 0
    BY <1>1, <1>4, <2>1, Zenon DEF Sent
  <2>3. crc_calc = First(P) /\ popped = Words
    BY <1>1, <1>4, <2>1, Zenon DEF Sent
  <2> QED
    BY <1>3, <1>6, <2>2, <2>3
<1>9. t + 1 = COUNT_MOD => card = "mute"
  BY <1>k, <1>1, <1>4
<1>10. PICK T \in Nat : T = transf_cnt' /\ T < COUNT_MOD /\ (T = t + 1 \/ (card = "mute" /\ T = 0))
  <2>1. CASE t + 1 < COUNT_MOD
    BY <1>k, <1>3, <2>1
  <2>2. CASE t + 1 = COUNT_MOD
    BY <1>k, <1>3, <1>9, <2>2
  <2> QED
    BY <1>k, <1>3, <1>4, <2>1, <2>2
<1>11. DAT_dat_reg' = (IF t \in {P + 18, P + 19} THEN P + 17
                       ELSE IF card = "status" THEN cardCnt ELSE High)
  <2>1. t >= P + 20 => ~DAT_oe_o
    BY <1>4
  <2>2. t \in {P + 18, P + 19} => DAT_oe_o /\ DAT_dat_o = P + 17
    BY <1>3, <1>4, <1>5
  <2>3. t \in {P + 18, P + 19} \/ t >= P + 20
    BY <1>3
  <2>4. P + 20 > P + 19
    OBVIOUS
  <2> QED
    BY <1>k, <1>3, <2>1, <2>2, <2>3 DEF DAT_dat_i
<1>12. card' \in {"quiet", "status", "mute"} /\ cardCnt' \in Nat
  <2>1. card = "status" => cardCnt < 4
    BY <1>4
  <2> QED
    BY <1>k, <2>1, CardMoves, CardTypes DEF IInv, TypeOK, TypeCard
<1>13. /\ card = "mute" => card' = "mute"
       /\ card = "status" => card' = "status" /\ cardCnt' = cardCnt + 1
       /\ card = "quiet" => \/ card' = "quiet" /\ t < P + 20 + MaxAck
                            \/ card' \in {"status", "mute"} /\ cardCnt' = 0 /\ t >= P + 20
  <2>1. StatusDue = P + 20
    BY <1>k, <1>1 DEF StatusDue
  <2>2. card = "status" => cardCnt \in {0, 1}
    BY <1>4
  <2>3. card = "mute" => card' = "mute"
    BY <1>k, CardMoves
  <2>4. card = "status" => card' = "status" /\ cardCnt' = cardCnt + 1
    BY <2>2, CardMoves
  <2>5. card = "quiet" => \/ card' = "quiet" /\ ~(transf_cnt >= StatusDue + MaxAck)
                          \/ card' \in {"status", "mute"} /\ cardCnt' = 0 /\ transf_cnt >= StatusDue
    BY <1>k, CardMoves
  <2>6. (~(t >= (P + 20) + MaxAck)) => t < P + 20 + MaxAck
    BY <1>k
  <2> QED
    BY <1>2, <2>1, <2>3, <2>4, <2>5, <2>6, Zenon
<1>14. /\ state' \in {"WRITE_DAT", "WRITE_CRC"}
       /\ state' = "WRITE_CRC" <=> (card = "status" /\ cardCnt = 1)
       /\ state' = "WRITE_CRC" => crc_s' = Span(0, 0)
  <2>1. CASE t = P + 18
    <3>1. state' = "WRITE_DAT"
      BY <1>k, <1>1, <1>2, <2>1 DEF AwaitStatus, Goto
    <3>2. card # "status"
      BY <1>4, <2>1
    <3> QED
      BY <3>1, <3>2
  <2>2. CASE t # P + 18
    <3>1. t >= P + 19 /\ transf_cnt >= data_cycles + 17
      BY <1>k, <1>1, <1>2, <1>3, <2>2
    <3>2. /\ crc_s' = Span(DAT_dat_reg, DAT_dat_reg)
          /\ \E level \in Levels(DAT_dat_reg) : state' = IF level = 0 THEN "WRITE_CRC" ELSE "WRITE_DAT"
      BY <3>1 DEF AwaitStatus, Goto
    <3>3. CASE card = "status" /\ cardCnt = 1
      <4>1. DAT_dat_reg = 0
        BY <1>4, <3>3
      <4> QED
        BY <3>2, <3>3, <4>1, LevelFacts
    <3>4. CASE ~(card = "status" /\ cardCnt = 1)
      <4>1. DAT_dat_reg = P + 17 \/ DAT_dat_reg = High
        BY <1>4, <3>1, <3>4
      <4>2. Levels(P + 17) = {1} /\ Levels(High) = {1}
        BY <1>1, LevelFacts
      <4>3. state' = "WRITE_DAT"
        BY <3>2, <4>1, <4>2
      <4> QED
        BY <3>4, <4>3
    <3> QED
      BY <3>3, <3>4
  <2> QED
    BY <2>1, <2>2
<1>15. CASE state' = "WRITE_CRC"
  <2>1. card = "status" /\ cardCnt = 1 /\ crc_s' = Span(0, 0)
    BY <1>14, <1>15
  <2>2. card' = "status" /\ cardCnt' = 2
    BY <1>13, <2>1
  <2>3. t >= P + 22
    BY <1>1, <1>4, <2>1
  <2>4. DAT_dat_reg' = 1 /\ ~DAT_oe_o'
    BY <1>3, <1>11, <2>1, <2>3
  <2>5. Out'
    BY <1>k, <1>1, <1>3, <1>8, <2>1, <2>4 DEF Out
  <2>6. InvWriteCrc'
    BY <1>k, <2>1, <2>2, <2>4, <2>5 DEF InvWriteCrc
  <2> QED
    BY <1>k, <1>15, <2>2, <2>6 DEF Invs, InvCard, InvWriteDat, InvWriteBusy, InvReadWait,
       InvWords, InvReadDat, InvFinish
<1>16. CASE state' = "WRITE_DAT" /\ T = 0
  <2>1. card' = "mute" /\ crc_c' = 0
    BY <1>3, <1>4, <1>10, <1>13, <1>16
  <2>2. /\ ~(T >= 1) /\ ~(T >= P + 2) /\ T \notin 1 .. P + 19 /\ ~(T >= P + 20) /\ ~(T >= P + 18)
        /\ ~(T >= P + 19) /\ T \notin {P + 19, P + 20} /\ ~(T >= P + 21)
    BY <1>16
  <2>3. InvWriteDat'
    BY <1>k, <1>1, <1>10, <2>1, <2>2 DEF InvWriteDat
  <2> QED
    BY <1>k, <1>16, <2>1, <2>3 DEF Invs, InvCard, InvWriteCrc, InvWriteBusy, InvReadWait,
       InvWords, InvReadDat, InvFinish
<1>17. CASE state' = "WRITE_DAT" /\ T = t + 1
  <2>1. card' # "mute" => Sent(transf_cnt)'
    <3>1. card' # "mute" => card # "mute"
      BY <1>13
    <3>2. /\ T # 0 /\ ~(T < P + 18) /\ ~(T <= P + 1) /\ ~(T <= P + 17) /\ ~(T <= P) /\ T > P
          /\ T \notin 1 .. P
      BY <1>3, <1>17
    <3> QED
      BY <1>k, <1>1, <1>8, <1>10, <3>1, <3>2, Zenon DEF Sent
  <2>2. card' = "mute" => crc_c' = 0
    BY <1>3, <1>4, <1>8
  <2>3. card = "status" => cardCnt = 0
    BY <1>4, <1>14, <1>17
  <2>4. /\ card' = "status" => cardCnt' \in {0, 1} /\ T >= P + 21 + cardCnt'
                                 /\ T <= P + 21 + MaxAck + cardCnt'
        /\ card' = "quiet" => T <= P + 20 + MaxAck
        /\ card' # "mute" => T <= P + 23 + MaxAck
    <3>1. CASE card = "status"
      BY <1>k, <1>4, <1>13, <1>17, <2>3, <3>1
    <3>2. CASE card = "quiet"
      <4>1. T <= P + 21 + MaxAck /\ T <= P + 23 + MaxAck
        BY <1>k, <1>4, <1>17, <3>2
      <4>2. card' = "quiet" => T <= P + 20 + MaxAck
        BY <1>k, <1>13, <1>17, <3>2
      <4>3. card' = "status" => cardCnt' = 0 /\ T >= P + 21
        BY <1>13, <1>17, <3>2
      <4> QED
        BY <1>k, <4>1, <4>2, <4>3
    <3>3. CASE card = "mute"
      BY <1>13, <3>3
    <3> QED
      BY <1>k, <3>1, <3>2, <3>3
  <2>5. /\ T \in {P + 19, P + 20} => DAT_dat_reg' = P + 17
        /\ T >= P + 21 => DAT_dat_reg' = (IF card' = "status" /\ cardCnt' = 1 THEN 0 ELSE High)
    <3>1. CASE T \in {P + 19, P + 20}
      <4>1. t \in {P + 18, P + 19} /\ ~(T >= P + 21)
        BY <1>17, <3>1
      <4> QED
        BY <1>11, <4>1
    <3>2. CASE T \notin {P + 19, P + 20}
      <4>1. t \notin {P + 18, P + 19}
        BY <1>17, <3>2
      <4>2. DAT_dat_reg' = (IF card = "status" THEN 0 ELSE High)
        BY <1>11, <2>3, <4>1
      <4>3. card = "status" <=> (card' = "status" /\ cardCnt' = 1)
        BY <1>k, <1>13, <2>3
      <4> QED
        BY <3>2, <4>2, <4>3
    <3> QED
      BY <3>1, <3>2
  <2>6. /\ T \in 1 .. P + 19 => DAT_oe_o'
        /\ T >= P + 20 => ~DAT_oe_o'
    BY <1>3, <1>5, <1>17
  <2>7. InvWriteDat'
    <3>1. payload' = P /\ transf_cnt' = T
      BY <1>k, <1>1, <1>10
    <3>2. T # 0
      BY <1>17
    <3>3. /\ crc_status' = 0 /\ T < COUNT_MOD
          /\ card' # "mute" /\ T = 0 => crc_in' = Off
          /\ T >= 1 => ~crc_rst'
          /\ T >= P + 2 => crc_in' = Off
          /\ T >= P + 18 => DAT_dat_o' = P + 17
          /\ T >= P + 19 => ~rd'
      BY <1>k, <1>3, <1>5, <1>10, <3>2
    <3>4. IF card' = "mute" THEN crc_c' = 0 ELSE Sent(transf_cnt)' /\ T <= P + 23 + MaxAck
      BY <2>1, <2>2, <2>4
    <3> QED
      BY <2>4, <2>5, <2>6, <3>1, <3>3, <3>4, Zenon DEF InvWriteDat
  <2> QED
    BY <1>k, <1>12, <1>17, <2>7 DEF Invs, InvCard, InvWriteCrc, InvWriteBusy, InvReadWait,
       InvWords, InvReadDat, InvFinish
<1> QED
  BY <1>10, <1>14, <1>15, <1>16, <1>17

\* WRITE_DAT, by its three kinds of edge.
LEMMA FromWriteDat ==
  ASSUME IInv, WriteDat, Card, UNCHANGED inputVars
  PROVE  Invs'
<1>1. CASE start = 3
  BY <1>1, Aborts, InIdle DEF Host
<1>2. CASE start # 3
  BY <1>2, FromSendStart, FromSendBlock, FromAwaitStatus DEF WriteDat
<1> QED
  BY <1>1, <1>2

-----------------------------------------------------------------------------
(* The invariant is inductive. *)

\* Every edge of the clock preserves the invariant.
LEMMA ClockIInv ==
  ASSUME IInv, WideWrites, Clock, UNCHANGED inputVars
  PROVE  IInv'
<1>1. TypeOK'
  BY ClockTypes DEF IInv
<1>2. Host /\ Card
  BY DEF Clock
<1>3. Invs'
  <2>1. CASE Idle
    BY <1>2, <2>1, FromIdle
  <2>2. CASE WriteDat
    BY <1>2, <2>2, FromWriteDat
  <2>3. CASE WriteCrc
    BY <1>2, <2>3, FromWriteCrc
  <2>4. CASE WriteBusy
    BY <1>2, <2>4, FromWriteBusy
  <2>5. CASE ReadWait
    BY <1>2, <2>5, FromReadWait
  <2>6. CASE ReadDat
    BY <1>2, <2>6, FromReadDat
  <2>7. CASE Finish
    BY <1>2, <2>7, FromFinish
  <2> QED
    BY <1>2, <2>1, <2>2, <2>3, <2>4, <2>5, <2>6, <2>7, Zenon DEF Host
<1> QED
  BY <1>1, <1>3 DEF IInv

\* A machine whose registers stand still keeps all that is said of them.
LEMMA HostStands ==
  ASSUME IInv, UNCHANGED <<hostVars, cardVars>>
  PROVE  /\ TypeNumbers' /\ TypeSpans' /\ TypeFlags' /\ TypeCard'
         /\ InvCard' /\ InvFinish' /\ outcome' = outcome /\ phase' = phase
<1>1. TypeNumbers' /\ TypeSpans' /\ TypeFlags' /\ TypeCard'
  BY DEF IInv, TypeOK, TypeNumbers, TypeSpans, TypeFlags, TypeCard, hostVars, cardVars, crcVars,
         wordVars, padVars, fifoVars
<1>2. payload' = payload /\ perWord' = perWord
  BY DEF payload, perWord, hostVars
<1>3. outcome' = outcome
  BY <1>2, Zenon DEF outcome, hostVars, crcVars, fifoVars
<1>4. phase' = phase /\ InvCard'
  BY DEF phase, InvCard, IInv, Invs, hostVars, cardVars
<1>5. InvFinish'
  BY <1>3 DEF InvFinish, IInv, Invs, hostVars, wordVars, padVars
<1> QED
  BY <1>1, <1>3, <1>4, <1>5

\* So does a new start code, and a step that changes nothing.
LEMMA SetStartIInv ==
  ASSUME IInv, \/ SetStart
               \/ UNCHANGED vars
  PROVE  IInv'
<1>1. UNCHANGED <<bus_4bit, blksize, timeout_i, hostVars, cardVars>>
  BY DEF SetStart, vars, inputVars
<1>2. TypeNumbers' /\ TypeSpans' /\ TypeFlags' /\ TypeCard' /\ InvCard' /\ InvFinish'
  BY <1>1, HostStands
<1>3. TypeInputs'
  <2>1. start' \in 0 .. 3
    BY DEF IInv, TypeOK, TypeInputs, SetStart, vars, inputVars
  <2> QED
    BY <1>1, <2>1 DEF IInv, TypeOK, TypeInputs
<1>4. InvStart'
  <2>1. CASE SetStart
    BY <1>1, <2>1 DEF SetStart, InvStart, AnswerDue, StatusDue, BlockSize, hostVars, cardVars
  <2>2. CASE UNCHANGED vars
    BY <2>2 DEF vars, inputVars, hostVars, cardVars, InvStart, AnswerDue, StatusDue, BlockSize,
                IInv, Invs
  <2> QED
    BY <2>1, <2>2
<1>5. payload' = payload /\ perWord' = perWord /\ place' = place /\ Words' = Words
      /\ BlockSize' = BlockSize
  BY <1>1 DEF payload, perWord, place, Words, BlockSize, hostVars
<1>6. Taken' = Taken /\ Whole' = Whole
  BY <1>1, <1>5 DEF Taken, Whole, hostVars
<1>7. Sent(transf_cnt)' <=> Sent(transf_cnt)
  BY <1>1, <1>5, Zenon DEF Sent, hostVars, crcVars, fifoVars
<1>8. InvTransfer'
  BY <1>1 DEF InvTransfer, Moving, IInv, Invs, hostVars, wordVars, padVars
<1>9. InvWriteDat'
  BY <1>1, <1>5, <1>7, Zenon DEF InvWriteDat, IInv, Invs, hostVars, crcVars, padVars, cardVars
<1>10. InvWriteCrc' /\ InvWriteBusy'
  BY <1>1, <1>5, Zenon DEF InvWriteCrc, InvWriteBusy, Out, IInv, Invs, hostVars, crcVars, padVars,
     cardVars, fifoVars
<1>11. InvReadWait'
  BY <1>1, Zenon DEF InvReadWait, IInv, Invs, hostVars, crcVars, fifoVars, wordVars, cardVars
<1>12. InvWords'
  BY <1>1, <1>5, <1>6, Zenon DEF InvWords, IInv, Invs, hostVars, fifoVars, wordVars
<1>13. InvReadDat'
  BY <1>1, <1>5, <1>6, Zenon DEF InvReadDat, IInv, Invs, hostVars, crcVars, cardVars
<1> QED
  BY <1>2, <1>3, <1>4, <1>8, <1>9, <1>10, <1>11, <1>12, <1>13 DEF IInv, TypeOK, Invs

\* So does a write of the registers between transfers.
LEMMA SetRegistersIInv ==
  ASSUME IInv, SetRegisters
  PROVE  IInv'
<1>1. /\ state \in {"IDLE", "FINISH"} /\ card = "quiet" /\ start = 0
      /\ UNCHANGED <<start, hostVars, cardVars>>
  BY DEF SetRegisters
<1>2. TypeNumbers' /\ TypeSpans' /\ TypeFlags' /\ TypeCard' /\ InvCard' /\ InvFinish'
  BY <1>1, HostStands
<1>3. TypeInputs'
  BY <1>1 DEF IInv, TypeOK, TypeInputs, SetRegisters
<1>4. state' \in {"IDLE", "FINISH"} /\ start' = 0
  BY <1>1 DEF hostVars
<1>5. Invs'
  BY <1>2, <1>4 DEF Invs, InvStart, InvTransfer, Moving, InvWriteDat, InvWriteCrc, InvWriteBusy,
     InvReadWait, InvWords, InvReadDat
<1> QED
  BY <1>2, <1>3, <1>5 DEF IInv, TypeOK

\* So does a reset.
LEMMA ResetIInv ==
  ASSUME IInv, Reset
  PROVE  IInv'
<1>1. card \in {"quiet", "mute"} /\ UNCHANGED <<crc_din, inputVars, cardVars>> /\ state' = "IDLE"
  BY DEF Reset
<1>2. TypeInputs' /\ TypeCard'
  BY <1>1 DEF IInv, TypeOK, TypeInputs, TypeCard, inputVars, cardVars
<1>3. TypeNumbers'
  BY DEF Reset, TypeNumbers, States, Off, Busy
<1>4. TypeSpans'
  BY <1>1, SpanTypes, Zenon DEF Reset, TypeSpans, IInv, TypeOK
<1>5. TypeFlags'
  BY Zenon DEF Reset, TypeFlags
<1>6. InvStart' /\ card' \in {"quiet", "mute"}
  BY <1>1 DEF InvStart, AnswerDue, IInv, Invs, inputVars, cardVars
<1>7. Invs'
  BY <1>1, <1>6, InIdle
<1> QED
  BY <1>2, <1>3, <1>4, <1>5, <1>7 DEF IInv, TypeOK

\* The invariant holds at power up.
LEMMA InitIInv ==
  ASSUME Init
  PROVE  IInv
<1>0. start = 0 /\ card = "quiet" /\ cardCnt = 0 /\ cardGood = FALSE
  BY DEF Init
<1>1. TypeInputs /\ TypeCard
  <2>1. TypeInputs
    BY <1>0 DEF Init, TypeInputs
  <2>2. TypeCard
    BY <1>0 DEF TypeCard
  <2> QED
    BY <2>1, <2>2
<1>2. TypeNumbers
  BY DEF Init, Cleared, TypeNumbers, States, Off, Busy
<1>3. TypeSpans
  BY SpanTypes, Zenon DEF Init, Cleared, TypeSpans
<1>4. TypeFlags
  BY Zenon DEF Init, Cleared, TypeFlags
<1>5. state = "IDLE" /\ card = "quiet" /\ start = 0
  BY DEF Init, Cleared
<1>6. Invs
  BY <1>5 DEF Invs, InvStart, InvCard, InvTransfer, Moving, InvWriteDat, InvWriteCrc,
     InvWriteBusy, InvReadWait, InvWords, InvReadDat, InvFinish
<1> QED
  BY <1>1, <1>2, <1>3, <1>4, <1>6 DEF IInv, TypeOK

\* Every step preserves the invariant.
LEMMA NextIInv ==
  ASSUME IInv, WideWrites, [Next]_vars
  PROVE  IInv'
BY ClockIInv, SetStartIInv, SetRegistersIInv, ResetIInv DEF Next

\* The invariant holds in every reachable state.
THEOREM Inductive ==
  ASSUME WideWrites
  PROVE  Spec => []IInv
<1>1. Init => IInv
  BY InitIInv
<1>2. IInv /\ [Next]_vars => IInv'
  BY NextIInv
<1> QED
  BY <1>1, <1>2, PTL DEF Spec

-----------------------------------------------------------------------------
(* The properties. *)

\* The host and the card never drive the DAT lanes at once, and the card talks
\* only to a host that listens.
THEOREM LanesOwnedHolds ==
  ASSUME WideWrites
  PROVE  Spec => []LanesOwned
<1>1. IInv => LanesOwned
  <2> SUFFICES ASSUME IInv PROVE LanesOwned
    OBVIOUS
  <2>1. CASE card = "sending"
    BY <2>1 DEF IInv, Invs, InvCard, InvTransfer, Moving, LanesOwned
  <2>2. CASE card = "status"
    <3>1. CASE state = "WRITE_DAT"
      <4>1. /\ transf_cnt \in Nat /\ TypeInputs /\ bus_4bit_reg \in BOOLEAN /\ cardCnt \in {0, 1}
            /\ data_cycles = DataCycles(blksize, bus_4bit_reg)
        BY <2>2, <3>1 DEF IInv, TypeOK, TypeNumbers, TypeFlags, Invs, InvTransfer, Moving, InvWriteDat
      <4>2. transf_cnt >= payload + 21 + cardCnt /\ (transf_cnt >= payload + 20 => ~DAT_oe_o)
        BY <2>2, <3>1 DEF IInv, Invs, InvWriteDat
      <4>3. payload \in Nat
        BY <4>1, PayloadSize
      <4>4. ~DAT_oe_o
        BY <4>1, <4>2, <4>3
      <4> QED
        BY <2>2, <3>1, <4>4 DEF LanesOwned
    <3>2. CASE state = "WRITE_CRC"
      BY <3>2 DEF IInv, Invs, InvWriteCrc, Out, LanesOwned
    <3> QED
      BY <2>2, <3>1, <3>2 DEF IInv, Invs, InvCard
  <2>3. CASE card = "busy"
    <3>1. state \in {"WRITE_CRC", "WRITE_BUSY"}
      BY <2>3 DEF IInv, Invs, InvCard
    <3>2. ~DAT_oe_o
      BY <3>1 DEF IInv, Invs, InvWriteCrc, InvWriteBusy, Out
    <3> QED
      BY <3>1, <3>2 DEF LanesOwned
  <2> QED
    BY <2>1, <2>2, <2>3 DEF LanesOwned
<1> QED
  BY <1>1, Inductive, PTL

\* When the card has acknowledged a block, exactly that block has been sent.
THEOREM BlockSentHolds ==
  ASSUME WideWrites
  PROVE  Spec => []BlockSent
<1>1. IInv => BlockSent
  <2> SUFFICES ASSUME IInv, state \in {"WRITE_CRC", "WRITE_BUSY"}
               PROVE  BlockSent
    BY DEF BlockSent
  <2>1. Out /\ (state = "WRITE_BUSY" => crc_s = Span(0, 4))
    BY DEF IInv, Invs, InvWriteCrc, InvWriteBusy
  <2>2. TypeInputs /\ bus_4bit_reg = TRUE /\ data_cycles = DataCycles(blksize, bus_4bit_reg)
    BY DEF IInv, TypeOK, TypeFlags, Invs, InvTransfer, Moving
  <2>3. BlockSize = payload
    BY <2>2, PayloadSize, Sizes
  <2> QED
    BY <2>1, <2>3 DEF BlockSent, Out
<1> QED
  BY <1>1, Inductive, PTL

\* Only a clock edge of READ_DAT leads from there to FINISH.
LEMMA LeavesReadDat ==
  ASSUME IInv, [Next]_vars, state = "READ_DAT", state' = "FINISH"
  PROVE  ReadDat /\ ReadVerdict /\ Card /\ UNCHANGED inputVars
<1>1. ~UNCHANGED vars /\ ~SetStart /\ ~SetRegisters /\ ~Reset
  BY DEF vars, SetStart, SetRegisters, Reset, hostVars
<1>2. Host /\ Card /\ UNCHANGED inputVars
  BY <1>1 DEF Next, Clock
<1>3. ReadDat
  BY <1>2 DEF Host, Idle, WriteDat, WriteCrc, WriteBusy, ReadWait, Finish
<1>4. ReadVerdict
  BY <1>3 DEF ReadDat, ReadData, ReadCrc, Goto
<1> QED
  BY <1>2, <1>3, <1>4

\* The words in the counted cycles of a one bit block are the words of the block.
LEMMA CountedWords ==
  ASSUME NEW b \in Nat
  PROVE  (8 * b + 6) \div 32 = (8 * b) \div 32
OBVIOUS

\* A block that has been read is whole in the FIFO, and the verdict is the card's.
THEOREM BlockDeliveredHolds ==
  ASSUME WideWrites
  PROVE  Spec => BlockDelivered
<1>1. ASSUME IInv, [Next]_vars, state = "READ_DAT", state' = "FINISH"
      PROVE  /\ received' = First((BlockSize \div perWord) * perWord)
             /\ bus_4bit_reg => crc_lane_ok' = cardGood
  <2>1. ReadDat /\ ReadVerdict /\ Card /\ UNCHANGED inputVars
    BY <1>1, LeavesReadDat
  <2>2. /\ received' = First((payload \div perWord) * perWord)
        /\ crc_calc = First(payload)
        /\ bus_4bit_reg => crc_din = Span(payload + 1, payload + 16)
    BY <1>1, <2>1, LastRead
  <2>3. TypeInputs /\ bus_4bit_reg \in BOOLEAN /\ data_cycles = DataCycles(blksize, bus_4bit_reg)
    BY <1>1 DEF IInv, TypeOK, TypeFlags, Invs, InvTransfer, Moving
  <2>4. /\ bus_4bit_reg => payload = BlockSize
        /\ ~bus_4bit_reg => payload = 8 * blksize + 6 /\ BlockSize = 8 * blksize /\ perWord = 32
        /\ blksize \in Nat
    BY <2>3, PayloadSize, Sizes DEF perWord
  <2>5. payload \div perWord = BlockSize \div perWord
    BY <2>4, CountedWords, Zenon
  <2>6. received' = First((BlockSize \div perWord) * perWord)
    BY <2>2, <2>5, Zenon
  <2>7. ASSUME bus_4bit_reg PROVE crc_lane_ok' = cardGood
    <3>1. crc_lane_ok' \in LaneVerdicts
      BY <2>1 DEF ReadVerdict
    <3>2. crc_calc = First(BlockSize) /\ crc_din = Span(BlockSize + 1, BlockSize + 16)
      BY <2>2, <2>4, <2>7, Zenon
    <3> QED
      BY <3>1, <3>2, Zenon DEF LaneVerdicts
  <2> QED
    BY <2>6, <2>7, Zenon
<1>2. IInv /\ [Next]_vars => (state = "READ_DAT" /\ state' = "FINISH"
        => /\ received' = First((BlockSize \div perWord) * perWord)
           /\ bus_4bit_reg => crc_lane_ok' = cardGood)
  BY <1>1, Zenon
<1> QED
  BY <1>2, Inductive, PTL DEF Spec, BlockDelivered

\* finish_o goes up only when nothing of the transfer is still on its way.
THEOREM FinishMeansDoneHolds ==
  ASSUME WideWrites
  PROVE  Spec => FinishMeansDone
<1>1. ASSUME IInv, [Next]_vars, finish_o', ~finish_o
      PROVE  ~we /\ ~we_o' /\ ~rd' /\ ~DAT_oe_o' /\ card \in {"quiet", "mute"}
  <2>1. ~UNCHANGED vars /\ ~SetStart /\ ~SetRegisters /\ ~Reset
    BY <1>1 DEF vars, SetStart, SetRegisters, Reset, hostVars
  <2>2. Host
    BY <1>1, <2>1 DEF Next, Clock
  <2>3. Finish
    BY <1>1, <2>2 DEF Host, Idle, WriteDat, WriteCrc, WriteBusy, ReadWait, ReadDat
  <2>4. state = "FINISH" /\ we_o' = we /\ rd' = rd /\ DAT_oe_o' = DAT_oe_o
    BY <2>3 DEF Finish, EveryEdge, padVars
  <2>5. ~we /\ ~rd /\ ~DAT_oe_o
    BY <1>1, <2>4 DEF IInv, Invs, InvFinish
  <2>6. card = "quiet"
    BY <1>1, <2>4 DEF IInv, TypeOK, TypeCard, Invs, InvCard
  <2> QED
    BY <2>4, <2>5, <2>6
<1>2. IInv /\ [Next]_vars => (finish_o' /\ ~finish_o
        => ~we /\ ~we_o' /\ ~rd' /\ ~DAT_oe_o' /\ card \in {"quiet", "mute"})
  BY <1>1, Zenon
<1> QED
  BY <1>2, Inductive, PTL DEF Spec, FinishMeansDone

-----------------------------------------------------------------------------
(* The refinement: what the host does, seen as a data service. *)

\* The host powers up as an idle service.
LEMMA ServiceInit ==
  ASSUME Init
  PROVE  Service!Init
BY DEF Init, Cleared, Service!Init, phase, outcome

\* A transfer under way has no outcome.
LEMMA NoOutcome ==
  /\ state # "FINISH" => outcome = "none"
  /\ state' # "FINISH" => outcome' = "none"
BY DEF outcome

\* A step inside a transfer, or its end.
LEMMA ServiceMoves ==
  ASSUME IInv, WideWrites, Clock, UNCHANGED inputVars, Moving
  PROVE  Service!Next \/ UNCHANGED Service!vars
<1>1. IInv'
  BY ClockIInv
<1>2. /\ start' = start /\ finish_o' = finish_o /\ outcome = "none"
      /\ state' \in {"IDLE", "FINISH"} \/ phase' = phase
      /\ state' # "FINISH" => outcome' = "none"
      /\ start = 3 <=> state' = "IDLE"
      /\ state \in {"READ_WAIT", "READ_DAT"} => phase = "reading"
      /\ state = "WRITE_BUSY" => phase = "writing"
      /\ phase \in {"writing", "reading"}
      /\ state' = "FINISH" => state \in {"WRITE_BUSY", "READ_WAIT", "READ_DAT"}
  <2>1. start' = start /\ outcome = "none" /\ (state' # "FINISH" => outcome' = "none")
    BY NoOutcome DEF inputVars, Moving
  <2>2. /\ state \in {"READ_WAIT", "READ_DAT"} => phase = "reading"
        /\ state = "WRITE_BUSY" => phase = "writing"
        /\ phase \in {"writing", "reading"}
    BY DEF Moving, phase
  <2>3. /\ finish_o' = finish_o /\ (start = 3 <=> state' = "IDLE")
        /\ state' = "FINISH" => state \in {"WRITE_BUSY", "READ_WAIT", "READ_DAT"}
        /\ state' \in {"IDLE", "FINISH"} \/ phase' = phase
    <3>1. CASE WriteDat
      BY <3>1 DEF WriteDat, SendStart, SendBlock, AwaitStatus, Goto, phase
    <3>2. CASE WriteCrc
      BY <3>2 DEF WriteCrc, Goto, phase
    <3>3. CASE WriteBusy
      BY <3>3 DEF WriteBusy, Goto, phase
    <3>4. CASE ReadWait
      BY <3>4 DEF ReadWait, Goto, phase
    <3>5. CASE ReadDat
      BY <3>5 DEF ReadDat, ReadData, ReadCrc, ReadVerdict, Goto, phase
    <3> QED
      BY <3>1, <3>2, <3>3, <3>4, <3>5 DEF Clock, Host, Idle, Finish, Moving
  <2> QED
    BY <2>1, <2>2, <2>3
<1>3. CASE state' \notin {"IDLE", "FINISH"}
  BY <1>2, <1>3 DEF Service!vars, Service!hostVars
<1>4. CASE state' = "IDLE"
  <2>1. phase' = "idle"
    BY <1>4 DEF phase
  <2>2. Service!Abort
    BY <1>2, <1>4, <2>1 DEF Service!Abort
  <2> QED
    BY <1>2, <2>2 DEF Service!Next, Service!Clock
<1>5. CASE state' = "FINISH"
  <2>1. phase' = "done" /\ start # 3
    BY <1>2, <1>5 DEF phase
  <2>2. outcome' \in {"moved", "timeout"}
    BY <1>1, <1>5 DEF IInv, Invs, InvFinish
  <2>3. CASE outcome' = "moved"
    <3>1. Service!Move
      BY <1>2, <2>1, <2>3 DEF Service!Move, Service!Goto
    <3> QED
      BY <1>2, <3>1 DEF Service!Next, Service!Clock
  <2>4. CASE outcome' = "timeout"
    <3>1. state # "WRITE_BUSY"
      <4> SUFFICES ASSUME state = "WRITE_BUSY" PROVE FALSE
        OBVIOUS
      <4>1. crc_c = 0
        BY DEF IInv, Invs, InvWriteBusy, Out
      <4>2. WriteBusy
        BY DEF Clock, Host, Idle, WriteDat, WriteCrc, ReadWait, ReadDat, Finish
      <4>3. crc_c' = 0
        BY <4>1, <4>2 DEF WriteBusy, crcVars
      <4> QED
        BY <1>5, <2>4, <4>3 DEF outcome
    <3>2. phase = "reading"
      BY <1>2, <1>5, <3>1
    <3>3. Service!TimeOut
      BY <1>2, <2>1, <2>4, <3>2 DEF Service!TimeOut, Service!Goto
    <3> QED
      BY <1>2, <3>3 DEF Service!Next, Service!Clock
  <2> QED
    BY <2>2, <2>3, <2>4
<1> QED
  BY <1>3, <1>4, <1>5

\* The start of a transfer.
LEMMA ServiceStarts ==
  ASSUME IInv, Idle, UNCHANGED inputVars
  PROVE  Service!Next
<1>1. /\ start' = start /\ state = "IDLE" /\ finish_o' = FALSE
      /\ state' = (IF start = 1 THEN "WRITE_DAT" ELSE IF start = 2 THEN "READ_WAIT" ELSE "IDLE")
  BY DEF Idle, Goto, inputVars
<1>2. outcome' = "none"
  BY <1>1, NoOutcome
<1>3. /\ phase = "idle"
      /\ phase' = (IF start = 1 THEN "writing" ELSE IF start = 2 THEN "reading" ELSE "idle")
  BY <1>1 DEF phase
<1>4. Service!Idle
  BY <1>1, <1>2, <1>3 DEF Service!Idle, Service!Goto
<1> QED
  BY <1>1, <1>4 DEF Service!Next, Service!Clock

\* What the machine reports stands as long as it stays in FINISH.
LEMMA OutcomeStays ==
  ASSUME IInv, Finish, state' = "FINISH"
  PROVE  outcome' = outcome
<1>1. state = "FINISH" /\ ~we
  BY DEF Finish, IInv, Invs, InvFinish
<1>2. received' = received
  BY <1>1 DEF Finish, EveryEdge, FallingEdge
<1>3. /\ payload' = payload /\ perWord' = perWord
      /\ UNCHANGED <<crc_c, crc_din, crc_s, sent, bus_4bit_reg>>
  BY DEF Finish, payload, perWord, crcVars
<1> QED
  BY <1>1, <1>2, <1>3 DEF outcome

\* FINISH, until software takes start back.
LEMMA ServiceFinishes ==
  ASSUME IInv, Finish, UNCHANGED inputVars
  PROVE  Service!Next
<1>1. /\ start' = start /\ state = "FINISH" /\ finish_o' = TRUE
      /\ state' = (IF start \in {0, 3} THEN "IDLE" ELSE "FINISH")
  BY DEF Finish, Goto, inputVars
<1>2. outcome' = IF start \in {0, 3} THEN "none" ELSE outcome
  BY <1>1, NoOutcome, OutcomeStays
<1>3. phase = "done" /\ phase' = (IF start \in {0, 3} THEN "idle" ELSE "done")
  BY <1>1 DEF phase
<1>4. Service!Finish
  BY <1>1, <1>2, <1>3 DEF Service!Finish, Service!Goto
<1> QED
  BY <1>1, <1>4 DEF Service!Next, Service!Clock

\* Every step of the data host is a step of the service, or none.
LEMMA ServiceSteps ==
  ASSUME IInv, WideWrites, [Next]_vars
  PROVE  [Service!Next]_(Service!vars)
<1>1. CASE Clock /\ UNCHANGED inputVars
  <2>1. CASE Idle
    BY <1>1, <2>1, ServiceStarts
  <2>2. CASE Finish
    BY <1>1, <2>2, ServiceFinishes
  <2>3. CASE Moving
    BY <1>1, <2>3, ServiceMoves
  <2> QED
    BY <1>1, <2>1, <2>2, <2>3 DEF Clock, Host, WriteDat, WriteCrc, WriteBusy, ReadWait, ReadDat, Moving
<1>2. CASE SetStart
  <2>1. UNCHANGED <<hostVars, cardVars>>
    BY <1>2 DEF SetStart
  <2>2. phase' = phase /\ outcome' = outcome /\ finish_o' = finish_o
    BY <2>1, HostStands DEF hostVars
  <2>3. start' \in (0 .. 3) \ {start}
    BY <1>2 DEF SetStart
  <2> QED
    BY <2>2, <2>3 DEF Service!Next, Service!SetStart, Service!hostVars
<1>3. CASE SetRegisters \/ UNCHANGED vars
  <2>1. UNCHANGED <<start, hostVars, cardVars>>
    BY <1>3 DEF SetRegisters, vars, inputVars
  <2>2. phase' = phase /\ outcome' = outcome /\ finish_o' = finish_o
    BY <2>1, HostStands DEF hostVars
  <2> QED
    BY <2>1, <2>2 DEF Service!vars, Service!hostVars
<1>4. CASE Reset
  <2>1. state' = "IDLE" /\ finish_o' = FALSE /\ start' = start
    BY <1>4 DEF Reset, inputVars
  <2>2. phase' = "idle" /\ outcome' = "none"
    BY <2>1, NoOutcome DEF phase
  <2> QED
    BY <2>1, <2>2 DEF Service!Next, Service!Reset
<1> QED
  BY <1>1, <1>2, <1>3, <1>4 DEF Next

\* The data host, its registers hidden, is a data service: a transfer that is
\* reported done moved its whole block or, a read, timed out.
THEOREM ImplementsService ==
  ASSUME WideWrites
  PROVE  Spec => Service!Spec
<1>1. Init => Service!Init
  BY ServiceInit
<1>2. IInv /\ [Next]_vars => [Service!Next]_(Service!vars)
  BY ServiceSteps
<1> QED
  BY <1>1, <1>2, Inductive, PTL DEF Spec, Service!Spec
=============================================================================
