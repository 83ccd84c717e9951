--------------------------- MODULE SdCommandProofs ---------------------------
(***************************************************************************)
(* Proofs about a command's way through the SD controller: the command     *)
(* host, for every value of its parameters; the driver that starts a       *)
(* command and waits for both hosts, for every card, every status word and *)
(* every use of transfers; and the clock divider, which runs beside them.  *)
(***************************************************************************)
EXTENDS SdCmdHostRefines, SdController, SdClockDivider, TLAPS

\* A register that took in the first n bits in order, and takes in the next one,
\* holds the first n + 1 bits.
LEMMA ShiftFirst ==
  ASSUME NEW n \in Nat
  PROVE  /\ Shift(First(n), n + 1) = First(n + 1)
         /\ First(n) \in Spans
BY DEF Shift, First, Span, Spans, Empty, Garbled

\* The same for a span that begins at position a.
LEMMA ShiftSpan ==
  ASSUME NEW a \in Nat, NEW b \in Nat, a >= 1, b >= a
  PROVE  /\ Shift(Empty, a) = Span(a, a)
         /\ Shift(Span(a, b), b + 1) = Span(a, b + 1)
         /\ Span(a, b) \in Spans
BY DEF Shift, Span, Spans, Empty, Garbled

\* The invariant holds in the initial states.
LEMMA InitIInv == Init => IInv
<1> SUFFICES ASSUME Init PROVE IInv
  OBVIOUS
<1> USE CmdHostAssumption
<1>1. TypeOK
  <2>1. setting \in [resp : BOOLEAN, long : BOOLEAN, data : BOOLEAN]
    BY Zenon DEF Init
  <2>2. crc \in Spans /\ packet_o \in Spans /\ response_o \in Spans
    BY DEF Init, Spans, Empty
  <2>3. /\ counter \in 0 .. 255 /\ wait_reg_o \in Nat /\ cmd_dat_reg \in Int
        /\ crc_bit \in Int /\ cmd_out_o \in Int /\ cardCnt \in Nat
    BY DEF Init, High
  <2> QED
    BY <2>1, <2>2, <2>3, Zenon DEF Init, TypeOK, States
<1>2. InvReset
  BY DEF Init, InvReset
<1>3. InvIdle /\ InvSetup /\ InvWrite /\ InvReadWait /\ InvRead /\ InvFinish
  BY DEF Init, InvIdle, InvSetup, InvWrite, InvReadWait, InvRead, InvFinish
<1> QED
  BY <1>1, <1>2, <1>3 DEF IInv

-----------------------------------------------------------------------------
(* Type correctness of a clock edge. *)

LEMMA CardTypes ==
  ASSUME IInv, Card
  PROVE  card' \in {"quiet", "waiting", "answering"} /\ cardCnt' \in Nat /\ cardGood' \in BOOLEAN
<1> USE DEF IInv, TypeOK, cardVars
<1>1. CASE UNCHANGED cardVars
  BY <1>1
<1>2. CASE card = "quiet" /\ card' = "waiting" /\ cardCnt' = 1 /\ cardGood' \in BOOLEAN
  BY <1>2
<1>3. CASE card = "waiting" /\ cardCnt' = cardCnt + 1 /\ UNCHANGED <<card, cardGood>>
  BY <1>3
<1>4. CASE card' = "answering" /\ cardCnt' = 0 /\ UNCHANGED cardGood
  BY <1>4
<1>5. CASE card = "answering" /\ cardCnt' = cardCnt + 1 /\ UNCHANGED <<card, cardGood>>
  BY <1>5
<1>6. CASE card' = "quiet" /\ cardCnt' = 0 /\ UNCHANGED cardGood
  BY <1>6
<1> QED
  BY <1>1, <1>2, <1>3, <1>4, <1>5, <1>6 DEF Card

\* The CRC register holds a span after every edge.
LEMMA CrcTypes ==
  ASSUME IInv, CRC_7
  PROVE  crc' \in Spans
BY DEF IInv, TypeOK, CRC_7, Shift, Span, Spans, Empty, Garbled

\* The numbers and spans in the host's registers.
LEMMA HostNumbers ==
  ASSUME IInv, Host
  PROVE  /\ counter' \in 0 .. 255 /\ wait_reg_o' \in Nat
         /\ cmd_dat_reg' \in Int /\ crc_bit' \in Int /\ cmd_out_o' \in Int
         /\ crc' \in Spans /\ packet_o' \in Spans /\ response_o' \in Spans
         /\ state' \in States
<1> USE CmdHostAssumption DEF IInv, TypeOK, High, padVars
<1>0. /\ Empty \in Spans
      /\ \A s \in Spans, p \in Int : Shift(s, p) \in Spans
  BY DEF Shift, Span, Spans, Empty, Garbled
<1>1. CASE InitState
  BY <1>1, CrcTypes DEF InitState, InvReset, States
<1>2. CASE Idle
  BY <1>2, CrcTypes DEF Idle, States
<1>3. CASE SetupCrc
  BY <1>0, <1>3, CrcTypes DEF SetupCrc, States
<1>4. CASE Write
  <2>1. FrameBit \in Int
    BY DEF FrameBit, Wrong
  <2> QED
    BY <1>0, <1>4, <2>1, CrcTypes DEF Write, InvWrite, States
<1>5. CASE ReadWait
  BY <1>5, CrcTypes DEF ReadWait, Waited, States, cmd_dat_i, Float
<1>6. CASE Read
  BY <1>0, <1>6, CrcTypes DEF Read, InvRead, resp_len, States, cmd_dat_i, Float
<1>7. CASE FinishRdWr
  BY <1>7, CrcTypes DEF FinishRdWr, States
<1> QED
  BY <1>1, <1>2, <1>3, <1>4, <1>5, <1>6, <1>7 DEF Host

\* The flags in the host's registers.
LEMMA HostFlags ==
  ASSUME IInv, Host
  PROVE  /\ crc_rst' \in BOOLEAN /\ crc_enable' \in BOOLEAN /\ cmd_oe_o' \in BOOLEAN
         /\ finish_o' \in BOOLEAN /\ crc_ok_o' \in BOOLEAN /\ index_ok_o' \in BOOLEAN
         /\ start_data_o' \in BOOLEAN
<1> USE DEF IInv, TypeOK, padVars
<1>1. CASE InitState
  BY <1>1, Zenon DEF InitState
<1>2. CASE Idle
  BY <1>2, Zenon DEF Idle
<1>3. CASE SetupCrc
  BY <1>3, Zenon DEF SetupCrc
<1>4. CASE Write
  <2>0. crc_enable \in BOOLEAN
    BY DEF IInv, TypeOK
  <2>1. CrcFeeds \in BOOLEAN
    BY <2>0 DEF CrcFeeds
  <2> QED
    <3>1. cmd_oe_o' \in BOOLEAN
      BY <1>4 DEF Write
    <3> QED
      BY <1>4, <2>1, <3>1, Zenon DEF Write
<1>5. CASE ReadWait
  BY <1>5, Zenon DEF ReadWait, Waited
<1>6. CASE Read
  <2>1. with_data \in BOOLEAN
    BY Zenon DEF with_data
  <2>2. DataStarted \in BOOLEAN /\ CrcMatches \subseteq BOOLEAN
    BY <2>1, Zenon DEF DataStarted, CrcMatches
  <2> QED
    BY <1>6, <2>2, Zenon DEF Read
<1>7. CASE FinishRdWr
  BY <1>7, Zenon DEF FinishRdWr
<1> QED
  BY <1>1, <1>2, <1>3, <1>4, <1>5, <1>6, <1>7 DEF Host

LEMMA ClockTypes ==
  ASSUME IInv, Clock, UNCHANGED inputVars
  PROVE  TypeOK'
<1>1. UNCHANGED setting /\ UNCHANGED start_i /\ UNCHANGED timeout_i
  BY Zenon DEF inputVars
<1>2. /\ setting \in [resp : BOOLEAN, long : BOOLEAN, data : BOOLEAN]
      /\ start_i \in BOOLEAN /\ timeout_i \in Timeouts
  BY DEF IInv, TypeOK
<1> QED
  BY <1>1, <1>2, CardTypes, HostNumbers, HostFlags, ZenonT(60) DEF Clock, TypeOK


-----------------------------------------------------------------------------
(* The invariant after a clock edge, one lemma for each state it starts in. *)

Invs == InvReset /\ InvIdle /\ InvSetup /\ InvWrite /\ InvReadWait /\ InvRead /\ InvFinish

LEMMA FromInit ==
  ASSUME IInv, InitState, Card
  PROVE  Invs'
<1>1. card' = "quiet"
  BY DEF IInv, InvReset, InitState, Card, CommandSeen, cardVars
<1>2. state' = "INIT" => InvReset'
  BY <1>1, CmdHostAssumption DEF IInv, TypeOK, InvReset, InitState
<1>3. state' \in {"INIT", "IDLE"}
  BY DEF InitState
<1> QED
  BY <1>1, <1>2, <1>3
  DEF Invs, InvReset, InvIdle, InvSetup, InvWrite, InvReadWait, InvRead, InvFinish

LEMMA FromIdle ==
  ASSUME IInv, Idle, Card
  PROVE  Invs'
<1>1. card' = "quiet"
  BY DEF IInv, InvIdle, Idle, Card, CommandSeen, cardVars
<1>2. state' \in {"IDLE", "SETUP_CRC"}
  BY DEF Idle
<1>3. InvSetup'
  BY <1>1 DEF InvSetup, Idle, CRC_7
<1> QED
  BY <1>1, <1>2, <1>3
  DEF Invs, InvReset, InvIdle, InvWrite, InvReadWait, InvRead, InvFinish

LEMMA FromSetup ==
  ASSUME IInv, SetupCrc, Card
  PROVE  Invs'
<1>1. card' = "quiet"
  BY DEF IInv, InvSetup, SetupCrc, Card, CommandSeen, cardVars
<1>2. state' = "WRITE"
  BY DEF SetupCrc
<1>3. counter' = 0 /\ crc' = Empty /\ packet_o' = Empty /\ response_o' = Empty
      /\ crc_enable' = TRUE /\ crc_bit' = 1
  BY DEF IInv, InvSetup, SetupCrc, CRC_7
<1>4. crc_rst' = FALSE /\ finish_o' = finish_o /\ start_data_o' = start_data_o
  BY DEF SetupCrc
<1>5. ~crc_rst' /\ ~finish_o' /\ ~start_data_o'
  <2>1. ~finish_o /\ ~start_data_o
    BY DEF IInv, InvSetup, SetupCrc
  <2> QED
    BY <1>4, <2>1
<1>6. 0 < CMD_SIZE /\ 0 <= BITS_TO_SEND /\ Lesser(0, CMD_SIZE) = 0
  BY CmdHostAssumption DEF Lesser
<1>7. InvWrite'
  <2>1. packet_o' = First(counter') /\ crc' = First(Lesser(counter', CMD_SIZE))
    BY <1>3, <1>6 DEF First
  <2>2. crc_enable' <=> counter' < CMD_SIZE
    BY <1>3, <1>6
  <2>3. counter' <= BITS_TO_SEND /\ crc_bit' = counter' + 1
    BY <1>3, <1>6
  <2> QED
    BY <1>1, <1>3, <1>5, <2>1, <2>2, <2>3, Zenon DEF InvWrite
<1> QED
  BY <1>2, <1>7 DEF Invs, InvReset, InvIdle, InvSetup, InvReadWait, InvRead, InvFinish

LEMMA FromFinish ==
  ASSUME IInv, FinishRdWr, Card
  PROVE  Invs'
<1>1. card' = "quiet"
  BY DEF IInv, InvIdle, FinishRdWr, Card, CommandSeen, cardVars
<1>2. state' \in {"IDLE", "FINISH_RD_WR"}
  BY DEF FinishRdWr
<1>3. InvFinish'
  BY DEF IInv, InvFinish, FinishRdWr
<1> QED
  BY <1>1, <1>2, <1>3
  DEF Invs, InvReset, InvIdle, InvSetup, InvWrite, InvReadWait, InvRead

LEMMA FromWrite ==
  ASSUME IInv, Write, Card
  PROVE  Invs'
<1>n. /\ counter \in Nat /\ counter <= BITS_TO_SEND
      /\ counter < CMD_SIZE => crc_bit = counter + 1
      /\ counter' = counter + 1 /\ wait_reg_o' = 0
  BY DEF IInv, TypeOK, InvWrite, Write
<1>p. CMD_SIZE \in Nat /\ CMD_SIZE >= 2 /\ BITS_TO_SEND \in Nat /\ BITS_TO_SEND = CMD_SIZE + 8
  BY CmdHostAssumption
<1>1. /\ packet_o = First(counter) /\ crc = First(Lesser(counter, CMD_SIZE))
      /\ response_o = Empty /\ card = "quiet"
      /\ cmd_dat_reg' = High /\ response_o' = response_o
  BY DEF IInv, InvWrite, Write
<1>0. crc_enable <=> counter < CMD_SIZE
  BY DEF IInv, InvWrite, Write
<1>2. ~crc_rst /\ ~crc_rst' /\ ~finish_o' /\ ~start_data_o'
  <2>1. ~crc_rst /\ ~finish_o /\ ~start_data_o
    BY DEF IInv, InvWrite, Write
  <2>2. crc_rst' = crc_rst /\ finish_o' = finish_o /\ start_data_o' = start_data_o
    BY DEF Write
  <2> QED
    BY <2>1, <2>2
<1>3. CASE counter < BITS_TO_SEND
  <2>1. state' = "WRITE"
    BY <1>3 DEF Write
  <2>2. card' = "quiet"
    BY <1>1, <1>n, <1>3 DEF Card, CommandSeen, cardVars
  <2>3. FrameBit = counter + 1
    <3>1. CASE counter < CMD_SIZE
      BY <1>n, <1>p, <3>1 DEF FrameBit
    <3>2. CASE counter >= CMD_SIZE /\ counter < BITS_TO_SEND - 1
      <4>1. crc = Span(1, CMD_SIZE)
        BY <1>1, <1>n, <1>p, <3>2 DEF First, Lesser
      <4> QED
        BY <1>n, <1>p, <3>2, <4>1 DEF FrameBit
    <3>3. CASE counter = BITS_TO_SEND - 1
      <4>1. /\ ~(counter < BITS_TO_SEND - 8) /\ ~(counter < BITS_TO_SEND - 1)
            /\ BITS_TO_SEND = counter + 1
        BY <1>n, <1>p, <3>3
      <4> QED
        BY <3>3, <4>1, Zenon DEF FrameBit
    <3> QED
      BY <1>n, <1>p, <1>3, <3>1, <3>2, <3>3
  <2>4. packet_o' = First(counter')
    BY <1>1, <1>n, <1>p, <1>3, <2>3, ShiftFirst DEF Write
  <2>5. crc_enable' <=> counter' < CMD_SIZE
    <3>1. crc_enable' = CrcFeeds
      BY Zenon DEF Write
    <3>2. CASE counter + 1 < CMD_SIZE
      <4>1. crc_enable' = crc_enable
        <5>1. counter \notin BITS_TO_SEND - 9 .. BITS_TO_SEND - 2
          BY <1>n, <1>p, <3>2
        <5> QED
          BY <3>1, <5>1, Zenon DEF CrcFeeds
      <4>2. counter < CMD_SIZE /\ counter' < CMD_SIZE
        BY <1>n, <1>p, <3>2
      <4> QED
        BY <1>0, <4>1, <4>2, Zenon
    <3>3. CASE counter + 1 >= CMD_SIZE /\ counter < BITS_TO_SEND - 1
      <4>1. counter \in BITS_TO_SEND - 9 .. BITS_TO_SEND - 2
        BY <1>n, <1>p, <3>3
      <4>2. ~(counter' < CMD_SIZE)
        BY <1>n, <1>p, <3>3
      <4> QED
        BY <3>1, <4>1, <4>2, Zenon DEF CrcFeeds
    <3>4. CASE counter = BITS_TO_SEND - 1
      <4>1. crc_enable' = crc_enable
        <5>1. counter \notin BITS_TO_SEND - 9 .. BITS_TO_SEND - 2
          BY <1>n, <1>p, <3>4
        <5> QED
          BY <3>1, <5>1, Zenon DEF CrcFeeds
      <4>2. ~(counter < CMD_SIZE) /\ ~(counter' < CMD_SIZE)
        BY <1>n, <1>p, <3>4
      <4> QED
        BY <1>0, <4>1, <4>2, Zenon
    <3> QED
      BY <1>n, <1>p, <1>3, <3>2, <3>3, <3>4
  <2>6. crc' = First(Lesser(counter', CMD_SIZE))
    <3>1. CASE counter < CMD_SIZE
      <4>1. crc' = Shift(crc, crc_bit)
        BY <1>0, <1>2, <3>1, Zenon DEF Write, CRC_7
      <4>2. Lesser(counter, CMD_SIZE) = counter /\ Lesser(counter', CMD_SIZE) = counter + 1
        BY <1>n, <1>p, <3>1 DEF Lesser
      <4> QED
        BY <1>1, <1>n, <1>p, <3>1, <4>1, <4>2, ShiftFirst
    <3>2. CASE ~(counter < CMD_SIZE)
      <4>1. crc' = crc
        BY <1>0, <1>2, <3>2, Zenon DEF Write, CRC_7
      <4>2. Lesser(counter, CMD_SIZE) = CMD_SIZE /\ Lesser(counter', CMD_SIZE) = CMD_SIZE
        BY <1>n, <1>p, <3>2 DEF Lesser
      <4> QED
        BY <1>1, <4>1, <4>2
    <3> QED
      BY <3>1, <3>2
  <2>7. counter' <= BITS_TO_SEND /\ (counter' < CMD_SIZE => crc_bit' = counter' + 1)
    <3>1. crc_bit' = IF counter < BITS_TO_SEND - 9 THEN counter + 2 ELSE crc_bit
      BY Zenon DEF Write
    <3>2. counter' < CMD_SIZE => counter < BITS_TO_SEND - 9 /\ counter + 2 = counter' + 1
      BY <1>n, <1>p
    <3>3. counter' <= BITS_TO_SEND
      BY <1>n, <1>p, <1>3
    <3> QED
      BY <3>1, <3>2, <3>3, Zenon
  <2>8. InvWrite'
    BY <1>1, <1>2, <2>2, <2>4, <2>5, <2>6, <2>7, Zenon DEF InvWrite
  <2> QED
    BY <2>1, <2>8 DEF Invs, InvReset, InvIdle, InvSetup, InvReadWait, InvRead, InvFinish
<1>4. CASE ~(counter < BITS_TO_SEND)
  <2>1. counter = BITS_TO_SEND /\ counter' = BITS_TO_SEND + 1
    BY <1>n, <1>4, <1>p
  <2>2. ~cmd_oe_o' /\ packet_o' = First(BITS_TO_SEND)
    <3>1. ~cmd_oe_o'
      BY <1>4 DEF Write
    <3>2. packet_o' = IF cmd_oe_o' THEN Shift(packet_o, cmd_out_o') ELSE packet_o
      BY Zenon DEF Write
    <3> QED
      BY <1>1, <2>1, <3>1, <3>2
  <2>3. CASE with_response
    <3>1. state' = "READ_WAIT"
      BY <1>4, <2>3 DEF Write
    <3>2. card' = "quiet" \/ (card' = "waiting" /\ cardCnt' = 1)
      BY <1>1 DEF Card, cardVars
    <3>4. ~(wait_reg_o' > 0)
      BY <1>n
    <3>5. ~cmd_oe_o'
      BY <2>2
    <3>6. card' = "waiting" => cardCnt' = wait_reg_o' + 1 /\ cardCnt' <= MaxDelay
      BY <1>n, <3>2, CmdHostAssumption
    <3>7. card' # "answering"
      BY <3>2
    <3>8. InvReadWait'
      <4>1. counter' \in {1, BITS_TO_SEND + 1} /\ response_o' = Empty
        BY <1>1, <2>1
      <4>2. IF card' = "answering" /\ cardCnt' = 1 THEN cmd_dat_reg' = 0
            ELSE cmd_dat_reg' = High \/ (cmd_dat_reg' = Float /\ wait_reg_o' \in {1, 2})
        BY <1>1, <3>7, Zenon
      <4> QED
        BY <1>2, <2>2, <3>4, <3>5, <3>6, <3>7, <4>1, <4>2, Zenon DEF InvReadWait
    <3> QED
      BY <3>1, <3>8 DEF Invs, InvReset, InvIdle, InvSetup, InvWrite, InvRead, InvFinish
  <2>4. CASE ~with_response
    <3>1. state' = "FINISH_RD_WR"
      BY <1>4, <2>4 DEF Write
    <3>2. card' = "quiet"
      BY <1>1, <2>4 DEF Card, cardVars
    <3>3. InvFinish'
      BY <1>1, <1>2, <2>2 DEF InvFinish
    <3>4. InvIdle'
      BY <3>2 DEF InvIdle
    <3> QED
      BY <3>1, <3>3, <3>4 DEF Invs, InvReset, InvSetup, InvWrite, InvReadWait, InvRead
  <2> QED
    BY <2>3, <2>4
<1> QED
  BY <1>3, <1>4

\* While no start bit was sampled, or too early, READ_WAIT does not end in READ.
LEMMA NoStart ==
  ASSUME NEW w \in Nat, wait_reg_o = w,
         cmd_dat_reg = High \/ (cmd_dat_reg = Float /\ wait_reg_o \in {1, 2})
  PROVE  \A level \in Levels(cmd_dat_reg) : ~SeesStart(level)
BY DEF Levels, SeesStart, High, Float

LEMMA FromReadWait ==
  ASSUME IInv, ReadWait, Card, UNCHANGED inputVars
  PROVE  Invs'
<1>n. /\ wait_reg_o \in Nat /\ wait_reg_o' = wait_reg_o + 1 /\ cardCnt \in Nat
      /\ counter' = 1
  BY DEF IInv, TypeOK, ReadWait, Waited
<1>t. timeout_i \in Nat /\ MaxDelay < timeout_i /\ MaxDelay \in Nat
  BY CmdHostAssumption DEF IInv, TypeOK
<1>l. resp_len \in Nat /\ resp_len >= 1 /\ resp_len' = resp_len
  BY CmdHostAssumption DEF resp_len, inputVars
<1>1. /\ packet_o' = First(BITS_TO_SEND) /\ response_o' = Empty /\ crc' = Empty
      /\ cmd_dat_reg' = cmd_dat_i
  BY DEF IInv, InvReadWait, ReadWait, Waited, CRC_7
<1>2. ~cmd_oe_o' /\ crc_rst' /\ ~crc_enable' /\ ~finish_o' /\ ~start_data_o'
  <2>1. ~finish_o /\ ~start_data_o
    BY DEF IInv, InvReadWait, ReadWait, Waited
  <2>2. /\ cmd_oe_o' = FALSE /\ crc_rst' = TRUE /\ crc_enable' = FALSE
        /\ finish_o' = finish_o /\ start_data_o' = start_data_o
    BY DEF ReadWait, Waited
  <2> QED
    BY <2>1, <2>2
<1>3. CASE card = "answering" /\ cardCnt = 1
  <2>1. cmd_dat_reg = 0 /\ wait_reg_o >= 3
    BY <1>3, <1>n, CmdHostAssumption DEF IInv, InvReadWait, ReadWait, Waited
  <2>2. state' = "READ"
    BY <2>1 DEF ReadWait, Waited, Levels, SeesStart, High
  <2>3. card' = "answering" /\ cardCnt' = 2
    BY <1>3, <1>l DEF Card, cardVars
  <2>4. cmd_dat_reg' = 1
    BY <1>1, <1>3 DEF cmd_dat_i
  <2>5. /\ counter' >= 1 /\ counter' <= resp_len' + 8 /\ counter' <= resp_len' + 7
        /\ cardCnt' = counter' + 1 /\ Lesser(counter' - 1, resp_len' + 7) = 0
        /\ crc_first' >= 1 /\ counter' - 2 < crc_first' /\ ~(counter' > 1)
    BY <1>n, <1>l, <2>3 DEF Lesser, crc_first
  <2>6. response_o' = First(Lesser(counter' - 1, resp_len' + 7))
    BY <1>1, <2>5 DEF First
  <2>7. InvRead'
    BY <1>n, <1>1, <1>2, <2>3, <2>4, <2>5, <2>6, Zenon DEF InvRead
  <2> QED
    BY <2>2, <2>7 DEF Invs, InvReset, InvIdle, InvSetup, InvWrite, InvReadWait, InvFinish
<1>4. CASE ~(card = "answering" /\ cardCnt = 1)
  <2>1. cmd_dat_reg = High \/ (cmd_dat_reg = Float /\ wait_reg_o \in {1, 2})
    BY <1>4, Zenon DEF IInv, InvReadWait, ReadWait, Waited
  <2>2. state' = IF TimedOut THEN "FINISH_RD_WR" ELSE "READ_WAIT"
    BY <2>1, <1>n, NoStart DEF ReadWait, Waited
  <2>3. InvReadWait' \/ (card = "quiet" /\ card' = "quiet" /\ state' = "FINISH_RD_WR")
    <3>g. ASSUME /\ IF card' = "answering" /\ cardCnt' = 1 THEN cmd_dat_reg' = 0
                    ELSE cmd_dat_reg' = High \/ (cmd_dat_reg' = Float /\ wait_reg_o' \in {1, 2})
                 /\ card' = "waiting" => cardCnt' = wait_reg_o' + 1 /\ cardCnt' <= MaxDelay
                 /\ card' = "answering" =>
                      \/ cardCnt' = 0 /\ wait_reg_o' >= MinDelay /\ wait_reg_o' <= MaxDelay
                      \/ cardCnt' = 1 /\ wait_reg_o' > MinDelay
          PROVE  InvReadWait'
      <4>1. counter' \in {1, BITS_TO_SEND + 1} /\ counter' = 1
        BY <1>n
      <4> QED
        BY <1>1, <1>2, <3>g, <4>1, Zenon DEF InvReadWait
    <3>f. card # "answering" =>
            cmd_dat_reg' = High \/ (cmd_dat_reg' = Float /\ wait_reg_o' \in {1, 2})
      BY <1>1, <1>n DEF cmd_dat_i
    <3>1. CASE card = "answering"
      <4>1. cardCnt = 0 /\ wait_reg_o >= MinDelay
        BY <1>4, <3>1, <1>n DEF IInv, InvReadWait, ReadWait, Waited
      <4>2. card' = "answering" /\ cardCnt' = 1
        BY <3>1, <4>1, <1>l DEF Card, cardVars
      <4>3. cmd_dat_reg' = 0
        BY <1>1, <3>1, <4>1 DEF cmd_dat_i
      <4>4. wait_reg_o' > MinDelay
        BY <1>n, <4>1, CmdHostAssumption
      <4> QED
        BY <3>g, <4>2, <4>3, <4>4
    <3>2. CASE card = "waiting"
      <4>1. cardCnt = wait_reg_o + 1 /\ cardCnt <= MaxDelay
        BY <3>2 DEF IInv, InvReadWait, ReadWait, Waited
      <4>2. \/ card' = "waiting" /\ cardCnt' = cardCnt + 1 /\ cardCnt < MaxDelay
            \/ card' = "answering" /\ cardCnt' = 0 /\ cardCnt >= MinDelay
        BY <3>2 DEF Card, cardVars
      <4>3. CASE card' = "waiting" /\ cardCnt' = cardCnt + 1 /\ cardCnt < MaxDelay
        <5>1. cardCnt' = wait_reg_o' + 1 /\ cardCnt' <= MaxDelay
          BY <1>n, <1>t, <4>1, <4>3
        <5> QED
          BY <3>f, <3>g, <3>2, <4>3, <5>1
      <4>4. CASE card' = "answering" /\ cardCnt' = 0 /\ cardCnt >= MinDelay
        <5>1. wait_reg_o' >= MinDelay /\ wait_reg_o' <= MaxDelay
          BY <1>n, <1>t, <4>1, <4>4
        <5> QED
          BY <3>f, <3>g, <3>2, <4>4, <5>1
      <4> QED
        BY <4>2, <4>3, <4>4
    <3>3. CASE card = "quiet"
      <4>1. card' = "quiet"
        BY <3>3 DEF Card, CommandSeen, ReadWait, Waited, cardVars
      <4> QED
        BY <3>f, <3>g, <3>3, <4>1
    <3> QED
      BY <3>1, <3>2, <3>3 DEF IInv, TypeOK
  <2>4. CASE TimedOut
    <3>1. state' = "FINISH_RD_WR"
      BY <2>2, <2>4
    <3>2. card = "quiet"
      BY <1>4, <2>4, <1>n, <1>t, CmdHostAssumption
      DEF IInv, TypeOK, InvReadWait, ReadWait, Waited, TimedOut
    <3>3. card' = "quiet"
      BY <3>2 DEF Card, CommandSeen, ReadWait, Waited, cardVars
    <3>4. InvFinish' /\ InvIdle'
      BY <1>1, <1>2, <3>3 DEF InvFinish, InvIdle
    <3> QED
      BY <3>1, <3>4 DEF Invs, InvReset, InvSetup, InvWrite, InvReadWait, InvRead
  <2>5. CASE ~TimedOut
    <3>1. state' = "READ_WAIT"
      BY <2>2, <2>5
    <3> QED
      BY <2>3, <3>1 DEF Invs, InvReset, InvIdle, InvSetup, InvWrite, InvRead, InvFinish
  <2> QED
    BY <2>4, <2>5
<1> QED
  BY <1>3, <1>4

LEMMA FromRead ==
  ASSUME IInv, Read, Card, UNCHANGED inputVars
  PROVE  Invs'
<1>l. /\ resp_len \in Nat /\ resp_len >= crc_first /\ resp_len' = resp_len
      /\ crc_first \in Nat /\ crc_first >= 1 /\ crc_first' = crc_first
      /\ resp_len \in {RESP_SIZE_SHORT, RESP_SIZE_LONG}
  BY CmdHostAssumption DEF resp_len, crc_first, inputVars
<1>n. /\ counter \in Nat /\ counter >= 1 /\ counter <= resp_len + 8
      /\ counter' = counter + 1 /\ cmd_dat_reg = counter
  BY DEF IInv, TypeOK, InvRead, Read
<1>1. /\ packet_o' = First(BITS_TO_SEND)
      /\ response_o = First(Lesser(counter - 1, resp_len + 7))
      /\ cmd_dat_reg' = cmd_dat_i
  BY DEF IInv, InvRead, Read
<1>2. ~cmd_oe_o' /\ ~crc_rst' /\ ~finish_o'
  <2>1. ~finish_o
    BY DEF IInv, InvRead, Read
  <2>2. cmd_oe_o' = FALSE /\ crc_rst' = FALSE /\ finish_o' = finish_o
    BY DEF Read
  <2> QED
    BY <2>1, <2>2
<1>s. start_data_o' => counter' >= resp_len' + 2
  <2>1. start_data_o => counter >= resp_len + 2
    BY DEF IInv, InvRead, Read
  <2>2. start_data_o' = DataStarted
    BY DEF Read
  <2> QED
    <3>1. CASE counter <= resp_len
      <4>1. ~start_data_o
        BY <1>l, <1>n, <2>1, <3>1
      <4> QED
        BY <2>2, <3>1, <4>1 DEF DataStarted
    <3>2. CASE ~(counter <= resp_len)
      BY <1>l, <1>n, <3>2
    <3> QED
      BY <3>1, <3>2
<1>3. CASE counter <= resp_len + 7
  <2>1. state' = "READ"
    BY <1>3, <1>l, <1>n DEF Read, ReadOver
  <2>2. card = "answering" /\ cardCnt = counter + 1
    BY <1>3 DEF IInv, InvRead, Read
  <2>3. IF counter' <= resp_len' + 7 THEN card' = "answering" /\ cardCnt' = counter' + 1
                                     ELSE card' = "quiet"
    <3>1. CASE counter + 1 < resp_len + 8
      <4>1. card' = "answering" /\ cardCnt' = cardCnt + 1
        BY <1>l, <1>n, <2>2, <3>1 DEF Card, cardVars
      <4> QED
        BY <1>l, <1>n, <2>2, <3>1, <4>1
    <3>2. CASE ~(counter + 1 < resp_len + 8)
      <4>1. card' = "quiet" /\ ~(counter' <= resp_len' + 7)
        BY <1>l, <1>n, <2>2, <3>2 DEF Card, cardVars
      <4> QED
        BY <4>1
    <3> QED
      BY <3>1, <3>2
  <2>4. cmd_dat_reg' = counter'
    BY <1>1, <1>n, <2>2 DEF cmd_dat_i
  <2>5. response_o' = First(Lesser(counter' - 1, resp_len' + 7))
    <3>1. /\ counter - 1 \in Nat /\ counter = (counter - 1) + 1
          /\ Lesser(counter - 1, resp_len + 7) = counter - 1
          /\ Lesser(counter' - 1, resp_len' + 7) = counter
      BY <1>l, <1>n, <1>3 DEF Lesser
    <3>2. response_o' = Shift(First(counter - 1), counter)
      BY <1>1, <1>3, <1>n, <3>1 DEF Read
    <3>3. Shift(First(counter - 1), (counter - 1) + 1) = First((counter - 1) + 1)
      BY <3>1, ShiftFirst
    <3> QED
      BY <3>1, <3>2, <3>3
  <2>6. crc_enable' <=> (counter' - 1 >= crc_first' /\ counter' - 1 <= resp_len')
    <3>1. crc_enable' <=> (counter <= resp_len /\ (~setting.long \/ counter > 7))
      BY DEF Read
    <3>2. (~setting.long \/ counter > 7) <=> counter >= crc_first
      BY <1>n DEF crc_first
    <3>3. counter' - 1 = counter
      BY <1>n
    <3> QED
      BY <1>l, <3>1, <3>2, <3>3
  <2>b. crc_bit' = Lesser(counter' - 1, resp_len')
    <3>1. CASE counter <= resp_len
      BY <1>l, <1>n, <3>1 DEF Read, Lesser
    <3>2. CASE ~(counter <= resp_len)
      <4>1. crc_bit = Lesser(counter - 1, resp_len) /\ crc_bit' = crc_bit
        BY <1>l, <1>n, <3>2 DEF IInv, InvRead, Read
      <4> QED
        BY <1>l, <1>n, <3>2, <4>1 DEF Lesser
    <3> QED
      BY <3>1, <3>2
  <2>7. crc' = IF counter' - 2 < crc_first' THEN Empty
               ELSE Span(crc_first', Lesser(counter' - 2, resp_len'))
    <3>0. crc = IF counter - 2 < crc_first THEN Empty
                ELSE Span(crc_first, Lesser(counter - 2, resp_len))
      BY DEF IInv, InvRead, Read
    <3>1. CASE counter = 1
      <4>1. crc_rst
        BY <3>1 DEF IInv, InvRead, Read
      <4>2. crc' = Empty
        BY <4>1 DEF Read, CRC_7
      <4>3. counter' - 2 < crc_first'
        BY <1>l, <1>n, <3>1
      <4> QED
        BY <4>2, <4>3
    <3>2. CASE counter > 1
      <4>1. /\ ~crc_rst /\ crc_bit = Lesser(counter - 1, resp_len)
            /\ crc_enable <=> (counter - 1 >= crc_first /\ counter - 1 <= resp_len)
        BY <3>2, <1>n DEF IInv, InvRead, Read
      <4>2. CASE counter - 1 >= crc_first /\ counter - 1 <= resp_len
        <5>1. crc' = Shift(crc, counter - 1)
          BY <1>2, <1>l, <1>n, <4>1, <4>2 DEF Read, CRC_7, Lesser
        <5>2. /\ ~(counter' - 2 < crc_first')
              /\ Span(crc_first', Lesser(counter' - 2, resp_len')) = Span(crc_first, counter - 1)
          BY <1>l, <1>n, <4>2 DEF Lesser
        <5>3. CASE counter - 1 = crc_first
          <6>1. crc = Empty
            BY <1>l, <1>n, <3>0, <5>3
          <6> QED
            BY <1>l, <5>1, <5>2, <5>3, <6>1, ShiftSpan
        <5>4. CASE counter - 1 > crc_first
          <6>1. crc = Span(crc_first, counter - 2)
            BY <1>l, <1>n, <3>0, <4>2, <5>4 DEF Lesser
          <6>2. counter - 2 \in Nat /\ counter - 2 >= crc_first /\ counter - 1 = (counter - 2) + 1
            BY <1>l, <1>n, <5>4
          <6> QED
            BY <1>l, <5>1, <5>2, <6>1, <6>2, ShiftSpan
        <5> QED
          BY <1>l, <1>n, <4>2, <5>3, <5>4
      <4>3. CASE ~(counter - 1 >= crc_first /\ counter - 1 <= resp_len)
        <5>1. crc' = crc
          BY <1>2, <4>1, <4>3 DEF Read, CRC_7
        <5> QED
          BY <1>l, <1>n, <3>0, <4>3, <5>1 DEF Lesser
      <4> QED
        BY <4>2, <4>3
    <3> QED
      BY <1>n, <3>1, <3>2
  <2>8. counter' >= 1 /\ counter' <= resp_len' + 8 /\ counter' # 1
    BY <1>l, <1>n, <1>3
  <2>9. InvRead'
    BY <1>1, <1>2, <1>s, <2>3, <2>4, <2>5, <2>6, <2>b, <2>7, <2>8, Zenon DEF InvRead
  <2> QED
    BY <2>1, <2>9 DEF Invs, InvReset, InvIdle, InvSetup, InvWrite, InvReadWait, InvFinish
<1>4. CASE ~(counter <= resp_len + 7)
  <2>1. state' = "FINISH_RD_WR"
    BY <1>4, <1>l, <1>n DEF Read, ReadOver
  <2>2. card = "quiet"
    BY <1>4, Zenon DEF IInv, InvRead, Read
  <2>3. card' = "quiet"
    BY <2>2 DEF Card, CommandSeen, Read, cardVars
  <2>4. response_o' = First(resp_len + 7)
    <3>1. Lesser(counter - 1, resp_len + 7) = resp_len + 7
      BY <1>4, <1>l, <1>n DEF Lesser
    <3>2. response_o' = response_o
      BY <1>4 DEF Read
    <3> QED
      BY <1>1, <3>1, <3>2
  <2>5. First(resp_len + 7) # Empty
    BY <1>l DEF First, Span, Empty
  <2>6. response_o' \in {Empty, First(RESP_SIZE_SHORT + 7), First(RESP_SIZE_LONG + 7)}
    BY <1>l, <2>4
  <2>7. InvFinish' /\ InvIdle'
    BY <1>1, <1>2, <2>3, <2>4, <2>5, <2>6, Zenon DEF InvFinish, InvIdle
  <2> QED
    BY <2>1, <2>7 DEF Invs, InvReset, InvSetup, InvWrite, InvReadWait, InvRead
<1> QED
  BY <1>3, <1>4

-----------------------------------------------------------------------------
(* Software's steps and the theorems. *)

LEMMA ClockIInv ==
  ASSUME IInv, Clock, UNCHANGED inputVars
  PROVE  IInv'
<1>1. TypeOK'
  BY ClockTypes
<1>2. Invs'
  BY FromInit, FromIdle, FromSetup, FromWrite, FromReadWait, FromRead, FromFinish
  DEF Clock, Host
<1> QED
  BY <1>1, <1>2 DEF IInv, Invs

\* What IInv says depends on the host, the card, the setting and the timeout.
LEMMA SetStartIInv ==
  ASSUME IInv, SetStart
  PROVE  IInv'
<1>0. /\ UNCHANGED <<setting, timeout_i, state, counter, wait_reg_o, cmd_dat_reg>>
      /\ UNCHANGED <<crc_rst, crc_enable, crc_bit, crc, cmd_oe_o, cmd_out_o, packet_o>>
      /\ UNCHANGED <<response_o, finish_o, crc_ok_o, index_ok_o, start_data_o>>
      /\ UNCHANGED <<card, cardCnt, cardGood>>
      /\ start_i' \in BOOLEAN
  BY DEF SetStart, hostVars, cardVars, crcVars, padVars
<1>1. TypeOK'
  BY <1>0 DEF IInv, TypeOK, Spans, States
<1>2. /\ InvReset' /\ InvIdle' /\ InvSetup' /\ InvWrite' /\ InvReadWait' /\ InvRead'
      /\ InvFinish'
  BY <1>0 DEF IInv, InvReset, InvIdle, InvSetup, InvWrite, InvReadWait, InvRead, InvFinish,
         resp_len, crc_first, Lesser, First
<1> QED
  BY <1>1, <1>2 DEF IInv

LEMMA SetRegistersIInv ==
  ASSUME IInv, SetRegisters
  PROVE  IInv'
<1>0. /\ UNCHANGED <<start_i, state, counter, wait_reg_o, cmd_dat_reg>>
      /\ UNCHANGED <<crc_rst, crc_enable, crc_bit, crc, cmd_oe_o, cmd_out_o, packet_o>>
      /\ UNCHANGED <<response_o, finish_o, crc_ok_o, index_ok_o, start_data_o>>
      /\ UNCHANGED <<card, cardCnt, cardGood>>
      /\ setting' \in [resp : BOOLEAN, long : BOOLEAN, data : BOOLEAN]
      /\ timeout_i' \in Timeouts
      /\ state \in {"INIT", "IDLE", "FINISH_RD_WR"}
  BY DEF SetRegisters, hostVars, cardVars, crcVars, padVars
<1>1. TypeOK'
  BY <1>0 DEF IInv, TypeOK, Spans, States
<1>2. /\ InvReset' /\ InvIdle' /\ InvSetup' /\ InvWrite' /\ InvReadWait' /\ InvRead'
      /\ InvFinish'
  BY <1>0 DEF IInv, InvReset, InvIdle, InvSetup, InvWrite, InvReadWait, InvRead, InvFinish, First
<1> QED
  BY <1>1, <1>2 DEF IInv

LEMMA ResetIInv ==
  ASSUME IInv, Reset
  PROVE  IInv'
<1>1. TypeOK'
  <2>1. /\ setting' \in [resp : BOOLEAN, long : BOOLEAN, data : BOOLEAN]
        /\ start_i' \in BOOLEAN /\ timeout_i' \in Timeouts
        /\ card' \in {"quiet", "waiting", "answering"} /\ cardCnt' \in Nat
        /\ cardGood' \in BOOLEAN
    BY DEF IInv, TypeOK, Reset, inputVars, cardVars
  <2>2. crc' \in Spans /\ packet_o' \in Spans /\ response_o' \in Spans
    BY DEF Reset, Spans, Empty
  <2>3. /\ counter' \in 0 .. 255 /\ wait_reg_o' \in Nat /\ cmd_dat_reg' \in Int
        /\ crc_bit' \in Int /\ cmd_out_o' \in Int
    BY DEF Reset, High
  <2> QED
    BY <2>1, <2>2, <2>3, Zenon DEF Reset, TypeOK, States
<1>2. InvReset'
  BY CmdHostAssumption DEF Reset, InvReset, cardVars
<1>3. InvIdle' /\ InvSetup' /\ InvWrite' /\ InvReadWait' /\ InvRead' /\ InvFinish'
  BY DEF Reset, InvIdle, InvSetup, InvWrite, InvReadWait, InvRead, InvFinish
<1> QED
  BY <1>1, <1>2, <1>3 DEF IInv

LEMMA StutterIInv ==
  ASSUME IInv, UNCHANGED vars
  PROVE  IInv'
<1>0. /\ UNCHANGED <<setting, start_i, timeout_i, state, counter, wait_reg_o, cmd_dat_reg>>
      /\ UNCHANGED <<crc_rst, crc_enable, crc_bit, crc, cmd_oe_o, cmd_out_o, packet_o>>
      /\ UNCHANGED <<response_o, finish_o, crc_ok_o, index_ok_o, start_data_o>>
      /\ UNCHANGED <<card, cardCnt, cardGood>>
  BY DEF vars, inputVars, hostVars, cardVars, crcVars, padVars
<1>1. TypeOK'
  BY <1>0 DEF IInv, TypeOK, Spans, States
<1>2. /\ InvReset' /\ InvIdle' /\ InvSetup' /\ InvWrite' /\ InvReadWait' /\ InvRead'
      /\ InvFinish'
  BY <1>0 DEF IInv, InvReset, InvIdle, InvSetup, InvWrite, InvReadWait, InvRead, InvFinish,
         resp_len, crc_first, Lesser, First
<1> QED
  BY <1>1, <1>2 DEF IInv

\* The invariant the other theorems rest on: in every state of the machine the
\* shift registers, the CRC register and the card's answer are where the counters
\* say they are.
THEOREM Invariance == Spec => []IInv
<1>1. Init => IInv
  BY InitIInv
<1>2. IInv /\ [Next]_vars => IInv'
  BY ClockIInv, SetStartIInv, SetRegistersIInv, ResetIInv, StutterIInv DEF Next
<1> QED
  BY <1>1, <1>2, PTL DEF Spec

\* Type correctness, and with it that the 8-bit counter never wraps.
THEOREM TypeCorrect == Spec => []TypeOK
<1>1. IInv => TypeOK
  BY DEF IInv
<1> QED
  BY <1>1, Invariance, PTL

\* Bus ownership: the host never drives CMD while the card answers, nor stops
\* listening, if the timeout register exceeds the card's slowest answer.
THEOREM BusOwnership == Spec => []NoContention
<1>1. IInv => NoContention
  <2>1. IInv => (card = "answering" => state \in {"READ_WAIT", "READ"})
    BY DEF IInv, TypeOK, States, InvReset, InvIdle, InvSetup, InvWrite
  <2>2. IInv /\ state \in {"READ_WAIT", "READ"} => ~cmd_oe_o
    BY DEF IInv, InvReadWait, InvRead
  <2> QED
    BY <2>1, <2>2 DEF NoContention
<1> QED
  BY <1>1, Invariance, PTL

\* Every command frame leaves the host whole, with its own CRC.
THEOREM FramesIntact == Spec => []FrameIntact
<1>1. IInv => FrameIntact
  BY CmdHostAssumption DEF IInv, InvReadWait, InvRead, InvFinish, FrameIntact, First
<1> QED
  BY <1>1, Invariance, PTL

\* finish_o never carries over from one command to the next.
THEOREM FinishFresh == Spec => []FinishNotStale
<1>1. IInv => FinishNotStale
  BY DEF IInv, InvSetup, InvWrite, InvReadWait, InvRead, FinishNotStale
<1> QED
  BY <1>1, Invariance, PTL

\* The data host starts only once the response is in.
THEOREM DataStartsLate == Spec => []DataAfterAnswer
<1>1. ASSUME IInv PROVE DataAfterAnswer
  <2>1. state \in {"SETUP_CRC", "WRITE", "READ_WAIT"} => ~start_data_o
    BY <1>1 DEF IInv, InvSetup, InvWrite, InvReadWait
  <2>2. ASSUME state = "READ", start_data_o
        PROVE  response_o.lo = 1 /\ response_o.hi >= RESP_SIZE_SHORT
    <3>1. counter \in Nat /\ counter >= resp_len + 2 /\ counter <= resp_len + 8
      BY <1>1, <2>2 DEF IInv, TypeOK, InvRead
    <3>2. resp_len \in Nat /\ resp_len >= RESP_SIZE_SHORT /\ RESP_SIZE_SHORT \in Nat
      BY CmdHostAssumption DEF resp_len
    <3>3. response_o = First(counter - 1)
      <4>1. Lesser(counter - 1, resp_len + 7) = counter - 1
        BY <3>1, <3>2 DEF Lesser
      <4> QED
        BY <1>1, <2>2, <4>1 DEF IInv, InvRead
    <3> QED
      BY <3>1, <3>2, <3>3 DEF First, Span
  <2>3. ASSUME state = "FINISH_RD_WR", start_data_o
        PROVE  response_o.lo = 1 /\ response_o.hi >= RESP_SIZE_SHORT
    <3>1. response_o \in {First(RESP_SIZE_SHORT + 7), First(RESP_SIZE_LONG + 7)}
      BY <1>1, <2>3 DEF IInv, InvFinish
    <3> QED
      BY <3>1, CmdHostAssumption DEF First, Span
  <2> QED
    BY <2>1, <2>2, <2>3 DEF DataAfterAnswer
<1> QED
  BY <1>1, Invariance, PTL

\* Every answer is delivered whole and with the right CRC verdict.
THEOREM AnswersDelivered == Spec => AnswerDelivered
<1>1. ASSUME IInv, [Next]_vars, state = "READ", state' = "FINISH_RD_WR"
      PROVE  response_o' = Span(1, resp_len + 7) /\ crc_ok_o' = cardGood
  <2>1. Read /\ Card
    BY <1>1 DEF Next, Clock, Host, InitState, Idle, SetupCrc, Write, ReadWait, Waited, FinishRdWr,
       SetStart, SetRegisters, Reset, vars, hostVars
  <2>l. /\ resp_len \in Nat /\ resp_len >= crc_first /\ crc_first \in Nat /\ crc_first >= 1
    BY CmdHostAssumption DEF resp_len, crc_first
  <2>2. counter = resp_len + 8
    BY <1>1, <2>1, <2>l DEF IInv, TypeOK, InvRead, Read, ReadOver
  <2>3. /\ response_o = First(Lesser(counter - 1, resp_len + 7))
        /\ crc = IF counter - 2 < crc_first THEN Empty
                 ELSE Span(crc_first, Lesser(counter - 2, resp_len))
    BY <1>1 DEF IInv, InvRead
  <2>4. response_o = Span(1, resp_len + 7)
    BY <2>l, <2>2, <2>3 DEF Lesser, First
  <2>5. crc = Span(crc_first, resp_len)
    BY <2>l, <2>2, <2>3 DEF Lesser
  <2>6. ~(counter <= resp_len + 7)
    BY <2>l, <2>2
  <2>7. response_o' = response_o /\ crc_ok_o' \in CrcMatches
    BY <2>1, <2>6, Zenon DEF Read
  <2> QED
    BY <2>4, <2>5, <2>7 DEF CrcMatches
<1>2. IInv /\ [Next]_vars
        => [state = "READ" /\ state' = "FINISH_RD_WR"
              => response_o' = Span(1, resp_len + 7) /\ crc_ok_o' = cardGood]_vars
  BY <1>1
<1> QED
  BY <1>2, Invariance, PTL DEF Spec, AnswerDelivered

-----------------------------------------------------------------------------
(* Every behaviour of the command host is one of CmdService. *)

\* What the mapping needs beyond IInv: a response is awaited and read only for a
\* command that has one, and start_data_o, once set, is the command's data bit.
RInv ==
  /\ state \in {"READ_WAIT", "READ"} => setting.resp
  /\ state = "READ" /\ counter >= resp_len + 2 => (start_data_o <=> setting.data)

AInv == IInv /\ RInv

\* resp_len is a number of positions, whatever the setting.
LEMMA RespLen == resp_len \in Nat /\ resp_len >= 1
BY CmdHostAssumption DEF resp_len

LEMMA InitRInv == Init => RInv
BY DEF Init, RInv

\* One clock of the machine preserves RInv.
LEMMA HostRInv ==
  ASSUME AInv, Host, UNCHANGED setting
  PROVE  RInv'
<1>0. IInv /\ RInv /\ TypeOK /\ counter \in Nat /\ resp_len' = resp_len
  BY DEF AInv, IInv, TypeOK, resp_len
<1>1. CASE InitState
  BY <1>1 DEF InitState, RInv
<1>2. CASE Idle
  BY <1>2 DEF Idle, RInv
<1>3. CASE SetupCrc
  BY <1>3 DEF SetupCrc, RInv
<1>4. CASE Write
  BY <1>4 DEF Write, RInv, with_response
<1>5. CASE ReadWait
  <2>1. counter' = 1 /\ state = "READ_WAIT"
    BY <1>5 DEF ReadWait
  <2>2. ~(counter' >= resp_len' + 2)
    BY <2>1, <1>0, RespLen
  <2>3. setting'.resp
    BY <2>1, <1>0 DEF RInv
  <2> QED
    BY <2>2, <2>3 DEF RInv
<1>6. CASE Read
  <2>1. counter' = counter + 1 /\ state = "READ" /\ start_data_o' = DataStarted
    BY <1>6 DEF Read
  <2>2. setting'.resp
    BY <2>1, <1>0 DEF RInv
  <2>3. counter' >= resp_len' + 2 => ~(counter <= resp_len)
    BY <2>1, <1>0, RespLen
  <2>4. counter' >= resp_len' + 2 => (start_data_o' <=> setting'.data)
    BY <2>1, <2>3 DEF DataStarted, with_data
  <2> QED
    BY <2>2, <2>4 DEF RInv
<1>7. CASE FinishRdWr
  BY <1>7 DEF FinishRdWr, RInv
<1> QED
  BY <1>1, <1>2, <1>3, <1>4, <1>5, <1>6, <1>7 DEF Host

-----------------------------------------------------------------------------
(* Each step of the host is a step of the service, or a stutter.             *)

LEMMA InitRefines == Init => Service!Init
<1> SUFFICES ASSUME Init PROVE Service!Init
  OBVIOUS
<1>1. phase = "reset" /\ answered = FALSE
  BY DEF Init, phase, answered, Empty
<1>2. setting \in [resp : BOOLEAN, long : BOOLEAN, data : BOOLEAN]
  BY Zenon DEF Init
<1> QED
  BY <1>1, <1>2 DEF Init, Service!Init

LEMMA FirstNotEmpty ==
  ASSUME NEW n \in Nat, n >= 1
  PROVE  First(n) # Empty
BY DEF First, Span, Empty

\* A clock in which the machine stays on its way, and answers nothing.
LEMMA HostRefines ==
  ASSUME AInv, Host, UNCHANGED inputVars
  PROVE  (Service!Clock /\ UNCHANGED Service!inputVars) \/ UNCHANGED Service!vars
<1>0. IInv /\ RInv /\ TypeOK /\ counter \in Nat /\ setting' = setting /\ start_i' = start_i
  BY DEF AInv, IInv, TypeOK, inputVars
<1>l. resp_len' = resp_len
  BY <1>0 DEF resp_len
<1> USE DEF Service!Clock, Service!inputVars, Service!hostVars, Service!vars
<1>1. CASE InitState
  <2>1. UNCHANGED <<response_o, finish_o, start_data_o>> /\ state = "INIT" /\ state' \in {"INIT", "IDLE"}
    BY <1>1 DEF InitState
  <2>2. phase = "reset" /\ phase' \in {"reset", "idle"}
    BY <2>1 DEF phase
  <2>3. answered' = answered
    BY <2>1 DEF answered
  <2> QED
    BY <1>0, <2>1, <2>2, <2>3 DEF Service!LeaveReset
<1>2. CASE Idle
  <2>1. /\ state = "IDLE" /\ state' = IF start_i THEN "SETUP_CRC" ELSE "IDLE"
        /\ finish_o' = FALSE /\ start_data_o' = FALSE /\ response_o' = response_o
    BY <1>2 DEF Idle
  <2>2. CASE start_i
    <3>1. phase = "idle" /\ phase' = "busy" /\ answered' = FALSE
      BY <2>1, <2>2 DEF phase, answered
    <3> QED
      BY <1>0, <2>1, <2>2, <3>1 DEF Service!Accept
  <2>3. CASE ~start_i
    <3>1. phase = "idle" /\ phase' = "idle" /\ answered' = answered
      BY <2>1, <2>3 DEF phase, answered
    <3> QED
      BY <1>0, <2>1, <2>3, <3>1 DEF Service!Rest
  <2> QED
    BY <2>2, <2>3
<1>3. CASE SetupCrc
  <2>1. state = "SETUP_CRC" /\ state' = "WRITE" /\ UNCHANGED <<finish_o, start_data_o>>
    BY <1>3 DEF SetupCrc
  <2>2. phase' = phase /\ answered' = answered
    BY <2>1 DEF phase, answered
  <2> QED
    BY <1>0, <2>1, <2>2
<1>4. CASE Write
  <2>1. /\ state = "WRITE" /\ state' \in {"WRITE", "READ_WAIT", "FINISH_RD_WR"}
        /\ UNCHANGED <<finish_o, start_data_o, response_o>>
    BY <1>4 DEF Write
  <2>2. response_o = Empty
    BY <1>0, <2>1 DEF IInv, InvWrite
  <2>3. phase = "busy" /\ phase' \in {"busy", "done"}
    BY <2>1 DEF phase
  <2>4. answered' = answered
    BY <2>1, <2>2 DEF answered
  <2> QED
    BY <1>0, <2>1, <2>3, <2>4 DEF Service!Complete
<1>5. CASE ReadWait
  <2>1. /\ state = "READ_WAIT" /\ state' \in {"READ", "READ_WAIT", "FINISH_RD_WR"} /\ counter' = 1
        /\ UNCHANGED <<finish_o, start_data_o, response_o>>
    BY <1>5 DEF ReadWait
  <2>2. response_o = Empty
    BY <1>0, <2>1 DEF IInv, InvReadWait
  <2>3. phase = "busy" /\ phase' \in {"busy", "done"}
    BY <2>1 DEF phase
  <2>4. ~(counter' > resp_len' + 1)
    BY <2>1, <1>l, RespLen
  <2>5. answered' = answered
    BY <2>1, <2>2, <2>4 DEF answered
  <2> QED
    BY <1>0, <2>1, <2>3, <2>5 DEF Service!Complete
<1>6. CASE Read
  <2>1. /\ state = "READ" /\ state' \in {"READ", "FINISH_RD_WR"} /\ counter' = counter + 1
        /\ finish_o' = finish_o /\ start_data_o' = DataStarted
        /\ state' = "FINISH_RD_WR" => ReadOver
    BY <1>6 DEF Read
  <2>2. phase = "busy" /\ phase' = IF state' = "READ" THEN "busy" ELSE "done"
    BY <2>1 DEF phase
  <2>3. answered = (counter > resp_len + 1)
    BY <2>1 DEF answered
  <2>4. CASE state' = "FINISH_RD_WR"
    <3>1. counter = resp_len + 8
      BY <2>1, <2>4, <1>0, RespLen DEF IInv, InvRead, ReadOver
    <3>2. response_o = First(resp_len + 7) /\ response_o' = response_o
      <4>1. response_o = First(Lesser(counter - 1, resp_len + 7))
        BY <1>0, <2>1 DEF IInv, InvRead
      <4>2. Lesser(counter - 1, resp_len + 7) = resp_len + 7
        BY <3>1, RespLen DEF Lesser
      <4>3. ~(counter <= resp_len + 7)
        BY <3>1, RespLen
      <4> QED
        BY <4>1, <4>2, <4>3, <1>6 DEF Read
    <3>3. response_o' # Empty
      <4>1. resp_len + 7 \in Nat /\ resp_len + 7 >= 1
        BY RespLen
      <4> QED
        BY <3>2, <4>1, FirstNotEmpty
    <3>4. answered = TRUE /\ answered' = TRUE
      <4>1. counter > resp_len + 1
        BY <3>1, RespLen
      <4> QED
        BY <2>3, <2>4, <3>3, <4>1 DEF answered
    <3>5. start_data_o' = start_data_o
      <4>1. counter >= resp_len + 2 /\ ~(counter <= resp_len)
        BY <3>1, RespLen
      <4>2. start_data_o <=> setting.data
        BY <4>1, <2>1, <1>0 DEF RInv
      <4>3. start_data_o' = setting.data
        BY <4>1, <2>1 DEF DataStarted, with_data
      <4>4. start_data_o \in BOOLEAN /\ setting.data \in BOOLEAN
        BY <1>0 DEF TypeOK
      <4> QED
        BY <4>2, <4>3, <4>4
    <3> QED
      BY <1>0, <2>1, <2>2, <2>4, <3>4, <3>5 DEF Service!Complete
  <2>5. CASE state' = "READ"
    <3>1. answered' = (counter + 1 > resp_len + 1)
      BY <2>1, <2>5, <1>l DEF answered
    <3>2. CASE counter <= resp_len
      <4>1. answered = FALSE /\ answered' = FALSE
        <5>1. (counter > resp_len + 1) = FALSE
          BY <3>2, <1>0, RespLen
        <5>2. (counter + 1 > resp_len + 1) = FALSE
          BY <3>2, <1>0, RespLen
        <5> QED
          BY <5>1, <5>2, <3>1, <2>3, Zenon
      <4>2. start_data_o' = start_data_o
        BY <3>2, <2>1 DEF DataStarted
      <4> QED
        BY <4>1, <4>2, <1>0, <2>1, <2>2, <2>5
    <3>3. CASE counter = resp_len + 1
      <4>1. answered = FALSE /\ answered' = TRUE
        <5>1. (counter > resp_len + 1) = FALSE
          BY <3>3, <1>0, RespLen
        <5>2. (counter + 1 > resp_len + 1) = TRUE
          BY <3>3, <1>0, RespLen
        <5> QED
          BY <5>1, <5>2, <3>1, <2>3, Zenon
      <4>2. start_data_o' = setting.data
        <5>1. ~(counter <= resp_len)
          BY <3>3, RespLen
        <5> QED
          BY <5>1, <2>1 DEF DataStarted, with_data
      <4>3. setting.resp
        BY <1>0, <2>1 DEF RInv
      <4> QED
        BY <4>1, <4>2, <4>3, <1>0, <2>1, <2>2, <2>5 DEF Service!Answer
    <3>4. CASE counter >= resp_len + 2
      <4>1. answered = TRUE /\ answered' = TRUE
        <5>1. (counter > resp_len + 1) = TRUE
          BY <3>4, <1>0, RespLen
        <5>2. (counter + 1 > resp_len + 1) = TRUE
          BY <3>4, <1>0, RespLen
        <5> QED
          BY <5>1, <5>2, <3>1, <2>3, Zenon
      <4>2. start_data_o' = start_data_o
        <5>1. ~(counter <= resp_len)
          BY <3>4, <1>0, RespLen
        <5>2. start_data_o' = setting.data
          BY <5>1, <2>1 DEF DataStarted, with_data
        <5>3. start_data_o <=> setting.data
          BY <3>4, <2>1, <1>0 DEF RInv
        <5>4. start_data_o \in BOOLEAN /\ setting.data \in BOOLEAN
          BY <1>0 DEF TypeOK
        <5> QED
          BY <5>2, <5>3, <5>4
      <4> QED
        BY <4>1, <4>2, <1>0, <2>1, <2>2, <2>5
    <3>5. counter <= resp_len \/ counter = resp_len + 1 \/ counter >= resp_len + 2
      BY <1>0, RespLen
    <3> QED
      BY <3>2, <3>3, <3>4, <3>5
  <2> QED
    BY <2>1, <2>4, <2>5
<1>7. CASE FinishRdWr
  <2>1. /\ state = "FINISH_RD_WR" /\ state' = IF start_i THEN "FINISH_RD_WR" ELSE "IDLE"
        /\ finish_o' = TRUE /\ UNCHANGED <<response_o, start_data_o>>
    BY <1>7 DEF FinishRdWr
  <2>2. phase = "done" /\ phase' = IF start_i THEN "done" ELSE "idle"
    BY <2>1 DEF phase
  <2>3. answered' = answered
    BY <2>1 DEF answered
  <2> QED
    BY <1>0, <2>1, <2>2, <2>3 DEF Service!Finish
<1> QED
  BY <1>1, <1>2, <1>3, <1>4, <1>5, <1>6, <1>7 DEF Host

\* Software's steps and the reset are steps of the service of the same name.
LEMMA SoftwareRefines ==
  ASSUME AInv, SetStart \/ SetRegisters \/ Reset
  PROVE  Service!Next \/ UNCHANGED Service!vars
<1>0. TypeOK
  BY DEF AInv, IInv
<1> USE DEF Service!inputVars, Service!hostVars, Service!vars
<1>1. CASE SetStart
  <2>1. /\ start_i' = ~start_i
        /\ UNCHANGED <<setting, state, counter, response_o, finish_o, start_data_o>>
    BY <1>1 DEF SetStart, hostVars
  <2>2. phase' = phase /\ answered' = answered
    BY <2>1 DEF phase, answered, resp_len
  <2> QED
    BY <2>1, <2>2 DEF Service!Next, Service!SetStart
<1>2. CASE SetRegisters
  <2>1. /\ setting' \in [resp : BOOLEAN, long : BOOLEAN, data : BOOLEAN]
        /\ state \in {"INIT", "IDLE", "FINISH_RD_WR"}
        /\ UNCHANGED <<start_i, state, response_o, finish_o, start_data_o>>
    BY <1>2 DEF SetRegisters, hostVars
  <2>2. phase' = phase /\ answered' = answered /\ phase # "busy"
    BY <2>1 DEF phase, answered
  <2> QED
    BY <2>1, <2>2 DEF Service!Next, Service!SetSetting
<1>3. CASE Reset
  <2>1. /\ state' = "INIT" /\ response_o' = Empty /\ finish_o' = FALSE /\ start_data_o' = FALSE
        /\ UNCHANGED <<setting, start_i>>
    BY <1>3 DEF Reset, inputVars
  <2>2. phase' = "reset" /\ answered' = FALSE
    BY <2>1 DEF phase, answered
  <2> QED
    BY <2>1, <2>2 DEF Service!Next, Service!Reset
<1> QED
  BY <1>1, <1>2, <1>3

LEMMA SoftwareRInv ==
  ASSUME AInv, SetStart \/ SetRegisters \/ Reset
  PROVE  RInv'
<1>1. CASE SetStart
  BY <1>1 DEF AInv, RInv, SetStart, hostVars, resp_len
<1>2. CASE SetRegisters
  BY <1>2 DEF AInv, RInv, SetRegisters, hostVars
<1>3. CASE Reset
  BY <1>3 DEF Reset, RInv
<1> QED
  BY <1>1, <1>2, <1>3

LEMMA StutterRefines ==
  ASSUME AInv, UNCHANGED vars
  PROVE  RInv' /\ UNCHANGED Service!vars
<1>1. UNCHANGED <<setting, start_i, state, counter, response_o, finish_o, start_data_o>>
  BY Zenon DEF vars, inputVars, hostVars
<1>2. RInv'
  BY <1>1 DEF AInv, RInv, resp_len
<1>3. phase' = phase /\ answered' = answered
  BY <1>1 DEF phase, answered, resp_len
<1> QED
  BY <1>1, <1>2, <1>3 DEF Service!vars, Service!inputVars, Service!hostVars

-----------------------------------------------------------------------------

\* Every behaviour of the command host, its counters and registers hidden, is one
\* of the service: a command is accepted once, answered at most once, and reported
\* done until software takes start back.
THEOREM RefinesService == Spec => Service!Spec
<1>1. Init => AInv /\ Service!Init
  BY InitIInv, InitRInv, InitRefines DEF AInv
<1>2. IInv /\ [Next]_vars => IInv'
  BY ClockIInv, SetStartIInv, SetRegistersIInv, ResetIInv, StutterIInv DEF Next
<1>3. AInv /\ [Next]_vars => RInv' /\ [Service!Next]_(Service!vars)
  <2> SUFFICES ASSUME AInv, [Next]_vars
               PROVE  RInv' /\ [Service!Next]_(Service!vars)
    OBVIOUS
  <2>1. CASE Clock /\ UNCHANGED inputVars
    <3>1. Host /\ UNCHANGED setting
      BY <2>1 DEF Clock, inputVars
    <3>2. (Service!Clock /\ UNCHANGED Service!inputVars) \/ UNCHANGED Service!vars
      BY <2>1, <3>1, HostRefines
    <3> QED
      BY <3>1, <3>2, HostRInv DEF Service!Next
  <2>2. CASE SetStart \/ SetRegisters \/ Reset
    BY <2>2, SoftwareRInv, SoftwareRefines
  <2>3. CASE UNCHANGED vars
    BY <2>3, StutterRefines
  <2> QED
    BY <2>1, <2>2, <2>3 DEF Next
<1>4. AInv /\ [Next]_vars => AInv'
  BY <1>2, <1>3 DEF AInv
<1> QED
  BY <1>1, <1>3, <1>4, PTL DEF Spec, Service!Spec

-----------------------------------------------------------------------------
(* The controller that runs the hosts, and the driver that waits for them. *)

\* Both hosts idle and their flags down.
Quiet == c_phase \in {"reset", "idle"} /\ ~c_finish /\ ~c_start_data /\ d_phase = "idle" /\ ~d_finish

\* Before a command is started, and while it is not accepted, the hosts are quiet.
BeforeCommand ==
  /\ pc \in {"off", "ready", "start"} => Quiet /\ owed = 0 /\ ~sd_cmd_start
  /\ pc = "wait" /\ owed = 1 => Quiet

\* The flags the driver works with agree with what it wrote.
Agrees ==
  /\ pc \in {"start", "wait", "stop", "unset", "drain"} =>
       (transfer_read <=> mask_data) /\ (sd_cmd_setting.data <=> mask_data) /\ (mask_data => sd_data_start = 2)
  /\ pc \in {"wait", "stop"} => sd_cmd_start
  /\ pc \in {"unset", "drain"} => ~sd_cmd_start
  /\ owed = 1 => pc = "wait"
  /\ ~wired => pc \in {"off", "ready", "start", "wait"}

\* The command host: accepted, on its way, done, and idle only after start is down.
CommandPlace ==
  /\ pc = "wait" /\ owed = 0 => c_phase \in {"busy", "done"}
  /\ c_phase = "busy" => pc = "wait"
  /\ c_finish => pc \in {"wait", "stop", "unset", "drain"}
  /\ pc = "wait" /\ c_finish => c_phase = "done"
  /\ pc = "stop" => c_phase = "done" /\ c_finish
  /\ pc \in {"unset", "drain"} => (c_phase = "done" /\ c_finish) \/ c_phase = "idle"
  /\ c_phase = "idle" /\ ~c_finish => ~c_start_data

\* The data host runs only for a read, while the command host says so, and is done
\* only when this command's transfer has ended.
DataPlace ==
  /\ c_start_data => mask_data
  /\ d_phase # "idle" \/ d_finish => mask_data
  /\ d_phase \in {"idle", "reading", "done"}
  /\ d_phase = "reading" => pc = "wait" /\ c_start_data
  /\ d_phase = "done" => moved
  /\ d_finish /\ pc = "wait" => d_phase = "done" /\ c_start_data
  /\ d_phase = "done" /\ pc = "wait" => c_start_data
  /\ pc = "stop" /\ mask_data => d_phase = "done" /\ d_finish /\ c_start_data
  /\ pc \in {"unset", "drain"} =>
       (d_phase = "done" => d_finish) /\ (d_phase = "idle" => ~c_start_data)

ControllerIInv == ControllerTypeOK /\ BeforeCommand /\ Agrees /\ CommandPlace /\ DataPlace

-----------------------------------------------------------------------------
(* The two hosts' edges, as the driver's argument uses them. *)

\* What an edge does to the command host: start_data_o goes up only during a
\* command with the data bit and down only in IDLE or at an acceptance, and a
\* command is accepted only from IDLE with start up.
CommandEdgeFacts ==
  /\ c_phase' \in Cmd!Phases /\ c_answered' \in BOOLEAN /\ c_finish' \in BOOLEAN
  /\ c_start_data' \in BOOLEAN
  /\ c_phase = "reset" => c_phase' \in {"reset", "idle"} /\ (c_finish' <=> c_finish)
                          /\ (c_start_data' <=> c_start_data)
  /\ c_phase = "idle" => c_phase' = (IF sd_cmd_start THEN "busy" ELSE "idle") /\ ~c_finish' /\ ~c_start_data'
  /\ c_phase = "busy" => c_phase' \in {"busy", "done"} /\ (c_finish' <=> c_finish)
                         /\ (c_start_data' => c_start_data \/ sd_cmd_setting.data)
  /\ c_phase = "busy" /\ c_start_data /\ sd_cmd_setting.data => c_start_data'
  /\ c_phase = "done" => c_phase' = (IF sd_cmd_start THEN "done" ELSE "idle") /\ c_finish'
                         /\ (c_start_data' <=> c_start_data)

LEMMA CommandEdge == ControllerTypeOK /\ CmdEdge => CommandEdgeFacts
PROOF
<1> SUFFICES ASSUME ControllerTypeOK, CmdEdge PROVE CommandEdgeFacts
  OBVIOUS
<1> USE DEF ControllerTypeOK, Cmd!Phases, CommandEdgeFacts
<1>1. CASE Cmd!LeaveReset
  BY <1>1 DEF Cmd!LeaveReset
<1>2. CASE Cmd!Rest
  BY <1>2 DEF Cmd!Rest
<1>3. CASE Cmd!Accept
  BY <1>3 DEF Cmd!Accept
<1>4. CASE Cmd!Answer
  <2>1. sd_cmd_setting.data \in BOOLEAN
    BY DEF Settings
  <2> QED BY <1>4, <2>1 DEF Cmd!Answer
<1>5. CASE Cmd!Complete
  BY <1>5 DEF Cmd!Complete
<1>6. CASE Cmd!Finish
  BY <1>6 DEF Cmd!Finish
<1>7. CASE c_phase \in {"reset", "busy"} /\ UNCHANGED cmdHost
  BY <1>7 DEF cmdHost
<1> QED BY <1>1, <1>2, <1>3, <1>4, <1>5, <1>6, <1>7 DEF CmdEdge

\* What an edge does to the data host when nothing writes: it leaves IDLE only to
\* read, and ends only by ending a transfer.
DataEdgeFacts ==
  /\ d_phase' \in {"idle", "reading", "done"} /\ d_finish' \in BOOLEAN
  /\ d_outcome' \in {"none", "moved", "timeout"}
  /\ d_phase = "idle" => d_phase' = d_phase \/ (d_phase' = "reading" /\ data_start = 2)
  /\ d_phase = "idle" => (d_finish' => d_finish)
  /\ d_phase = "reading" => d_phase' \in {"reading", "done"} /\ (d_finish' <=> d_finish)
  /\ d_phase = "done" => d_phase' = "done" \/ (d_phase' = "idle" /\ data_start = 0)
  /\ d_phase = "done" => (d_finish => d_finish')
  /\ d_phase = "done" /\ d_phase' = "idle" => d_finish'

LEMMA DataEdgeOfReads == ControllerTypeOK /\ d_phase # "writing" /\ DataEdge => DataEdgeFacts
PROOF
<1> SUFFICES ASSUME ControllerTypeOK, DataEdge, d_phase # "writing" PROVE DataEdgeFacts
  OBVIOUS
<1> USE DEF ControllerTypeOK, Data!Phases, DataEdgeFacts
<1>0. data_start \in {0, 2}
  BY DEF data_start
<1>1. CASE UNCHANGED dataHost
  BY <1>1 DEF dataHost
<1>2. CASE Data!Idle
  BY <1>0, <1>2 DEF Data!Idle, Data!Goto
<1>3. CASE Data!Move
  BY <1>0, <1>3 DEF Data!Move, Data!Goto
<1>4. CASE Data!TimeOut
  BY <1>0, <1>4 DEF Data!TimeOut, Data!Goto
<1>5. CASE Data!Abort
  BY <1>0, <1>5 DEF Data!Abort
<1>6. CASE Data!Finish
  BY <1>0, <1>6 DEF Data!Finish, Data!Goto
<1> QED BY <1>1, <1>2, <1>3, <1>4, <1>5, <1>6 DEF DataEdge, Data!Clock
-----------------------------------------------------------------------------

LEMMA ControllerInitIInv == ControllerInit => ControllerIInv
PROOF
<1> SUFFICES ASSUME ControllerInit PROVE ControllerIInv
  OBVIOUS
<1>1. ControllerTypeOK
  <2>1. sd_cmd_setting \in Settings
    BY DEF ControllerInit, Settings, NoSetting
  <2>2. c_phase \in Cmd!Phases /\ d_phase \in Data!Phases /\ owed \in 0 .. 1
    BY DEF ControllerInit, Cmd!Phases, Data!Phases
  <2>3. /\ sd_data_start \in {0, 2} /\ d_outcome \in {"none", "moved", "timeout"}
        /\ pc \in {"off", "ready", "start", "wait", "stop", "unset", "drain"}
    BY DEF ControllerInit
  <2>4. wired \in BOOLEAN
    BY ControllerAssumption DEF ControllerInit
  <2> QED BY <2>1, <2>2, <2>3, <2>4, Zenon DEF ControllerInit, ControllerTypeOK
<1>2. BeforeCommand /\ Agrees
  BY DEF ControllerInit, BeforeCommand, Quiet, Agrees
<1>3. CommandPlace /\ DataPlace
  BY DEF ControllerInit, CommandPlace, DataPlace
<1> QED BY <1>1, <1>2, <1>3 DEF ControllerIInv

\* Both hosts step, the driver and its registers stand still.
LEMMA EdgeStep == ControllerIInv /\ Edge => ControllerIInv'
PROOF
<1> SUFFICES ASSUME ControllerIInv, Edge PROVE ControllerIInv'
  OBVIOUS
<1>0. /\ UNCHANGED <<sd_cmd_setting, sd_data_start, sd_cmd_start, sd_rst>>
      /\ UNCHANGED <<transfer_read, mask_data, pc, wired>>
      /\ CmdEdge /\ DataEdge
      /\ owed' = IF c_phase = "idle" /\ c_phase' = "busy" THEN owed - 1 ELSE owed
      /\ moved' = (moved \/ (d_phase \in {"writing", "reading"} /\ d_phase' = "done"))
  BY DEF Edge, registers, driver
<1>1. ControllerTypeOK /\ BeforeCommand /\ Agrees /\ CommandPlace /\ DataPlace
  BY DEF ControllerIInv
<1>2. d_phase # "writing"
  BY <1>1 DEF DataPlace
<1>3. CommandEdgeFacts
  BY <1>0, <1>1, CommandEdge
<1>4. DataEdgeFacts
  BY <1>0, <1>1, <1>2, DataEdgeOfReads
<1>5. data_start = IF c_start_data THEN sd_data_start ELSE 0
  BY DEF data_start
<1> HIDE DEF CommandEdgeFacts, DataEdgeFacts
<1>6. ControllerTypeOK'
  <2>1. owed' \in 0 .. 1
    <3>1. c_phase = "idle" /\ c_phase' = "busy" => sd_cmd_start
      BY <1>3 DEF CommandEdgeFacts
    <3>2. c_phase = "idle" /\ sd_cmd_start => owed = 1
      BY <1>1 DEF ControllerTypeOK, BeforeCommand, Agrees, CommandPlace
    <3> QED BY <3>1, <3>2, <1>0, <1>1 DEF ControllerTypeOK
  <2>2. moved' \in BOOLEAN
    BY <1>0, <1>1 DEF ControllerTypeOK
  <2>3. Data!Phases = {"idle", "writing", "reading", "done"}
    BY DEF Data!Phases
  <2> QED BY <1>0, <1>1, <1>3, <1>4, <2>1, <2>2, <2>3 DEF ControllerTypeOK, CommandEdgeFacts, DataEdgeFacts
<1>7. BeforeCommand'
  BY <1>0, <1>1, <1>3, <1>4, <1>5 DEF ControllerTypeOK, BeforeCommand, Quiet, Agrees, CommandPlace, CommandEdgeFacts, DataEdgeFacts
<1>8. Agrees'
  BY <1>0, <1>1 DEF ControllerTypeOK, Agrees
<1>9. CommandPlace'
  BY <1>0, <1>1, <1>3 DEF ControllerTypeOK, BeforeCommand, Quiet, Agrees, CommandPlace, CommandEdgeFacts
<1>10. DataPlace'
  BY <1>0, <1>1, <1>3, <1>4, <1>5 DEF ControllerTypeOK, BeforeCommand, Quiet, Agrees, CommandPlace, DataPlace, CommandEdgeFacts, DataEdgeFacts
<1> QED BY <1>6, <1>7, <1>8, <1>9, <1>10 DEF ControllerIInv

\* A step of the driver: one of its statements.
LEMMA DriverStep == ControllerIInv /\ Driver => ControllerIInv'
PROOF
<1> SUFFICES ASSUME ControllerIInv, Driver PROVE ControllerIInv'
  OBVIOUS
<1>0. ControllerTypeOK /\ BeforeCommand /\ Agrees /\ CommandPlace /\ DataPlace
  BY DEF ControllerIInv
<1>s. ASSUME NEW resp \in BOOLEAN, NEW long \in BOOLEAN, WriteSetting(resp, long)
      PROVE  /\ sd_cmd_setting' \in Settings /\ sd_data_start' \in {0, 2}
             /\ (sd_cmd_setting'.data <=> transfer_read) /\ (transfer_read => sd_data_start' = 2)
  BY <1>0, <1>s DEF WriteSetting, Settings, ControllerTypeOK
<1> USE DEF ControllerIInv, ControllerTypeOK, BeforeCommand, Quiet, Agrees, CommandPlace, DataPlace, cmdHost, dataHost, registers
<1>1. CASE PowerInit
  BY <1>0, <1>1, ZenonT(60) DEF PowerInit
<1>2. CASE TransferMode
  BY <1>0, <1>2, ControllerAssumption DEF TransferMode
<1>3. CASE Command
  <2>1. PICK resp \in BOOLEAN, long \in BOOLEAN : WriteSetting(resp, long)
    BY <1>3 DEF Command
  <2> QED BY <1>0, <1>3, <1>s, <2>1 DEF Command
<1>4. CASE WriteStart
  <2>1. pc = "start" /\ owed = 0
    BY <1>0, <1>4 DEF WriteStart
  <2>2. owed' = 1
    BY <2>1, <1>4 DEF WriteStart
  <2>3. /\ pc' = "wait" /\ sd_cmd_start' = TRUE /\ moved' = FALSE
        /\ UNCHANGED <<sd_cmd_setting, sd_data_start, sd_rst, transfer_read, mask_data, wired>>
        /\ UNCHANGED <<c_phase, c_answered, c_finish, c_start_data, d_phase, d_outcome, d_finish>>
    BY <1>4 DEF WriteStart
  <2>4. owed' \in 0 .. 1
    BY <2>2
  <2>5. ControllerTypeOK'
    BY <1>0, <2>3, <2>4
  <2>6. BeforeCommand' /\ Agrees'
    BY <1>0, <2>1, <2>2, <2>3
  <2>7. CommandPlace' /\ DataPlace'
    BY <1>0, <2>1, <2>2, <2>3
  <2> QED BY <2>5, <2>6, <2>7
<1>5. CASE Wait
  BY <1>0, <1>5 DEF Wait, Finished, finish_cmd, finish_data
<1>6. CASE Stop
  BY <1>0, <1>6, ZenonT(60) DEF Stop
<1>7. CASE Unset
  BY <1>0, <1>7, <1>s, ZenonT(60) DEF Unset
<1>8. CASE Drain
  BY <1>0, <1>8 DEF Drain, Drained, finish_cmd, finish_data
<1> QED BY <1>1, <1>2, <1>3, <1>4, <1>5, <1>6, <1>7, <1>8 DEF Driver

-----------------------------------------------------------------------------

\* The inductive invariant: what each flag can be at each place of the driver.
THEOREM ControllerInvariance == ControllerSpec => []ControllerIInv
PROOF
<1>1. ControllerIInv /\ UNCHANGED controllerVars => ControllerIInv'
  <2> SUFFICES ASSUME ControllerIInv, UNCHANGED controllerVars PROVE ControllerIInv'
    OBVIOUS
  <2>1. /\ UNCHANGED <<sd_cmd_setting, sd_data_start, sd_cmd_start, sd_rst>>
        /\ UNCHANGED <<c_phase, c_answered, c_finish, c_start_data, d_phase, d_outcome, d_finish>>
        /\ UNCHANGED <<transfer_read, mask_data, pc, wired, owed, moved>>
    BY DEF controllerVars, registers, cmdHost, dataHost, driver
  <2> QED BY <2>1 DEF ControllerIInv, ControllerTypeOK, BeforeCommand, Quiet, Agrees, CommandPlace, DataPlace
<1> QED BY ControllerInitIInv, EdgeStep, DriverStep, <1>1, PTL DEF ControllerSpec, ControllerNext

\* Every start the driver writes becomes exactly one command, whatever the clocks
\* of the driver and of the hosts.
THEOREM OneCommand == ControllerSpec => []OneCommandPerStart
PROOF
<1>1. ControllerIInv => OneCommandPerStart
  BY DEF ControllerIInv, OneCommandPerStart, ControllerTypeOK, BeforeCommand, Quiet, Agrees, CommandPlace
<1> QED BY <1>1, ControllerInvariance, PTL

\* When the wait for a block is over, it is this command's block that has been moved.
THEOREM BlockOwned == ControllerSpec => []BlockIsOurs
PROOF
<1>1. ControllerIInv => BlockIsOurs
  BY DEF ControllerIInv, BlockIsOurs, ControllerTypeOK, DataPlace
<1> QED BY <1>1, ControllerInvariance, PTL

\* Between commands both hosts are idle with their flags down.
THEOREM QuietHosts == ControllerSpec => []QuietBetween
PROOF
<1>1. ControllerIInv => QuietBetween
  BY DEF ControllerIInv, QuietBetween, BeforeCommand, Quiet
<1> QED BY <1>1, ControllerInvariance, PTL

-----------------------------------------------------------------------------
(* The clock divider, which runs beside the controller: software writes its *)
(* divisor, and the two share no other state.                                *)

LEMMA IncrementIs ==
  ASSUME DividerTypeOK
  PROVE  IF ClockDiv = COUNT_MOD - 1 THEN Increment = 0 ELSE Increment = ClockDiv + 1
BY DividerAssumption DEF DividerTypeOK, Increment

LEMMA DividerStep ==
  ASSUME DividerInv, [DividerNext]_dividerVars
  PROVE  DividerInv'
<1> USE DividerAssumption
<1>1. CASE Match
  <2>0. SD_CLK_O' \in {0, 1} /\ ClockDiv' \in 0 .. COUNT_MOD - 1
    BY <1>1 DEF DividerInv, DividerTypeOK, Match
  <2>1. DividerTypeOK'
    BY <2>0, <1>1 DEF DividerInv, DividerTypeOK, Match
  <2>2. half' = 0 /\ ClockDiv' = 0 /\ DIVIDER' \in Nat /\ RST' = FALSE
    BY <1>1 DEF DividerInv, DividerTypeOK, Match
  <2> QED
    BY <2>1, <2>2 DEF DividerInv, InvHalf
<1>2. CASE Count
  <2>1. /\ ~RST /\ ClockDiv # DIVIDER /\ ClockDiv' = Increment /\ half' = half + 1
        /\ UNCHANGED <<DIVIDER, RST, SD_CLK_O, changed>>
    BY <1>2 DEF Count
  <2>2. DividerTypeOK /\ InvHalf /\ COUNT_MOD \in Nat /\ ClockDiv \in Nat /\ DIVIDER \in Nat
    BY DEF DividerInv, DividerTypeOK
  <2>3. CASE ClockDiv = COUNT_MOD - 1
    <3>1. Increment = 0
      BY <2>2, <2>3, IncrementIs
    <3>2. ClockDiv > DIVIDER
      BY <2>1, <2>2, <2>3 DEF DividerTypeOK
    <3>3. changed /\ half = ClockDiv
      BY <2>2, <3>2 DEF InvHalf
    <3> QED
      BY <2>1, <2>2, <2>3, <3>1, <3>3 DEF DividerInv, InvHalf, DividerTypeOK
  <2>4. CASE ClockDiv # COUNT_MOD - 1
    <3>1. Increment = ClockDiv + 1
      BY <2>2, <2>4, IncrementIs
    <3>2. DividerTypeOK'
      BY <2>1, <2>2, <2>4, <3>1 DEF DividerTypeOK
    <3>3. InvHalf'
      BY <2>1, <2>2, <3>1 DEF InvHalf
    <3> QED
      BY <2>1, <3>2, <3>3 DEF DividerInv
  <2> QED
    BY <2>3, <2>4
<1>3. CASE SetReset
  <2>1. CASE RST
    <3>1. RST' = FALSE /\ UNCHANGED <<DIVIDER, ClockDiv, SD_CLK_O, half, changed>>
      BY <1>3, <2>1 DEF DividerInv, DividerTypeOK, SetReset
    <3> QED
      BY <3>1 DEF DividerInv, DividerTypeOK, InvHalf
  <2>2. CASE ~RST
    <3>1. /\ RST' = TRUE /\ ClockDiv' = 0 /\ SD_CLK_O' = 0 /\ half' = 0 /\ changed' = FALSE
          /\ UNCHANGED DIVIDER
      BY <1>3, <2>2 DEF DividerInv, DividerTypeOK, SetReset
    <3>2. DividerTypeOK'
      <4>1. ClockDiv' \in 0 .. COUNT_MOD - 1
        BY <3>1
      <4>2. SD_CLK_O' \in {0, 1} /\ half' \in Nat
        BY <3>1
      <4> QED
        BY <4>1, <4>2, <3>1, Zenon DEF DividerInv, DividerTypeOK
    <3>3. ClockDiv' <= DIVIDER'
      BY <3>1 DEF DividerInv, DividerTypeOK
    <3> QED
      BY <3>1, <3>2, <3>3 DEF DividerInv, InvHalf
  <2> QED
    BY <2>1, <2>2
<1>4. CASE \E d \in Dividers : SetDivider(d)
  <2>1. PICK d \in Dividers : SetDivider(d)
    BY <1>4
  <2>2. /\ ~changed /\ DIVIDER' = d /\ changed' = ~RST
        /\ UNCHANGED <<RST, ClockDiv, SD_CLK_O, half>>
    BY <2>1 DEF SetDivider
  <2>3. DIVIDER' \in 0 .. COUNT_MOD - 1 /\ changed' \in BOOLEAN
    BY <2>2 DEF DividerInv, DividerTypeOK
  <2>4. DividerTypeOK'
    BY <2>2, <2>3 DEF DividerInv, DividerTypeOK
  <2>5. half = ClockDiv
    BY <2>2 DEF DividerInv, InvHalf
  <2>6. RST => ClockDiv = 0 /\ 0 <= DIVIDER'
    BY <2>3 DEF DividerInv
  <2>7. InvHalf'
    BY <2>2, <2>5, <2>6 DEF InvHalf
  <2>8. RST' => ClockDiv' = 0 /\ half' = 0 /\ ~changed'
    BY <2>2 DEF DividerInv
  <2> QED
    BY <2>4, <2>7, <2>8 DEF DividerInv
<1>5. CASE UNCHANGED dividerVars
  BY <1>5 DEF DividerInv, DividerTypeOK, InvHalf, dividerVars
<1> QED
  BY <1>1, <1>2, <1>3, <1>4, <1>5 DEF DividerNext, DividerClock

\* A half period that ends is as long as programmed, or one wrap of the counter
\* longer, for every width of the counter and every value written.
THEOREM HalfPeriods == DividerSpec => HalfPeriod
<1>1. DividerInit => DividerInv
  <2>1. 0 \in 0 .. COUNT_MOD - 1
    BY DividerAssumption
  <2> SUFFICES ASSUME DividerInit PROVE DividerInv
    OBVIOUS
  <2>2. DividerTypeOK
    <3>1. DIVIDER \in 0 .. COUNT_MOD - 1 /\ ClockDiv \in 0 .. COUNT_MOD - 1
      BY <2>1 DEF DividerInit
    <3> QED
      BY <3>1 DEF DividerInit, DividerTypeOK
  <2>3. InvHalf
    BY DEF DividerInit, InvHalf
  <2> QED
    BY <2>2, <2>3 DEF DividerInit, DividerInv
<1>2. DividerInv /\ [DividerNext]_dividerVars =>
        [SD_CLK_O' # SD_CLK_O /\ ~RST' => half = DIVIDER \/ (changed /\ half = DIVIDER + COUNT_MOD)]_dividerVars
  <2> SUFFICES ASSUME DividerInv, DividerNext, SD_CLK_O' # SD_CLK_O, ~RST'
               PROVE  half = DIVIDER \/ (changed /\ half = DIVIDER + COUNT_MOD)
    OBVIOUS
  <2>1. CASE Match
    BY <2>1 DEF DividerInv, InvHalf, Match
  <2> QED
    BY <2>1 DEF DividerInv, DividerTypeOK, DividerNext, DividerClock, Count, SetReset, SetDivider
<1>3. DividerInv /\ [DividerNext]_dividerVars => DividerInv'
  BY DividerStep
<1> QED
  BY <1>1, <1>2, <1>3, PTL DEF DividerSpec, HalfPeriod
=============================================================================
