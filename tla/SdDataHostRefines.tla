-------------------------- MODULE SdDataHostRefines --------------------------
(***************************************************************************)
(* The data host implements what DataService promises.                     *)
(***************************************************************************)
EXTENDS SdDataHost

phase ==
  IF state = "IDLE" THEN "idle"
  ELSE IF state \in {"WRITE_DAT", "WRITE_CRC", "WRITE_BUSY"} THEN "writing"
  ELSE IF state \in {"READ_WAIT", "READ_DAT"} THEN "reading"
  ELSE "done"

\* What the registers of a machine in FINISH say of the transfer: a read block is
\* whole in the FIFO and on the 4-bit bus its CRC is in, or a written one is whole on the lanes and
\* acknowledged, or no position of any block was moved.
outcome ==
  IF state # "FINISH" THEN "none"
  ELSE IF crc_c = 31 /\ (bus_4bit_reg => crc_din = Span(payload + 1, payload + 16))
          /\ received = First((payload \div perWord) * perWord) THEN "moved"
  ELSE IF crc_c = 0 /\ sent = Span(0, payload + 17) /\ crc_s = Span(0, 4) THEN "moved"
  ELSE IF crc_c = 15 /\ received = Empty /\ sent = Empty THEN "timeout"
  ELSE "garbled"

Service == INSTANCE DataService

\* The data host, its registers hidden, is a data service: a transfer that is
\* reported done moved a whole block or nothing.
Implements == Service!FairSpec
=============================================================================
