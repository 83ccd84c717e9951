-------------------------------- MODULE SdHost --------------------------------
(* The SD driver above one transaction: the host registers minion_uart_write   *)
(* emulates, the trace init_sd replays to bring a card up, sd_read_sector and  *)
(* the disk calls of FatFs (bootstrap/minion_helper.c, hello/diskio.c).        *)
(*                                                                             *)
(* A transaction is one step; SdController has its clocks.  From it comes that *)
(* a command comes back, answered or timed out, but that a block read whose    *)
(* command is not answered leaves the driver at its poll for ever, and so does *)
(* every command where the driver cannot see the hosts finish.                 *)
(*                                                                             *)
(* The card is external, the cards of the SD specification that take a sector  *)
(* number for a block: it answers a command its state allows, may keep any     *)
(* block to itself, and may be pulled out.                                     *)
EXTENDS Integers, Sequences

CONSTANTS Rcas,      \* addresses a card may publish
          Polls,     \* times a card may be asked before it is ready
          Sectors,   \* what FatFs may ask for
          MaxCount   \* sectors of one disk_read

ASSUME SdHostAssumption == Rcas \subseteq Nat \ {0} /\ Polls \subseteq Nat \ {0}
                           /\ Sectors \subseteq Nat /\ MaxCount \in Nat \ {0}

VARIABLES pc,      \* "init", "blocklen" and "read" of sd_read_sector, "idle", "stuck"
          step,    \* the next entry of the trace
          job,     \* the sectors still to read, and the piece of the buffer for the first
          host,    \* the registers a transfer depends on, and if its end can be seen
          fifo,    \* the receive FIFO
          buffer,  \* the caller's buffer, in pieces of 512 bytes
          card

vars == <<pc, step, job, host, fifo, buffer, card>>

-----------------------------------------------------------------------------
(* The trace: an argument matters when it is an address, a sector or the width *)
(* of the bus; the two of CMD6 are told apart by a number.                     *)

Command(cmd, arg, size) == [op |-> "command", cmd |-> cmd, arg |-> arg, size |-> size]
Plain(cmd, arg) == Command(cmd, arg, 0)
Control(wide) == [op |-> "host_control", wide |-> wide]

RCA == 7

PowerUp == <<[op |-> "software_reset"], Control(FALSE), Plain(0, 0), Plain(8, 0)>>
Polling == [k \in 1 .. 84 |-> Plain(IF k % 2 = 1 THEN 55 ELSE 41, 0)]
Identify == <<Plain(2, 0), Plain(3, 0), Plain(9, RCA), Plain(13, RCA), Plain(7, RCA)>>

\* Mutant: the trace lost the command before the application command.
ReadScrUnprefixed == <<Command(51, 0, 8)>>
ReadScr == <<Plain(55, RCA), Command(51, 0, 8)>>
Switch == <<Command(6, 0, 64), Command(6, 1, 64)>>
WideBus == <<Plain(55, RCA), Plain(6, 2), Control(TRUE)>>
ReadStatus == <<Plain(55, RCA), Command(13, 0, 64), Control(TRUE)>>

Trace == PowerUp \o Polling \o Identify \o ReadScr \o Switch \o WideBus \o ReadStatus

-----------------------------------------------------------------------------
(* The card *)

States == {"absent", "idle", "ready", "ident", "stby", "tran"}

\* A card that was just put in.
\* It is reset by CMD0, ready when it was asked polls times, and mute when it will
\* send no block on the next command.
Inserted == [state : {"idle"}, reset : {FALSE}, app : {FALSE}, wide : {FALSE},
             rca : Rcas, addressed : {FALSE}, polls : Polls, asked : {0}, mute : {FALSE}]

Addressed(c, arg) == arg = IF c.addressed THEN c.rca ELSE 0

Answers(c, cmd, arg) ==
  CASE cmd = 8  -> c.state = "idle"
    [] cmd = 55 -> c.state # "absent" /\ Addressed(c, arg)
    [] cmd = 41 -> c.state = "idle" /\ c.app
    [] cmd = 2  -> c.state = "ready"
    [] cmd = 3  -> c.state = "ident"
    [] cmd \in {7, 9} -> c.state = "stby" /\ Addressed(c, arg)
    [] cmd = 13 -> c.state = "tran" \/ (c.state = "stby" /\ ~c.app /\ Addressed(c, arg))
    [] cmd = 51 -> c.state = "tran" /\ c.app
    [] cmd \in {6, 16, 17} -> c.state = "tran"
    [] OTHER -> FALSE

\* The card once it has done what an answered command asks.
Obeys(c, cmd, arg) ==
  CASE cmd = 41 -> [c EXCEPT !.asked = @ + 1,
                             !.state = IF c.asked + 1 >= c.polls THEN "ready" ELSE "idle"]
    [] cmd = 2  -> [c EXCEPT !.state = "ident"]
    [] cmd = 3  -> [c EXCEPT !.state = "stby", !.addressed = TRUE]
    [] cmd = 7  -> [c EXCEPT !.state = "tran"]
    [] cmd = 6 /\ c.app -> [c EXCEPT !.wide = arg = 2]
    [] OTHER -> c

CardAfter(c, cmd, arg) ==
  LET done == CASE c.state = "absent" -> c
                [] c.state # "absent" /\ cmd = 0 ->
                     [c EXCEPT !.state = "idle", !.reset = TRUE, !.wide = FALSE,
                               !.addressed = FALSE, !.asked = 0]
                [] Answers(c, cmd, arg) -> Obeys(c, cmd, arg)
                [] OTHER -> c
  IN  {[done EXCEPT !.app = cmd = 55 /\ Answers(c, cmd, arg), !.mute = mute] :
         mute \in {FALSE, done.state = "tran"}}

\* Words of a block: those of a sector say whose they are.
Sector(n) == [k \in 1 .. 128 |-> <<n, k>>]
Register(bytes) == [k \in 1 .. bytes \div 4 |-> <<-1, k>>]

\* The block the card sends on a command, none for most.
Block(c, cmd, arg) ==
  CASE cmd = 17 -> Sector(arg)
    [] cmd = 51 -> Register(8)
    [] (cmd = 6 /\ ~c.app) \/ (cmd = 13 /\ c.app) -> Register(64)
    [] OTHER -> <<>>

-----------------------------------------------------------------------------
(* One transaction *)

\* The words the data host puts into the FIFO: blksize bytes of what it takes from
\* the lanes, which is the card's block when both count the same lanes and bytes.
Taken(h, block) ==
  [k \in 1 .. h.blksize \div 4 |->
     IF h.wide = card.wide /\ k <= Len(block) THEN block[k] ELSE <<-2, k>>]

Answered(cmd, arg) == cmd = 0 \/ Answers(card, cmd, arg)

\* The FIFO after the transaction.
Filled(h, cmd, arg) ==
  LET block == Block(card, cmd, arg)
      comes == h.read /\ Answered(cmd, arg) /\ block # <<>> /\ ~card.mute
  IN  IF comes THEN fifo \o Taken(h, block) ELSE fifo

\* Mutant: the wait of a block read is over when either bit is up.
EitherBit(h, cmd, arg) == h.shown
\* The driver's wait for its finish bits ends if they go up and the driver sees
\* them (shown): not while the hosts are in reset, which init_sd leaves as it finds
\* it (:513), nor with the constant of minion_soc.sv:625 for a status word, today's.
\* Without the answer to a block read the data host is never started, and the
\* second bit never comes.
WaitEnds(h, cmd, arg) == h.shown /\ (h.read => Answered(cmd, arg))

\* minion_uart_write of COMMAND with the registers h, and the card's part.
Transact(h, cmd, arg) ==
  /\ WaitEnds(h, cmd, arg)
  /\ card' \in CardAfter(card, cmd, arg)

\* The same call when its wait does not end.
PollForEver(h, cmd, arg) ==
  /\ ~WaitEnds(h, cmd, arg)
  /\ pc' = "stuck"
  /\ UNCHANGED <<step, job, host, fifo, buffer, card>>

\* Mutant: the loop tests the empty bit before the last word shows.
LeavesLast(words) == IF words = <<>> THEN <<>> ELSE <<words[Len(words)]>>
\* What queue_block_read leaves in the FIFO, however much of it fits its buffer.
Unread(words) == <<>>

\* The registers of a block read; and INT_STATUS, which is written before and
\* after every command and takes the transfer mode back.
BlockSetup(size) == [host EXCEPT !.read = TRUE, !.blksize = size]
WriteIntStatus(h) == [h EXCEPT !.read = FALSE]

NoJob == [sector |-> 0, left |-> 0, piece |-> 0]
EmptyBuffer == [p \in 1 .. MaxCount |-> <<>>]

-----------------------------------------------------------------------------
(* init_sd *)

\* The next entry of the trace; after the last, the first 16 sectors are read, all
\* of them into the driver's own buffer.
Advance ==
  IF step < Len(Trace)
  THEN step' = step + 1 /\ UNCHANGED <<pc, job>>
  ELSE step' = 1 /\ pc' = "blocklen" /\ job' = [sector |-> 0, left |-> 16, piece |-> 0]

SoftwareReset ==
  /\ pc = "init" /\ Trace[step].op = "software_reset"
  /\ host' = WriteIntStatus(host)
  /\ Advance
  /\ UNCHANGED <<fifo, buffer, card>>

HostControl ==
  /\ pc = "init" /\ Trace[step].op = "host_control"
  /\ host' = [host EXCEPT !.wide = Trace[step].wide]
  /\ Advance
  /\ UNCHANGED <<fifo, buffer, card>>

InitCommand ==
  /\ pc = "init" /\ Trace[step].op = "command"
  /\ LET s == Trace[step]
         h == IF s.size > 0 THEN BlockSetup(s.size) ELSE host
         words == Filled(h, s.cmd, s.arg)
     IN  \/ /\ Transact(h, s.cmd, s.arg)
            /\ fifo' = IF s.size > 0 \/ s.cmd = 0 THEN Unread(words) ELSE words
            /\ host' = WriteIntStatus(h)
            /\ Advance
            /\ UNCHANGED buffer
         \/ PollForEver(h, s.cmd, s.arg)

-----------------------------------------------------------------------------
(* sd_read_sector and the disk calls *)

\* CMD16 sets the block length.
BlockLength ==
  /\ pc = "blocklen"
  /\ LET h == WriteIntStatus(host)
     IN  \/ /\ Transact(h, 16, 512)
            /\ fifo' = Filled(h, 16, 512)
            /\ host' = WriteIntStatus(h)
            /\ pc' = "read"
            /\ UNCHANGED <<step, job, buffer>>
         \/ PollForEver(h, 16, 512)

\* The words over the first of a piece; the rest of it keeps what it held.
Over(words, old) == words \o SubSeq(old, Len(words) + 1, Len(old))

\* CMD17 reads the block; what came is counted, and the count dropped.  init_sd's
\* loop asks for the next sector; disk_read's moves its pointer on but not its
\* sector, and asks for the same one again (diskio.c:187).
ReadBlock ==
  /\ pc = "read"
  /\ LET h == BlockSetup(512)
         words == Filled(h, 17, job.sector)
         own == job.piece = 0
     IN  \/ /\ Transact(h, 17, job.sector)
            /\ fifo' = Unread(words)
            /\ buffer' = IF own THEN buffer
                         ELSE [buffer EXCEPT ![job.piece] = Over(words, @)]
            /\ host' = WriteIntStatus(h)
            /\ pc' = IF job.left = 1 THEN "idle" ELSE "blocklen"
            /\ job' = IF job.left = 1 THEN NoJob
                      ELSE [sector |-> IF own THEN job.sector + 1 ELSE job.sector,
                            left |-> job.left - 1,
                            piece |-> IF own THEN 0 ELSE job.piece + 1]
            /\ UNCHANGED step
         \/ PollForEver(h, 17, job.sector)

\* The calls of FatFs; each read passes a buffer of its own.
disk_read(sector, count) ==
  /\ pc = "idle"
  /\ pc' = "blocklen"
  /\ job' = [sector |-> sector, left |-> count, piece |-> 1]
  /\ buffer' = EmptyBuffer
  /\ UNCHANGED <<step, host, fifo, card>>

disk_initialize ==
  /\ pc = "idle"
  /\ pc' = "init"
  /\ buffer' = EmptyBuffer
  /\ UNCHANGED <<step, job, host, fifo, card>>

-----------------------------------------------------------------------------
Init ==
  /\ pc = "init" /\ step = 1
  /\ job = NoJob
  /\ host \in [read : {FALSE}, wide : {FALSE}, blksize : {0}, shown : BOOLEAN]
  /\ fifo = <<>>
  /\ buffer = EmptyBuffer
  /\ card \in Inserted

Remove ==
  /\ card' = [card EXCEPT !.state = "absent"]
  /\ UNCHANGED <<pc, step, job, host, fifo, buffer>>

Insert ==
  /\ card.state = "absent"
  /\ card' \in Inserted
  /\ UNCHANGED <<pc, step, job, host, fifo, buffer>>

Next ==
  \/ SoftwareReset \/ HostControl \/ InitCommand
  \/ BlockLength \/ ReadBlock
  \/ \E sector \in Sectors, count \in 1 .. MaxCount : disk_read(sector, count)
  \/ disk_initialize
  \/ Remove \/ Insert

Spec == Init /\ [][Next]_vars

-----------------------------------------------------------------------------
(* Properties *)

\* sd_read_sector: a piece of the buffer gets the sector its CMD17 asked for,
\* whole, when the card sends it, and stays as it was when it does not; no word of
\* an earlier block, or of a block counted on other lanes, ever shows up in it.
\* Which sector is asked for is the caller's: disk_read asks for its first one for
\* every piece.
SectorExact ==
  [][ pc = "read" /\ job' # job /\ job.piece > 0 =>
        buffer' = IF card.mute THEN buffer
                  ELSE [buffer EXCEPT ![job.piece] = Sector(job.sector)] ]_vars

\* init_sd looks at no answer, yet what follows it finds the card it began with
\* selected, and both ends on four lanes.
InitialisedIsReady ==
  pc \in {"blocklen", "read", "idle"} /\ card.state # "absent" /\ card.reset =>
    card.state = "tran" /\ card.wide /\ host.wide

\* Where the hosts are in reset, or cannot be seen to finish as in this SoC, no card
\* gets the driver past its first command.  Where they can, it is left at its poll
\* only by a card that was taken out, swapped, not ready after 42 questions or at
\* another address than the trace has (minion_helper.c:284).
StuckOnlyWithout ==
  /\ ~host.shown => pc \in {"init", "stuck"} /\ step <= 3
  /\ pc = "stuck" /\ host.shown =>
       card.state = "absent" \/ ~card.reset \/ card.polls > 42 \/ card.rca # RCA
=============================================================================
