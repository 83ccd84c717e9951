# Minion subsystem: a TLA+ verification project

The repository is an FPGA system-on-chip, *minion*: a RISC-V core (Pulpino's, vendored), instruction
and data memories, a UART, an SD card controller, a PS/2 keyboard, a text display and an Ethernet core,
with the software that runs on it (a bootstrap monitor, an SD driver, a small supervisor) and the PC tool
that loads programs into it over the network. It has no tests: what it promises is in its comments, its
register map and the way each side uses the other.

This directory holds TLA+ models of its hardware state machines, of the protocols between its two clocks, its
processor and the network, and of the supervisor's memory and device calls; TLC configurations that check them on
small instances; and theorems about them that TLAPS proves for every value of their constants.

## 1. Inventory

### 1.1 SD card controller (`src/verilog/sd_*`)

Software writes registers on the SoC clock `msoc_clk`; two state machines run on `sd_clk`, a divided
clock that software can stop and re-program. Between the two domains there are only levels.

| part | state | operations | talks to |
| --- | --- | --- | --- |
| command host, `sd_cmd_serial_host.v` | seven states, bit counter, wait counter, shift registers, CRC register, pad, flags | a transition per clock, asynchronous reset | software (`start_i`, `setting_i`, `timeout_i`; `finish_o`, response), data host (`start_data_o`), card |
| data host, `sd_data_serial_host.sv` | seven states, bit counters, word register, four CRC registers, pads, flags | a transition per clock (the CRC and the FIFOs half a clock later), reset, abort | command host, FIFOs (`rd`, `we_o`), card |
| clock divider, `sd_clock_divider.v` | count, output | a transition per clock, writes of `DIVIDER` | register file |
| register file, `sd_bus.sv`, wiring, `sd_top.sv` | twelve registers | write, read | all of the above |
| FIFOs, `my_fifo.v` | words | push, pop, status | data host, UART, software |
| command driver, `minion_helper.c` (`sd_transaction_*`) | place in a command, transfer mode | set up, start, poll both finish bits, stop, poll them down | register file |

*Hard*: each side takes a level of the other clock domain for an event, so a start may be missed or seen
twice and a finish flag may be the last command's; a timeout may race the card's answer; the CRC register
runs one step beside the bit counter, so a bound off by one protects other bits than the card checks; four
lanes change hands during a block; a write waits for the card without a bound.
*Correct*: every start is one command; a frame is sent whole and protected; an answer is delivered whole
with the card's own CRC verdict; host and card never drive a line at once; exactly the words of a block
move, in order; every command and every transfer ends.

### 1.2 Serial port (`uart.v`, `rx_delay.v`, `minion_soc.sv`, `minion_lib.c`)

A receiver that counts quarters of a bit from the start edge behind a five-sample majority filter, a
transmitter, and SoC registers that acknowledge a byte with a copy of `received` one clock old and start a
byte with a pulse. Software polls `is_transmitting` and writes. *Hard*: a sender of another speed; a byte
pushed twice or not at all; a pulse while the transmitter is busy; an error flag nobody lowers. *Correct*:
every byte is received once, whole and in order; every failed reception is reported once.

### 1.3 Network access (`tester/edcl.cpp`, `udp.cpp`; `grethc64.vhd`)

The Ethernet core serves EDCL: a UDP datagram names an address, a length, read or write and a 14-bit
sequence number; the core executes it on the bus if the number is the one it expects and answers with a NAK
that carries its number if not. It has a few buffers, answers a write before the write reaches the bus, and
executes in order. The PC tool cuts a call into datagrams and waits for one answer each, up to a timeout.
*Hard*: lost requests, lost replies, replies that arrive after the call gave up, a number that is counted
though the request was not kept, buffers full. *Correct*: a call that returns a length has moved exactly
its words, and each word was touched once; every call returns; a stream that fell out of step recovers.

### 1.4 Bootstrap mailbox (`bootstrap/hello.c`, `tester/elfloader.cpp`, `stub_main.c`)

Over EDCL the tool writes a program image into shared memory, then a list of 16-byte slots (mode, pointer,
count), then a trigger word; the core polls the trigger and walks the list: write, read, block read, or
bootstrap (copy the image and call it). *Hard*: the tool drops the results of its writes, does not wait for
one list to complete before it writes the next, and does not terminate the list; a completed list leaves
its count where the first slot's mode was; an unknown mode returns without clearing the trigger. *Correct*:
a program that is run is the one that was asked for, whole; one list is walked for each trigger.

### 1.5 SD host emulation and sector read (`minion_helper.c`, `diskio.c`)

`minion_uart_write`/`read` present the controller as a standard SD host's registers to the driver above;
`init_sd` replays a recorded trace of such a driver to bring a card up; `sd_read_sector` runs a command and
`queue_block_read` drains the FIFO; `disk_read` and `disk_initialize` offer that to FatFs. State: the transfer mode
and block size of the next command, the width of the bus, the FIFO, the caller's buffer, the state of the card.
*Hard*: the trace looks at no answer; it addresses one card; results are dropped between layers; a block that does
not come leaves words of another where its own should be; a card may be pulled out or swapped at any command; nobody
takes the hosts out of reset or shows the driver their finish bits; `disk_read` never moves to the next sector.
*Correct*: a transaction leaves the sector it asked for in the buffer, whole, or nothing; after the trace the card and
the controller agree on the state of the card and the width of the bus; where the driver can see the hosts finish, only
cards the trace was not made for leave it at a poll.

### 1.6 Supervisor (`hello/vm.c`, `elf.c`, `file.c`, `mtrap.c`)

The memory manager maps *regions* (`vmr_t`): a range, a file or none, rights, and a count of the pages that still
wait for the first touch; the page-table entry of such a page points at its region. Calls map, unmap, protect and
move the break; the page fault fills a page; the loader maps a program's segments through the same calls. Regions
hold a reference on their file, in a small table of open files. *Hard*: two counts (pages of a region, regions of a
file) kept by five calls that overlap each other's ranges; a part of a region unmapped or protected before it is
touched; a break that grows into mappings; tables and pages that run out. *Correct*: the counts are what they count;
no right is gained by `mprotect`; a program cannot tell pages filled on demand from pages filled by the call.

The machine-mode side takes *device requests* (console, disk) in messages of the supervisor's, links the messages
into a list of reads that wait for a character and a list of responses, and announces responses and interrupts from
other harts with one software interrupt. *Hard*: one pending bit stands for two kinds of event, is lowered by either
consumer and raised by another hart at any moment; the links lie inside the messages. *Correct*: nothing waits
unannounced; no message is lost, doubled or answered out of order.

### 1.7 The rest

The memory bridge of the core (`coremem.sv`), PS/2 (`ps2.v`, `ps2_keyboard.v`), the text display, the UART monitor
and its S-record and Intel-hex loaders (`simple.c`, `srecord.c`, `ihex.c`), the supervisor's traps and instruction
emulation, FatFs, the tool's service framework, the ROM generators, and Pulpino itself. `PROJECT.json` lists each
with its status and the reason.

## 2. Plan

The modules, in order, and what each composes. All of 1 to 8 are written.

1. `SdCmdHost` with `CmdService`, what it promises; `SdDataHost` with `DataService`; `SdController`, which
   composes the two promises with the register file and the driver; `SdClockDivider`.
2. `Uart`: receiver, transmitter, the SoC's registers between them and software.
3. `EdclLink`: the PC tool's reads and writes and the server in the Ethernet core.
4. Proofs: `SdCommandProofs` (of the command host, the controller and the clock divider), `SdDataHostProofs`,
   `EdclLinkProofs`, `SdHostProofs`, `UartProofs`.
5. `ShmMailbox`, the core's side of the mailbox (`hello()` and its poll), and `NetBoot`, which composes it with
   the loader and the bootstrap call of the PC tool over calls that succeed, fail or are misled, which is what
   `EdclLink` leaves of a call; `NetBootProofs`.
6. `Vm` over `FileTable`, with `AddressSpace`, what it promises a program; `VmProofs`.
7. `SbiDevice` over `FileTable`, with `DeviceQueues`, what the device calls promise; `SbiDeviceProofs`.
8. `SdHost`: the driver's layers above a transaction, over what `SdController` shows of a transaction.

## 3. Modules and code

**`SdCmdHost`** (`sd_cmd_serial_host.v`, `sd_crc_7.v`). One variable per register; one action per state of the
machine, each the clocked process (lines 201–310) together with the next-state logic (130–178) and the delayed
CRC register (182–195). Data is abstracted to *positions*: a pad carries the number of the frame's or the
response's bit, and a CRC register is the span of positions it has taken in, or garbage once it has taken one
out of order. That tells apart everything the properties do: which bit is sent, protected, stored, compared.
The card is external: it sees a whole frame, waits any number of clocks from `MinDelay` to `MaxDelay`, or stays
silent, and answers in a short or a long response. Software raises and lowers `start_i` at any clock; it rewrites the
setting and the timeout between commands, as the driver does (section 6).

**`CmdService`** is what the host promises: reset, idle, busy, done; `answered` chosen at the end; `finish_o`
up when done; `start_data_o` only after an answer. `SdCmdHostRefines` gives the mapping, and `Implements` is
the abstract specification, fairness included, as a property of `SdCmdHost`.

**`SdDataHost`** (`sd_data_serial_host.sv`, `sd_crc_16.v`). A step is a rising and the following falling edge,
since the CRC and the FIFO strobe work half a clock from the state machine. Four lanes move together: a lane
value is the position in the block. One action per state, with abort and reset in front of each as in the code. What
has gone through the FIFOs is counted from the start of the transfer.
The card sends data at every legal delay or never, acknowledges a block after a bounded time, and stays busy a
bounded time. `DataService` and `SdDataHostRefines` relate to it as above.

**`SdController`** (`sd_bus.sv`, `sd_top.sv`, `minion_helper.c`). Composes `CmdService` and `DataService` (INSTANCE)
with the registers a command uses and the driver's steps, one action per register access, so the hosts' clock
may fall between any two. `Wired` is the set of SoCs: `wired` says whether the status word the driver polls shows the
finish bits (`sd_status_reg`) or is the constant `minion_soc.sv` answers with today, and the passing run has both;
`CardAnswers` is whether the card answers what has a response; `Reads` which transfer modes are in use.

**`SdClockDivider`** (`sd_clock_divider.v`). Exactly the counter, with writes of the divisor at any clock.

**`Uart`** (`uart.v`, `rx_delay.v`, the UART registers of `minion_soc.sv`, `uart_send`). Every step is a clock of
the system clock. The receiver and the transmitter are the Verilog's machines; a byte is the
tuple of its eight bits. At the other end is either a terminal whose bit is a few percent longer
or shorter, with noise on the idle line, or the port's own transmitter.

**`EdclLink`** (`edcl.cpp`, `udp.cpp`; the EDCL states of `grethc64.vhd`). Client, wire and server in one module:
a call, its loop over pieces, the acceptance by sequence number, the buffers, the reply that overtakes the
write, the write word by word. A frame or a reply may be lost; a buffer may hold a request past the client's
timeout. Each call writes its own number, so that memory says which call wrote a word last.

**`ShmMailbox`** (`hello.c`). A variable per local of `hello()` that outlives a statement, the shared memory and
the core's own memory, counted in words; one action per access to shared memory, so that the bus may write between
any two. The printing is left out. The modes `block_read` and unknown have no action: the core would be stuck at such
a slot for good, and `BootHappens` would fail if an untroubled list of the passing run led to one.

**`NetBoot`** (`elfloader.cpp`, `stub_main.c`, `main.cpp`; the memory's ports in `eth_soc_nexys4.vhd`). Extends
`ShmMailbox` by the tool, a call at a time, and by the words on their way to shared memory. A file is its sections;
an address loses all but 16 bits on its way, which is how a stack linked elsewhere lands in the image. A call ends
as `EdclLink` shows: with a length, and everything before it done (`ReturnExact`); with -1, and any first part of it
done, perhaps later; or with a length it took from a late reply (`MisledOncePerLate`). The tool looks at no result.
The board may be reset; both memories keep what they hold. **`NetBootProofs`** holds its theorems.

**`SdHost`** (`bootstrap/minion_helper.c`, whose copy under `hello/` is the same; `hello/diskio.c`). One action per
entry of `init_sd`'s trace (the command, the wait, the drain and the write of the interrupt status that follows) and
per transaction of `sd_read_sector`. A transaction is one step: `SdController` shows that it ends and whose block
comes, and that neither a block read without an answer nor a command whose end the driver cannot see does end, which is
`PollForEver`. `host.shown` is chosen at the start: the hosts are out of reset and the status word shows their finish
bits, or not. The trace is the code's, with
the arguments that decide something: an address, a sector, the width of the bus. The card is external: the states of
the SD specification, each command with the states it is answered in.

**`Vm`**, **`FileTable`** (`vm.c`, `elf.c`, `file.c`). The code's structures: page-table entries (free, waiting for a
region, filled), regions, file slots, the page allocator, the memory; one action per call, per phase of the loader and
per fault, and the program's stores. A failed `kassert` stops the machine. The code runs on one hart and its locks are
empty functions, so a call is one step. **`AddressSpace`** is what a program sees: an address holds what was mapped or
stored there last. In the mapping of `Implements` a waiting page shows what its region would fill it with (`Shows`).
The loops over the pages of a range are `PageLoop`, a recursive function of the number of pages done. Of `load_elf` it
is the part for a user's program; the supervisor's (`elf.c:62`, `:70`-`:77`) and a core without paging (`have_vm` 0,
`minit.c:27`) are left out. **`VmProofs`** holds the theorems.

**`SbiDevice`** (`mtrap.c`). The lists as the code has them, a head, a tail and links inside the messages. A call runs
without interrupts but not alone: it is cut where it touches `ipi_pending` or the interrupt of another hart. The swap
of `ipi_pending` (`atomic.h:21`) is a load and a store and masks the interrupts of its own hart only: `mcall_send_ipi`
loads, `Store` stores, and the other hart may run in between. The clear's own load only gives the value it returns, so
`Swap` is its store. The source has one hart (`num_harts`, `minit.c:8`); the model has any number.
**`DeviceQueues`** has the same calls over sequences; `Implements` maps each list to the messages it links.
**`SbiDeviceProofs`** holds its theorems.

`MC*` modules give constants that a configuration cannot write; they replace nothing.

## 4. Runs

States are distinct states on the configuration given.

| run | expects | states | what it shows, and why the bounds suffice |
| --- | --- | --- | --- |
| `cmd_host` | pass | 51,656 | The Verilog's own sizes (48-bit frame, 39/127-bit responses, 74 clocks of reset). The timeout, 14, is one clock beyond the card's worst delay, 13: the tightest legal pair. |
| `data_host` | pass | 211,144 | 4-bit writes, 4-bit and 1-bit reads, blocks of one byte (less than a word) and of two words. `transf_cnt` is 7 bits wide instead of 16: no transfer within these bounds reaches the end of it. |
| `controller` | pass | 229 | All cards, all response kinds, all transfer modes, both status words; the state space is finite without bounds. |
| `controller_noanswer` | violation | | A block read that is not answered never returns, with a status word that shows the finish bits (finding). |
| `sd_host` | pass | 66,516 | Hosts the driver can and cannot see finish; cards at the trace's address and at another, ready at the first, the last and one question too late, that keep any block to themselves, are pulled out and swapped; reads of one and two sectors, so that one may fail before the other; sectors 0 and 5, both of which `init_sd` has read before. The driver may be left at its poll, so deadlock is not checked. |
| `uart` | pass | 201,332 | `baud` 8, a bit of 32 clocks, remote bits of 31 to 33 (3%), one or two stop bits, noise of 1, 2 and 5 clocks: on each side of what the filter takes out. |
| `clock_divider` | pass | 4,293 | The real 8-bit counter; divisors at both ends and two a driver uses. |
| `edcl` | pass | 669,845 | Three calls, so that a late reply of one can meet the next and the one after; pieces of two words and a remainder; three numbers, so that numbers wrap within a run; two buffers. The tool may stop calling, so deadlock is not checked. |
| `netboot` | pass | 803,471 | Two programs, one with a text and a section aliased into the image, one that fills the image and has an unloaded section (zeros) over the slots; two slots and the trigger (a list that ends by itself uses two), an image of three words; two runs of the tool, so that each step of the second may meet each step of the first one's list; a failed call, which may mislead a later one; a reset. The tool may not be run again, so deadlock is not checked. |
| `vm` | pass | 206,774 | Pages of two units, so that a length, a segment and a file may end inside one; a program with one segment that starts inside a page and ends in a page of zeros; a file that ends inside a page; three calls, the least in which a region is made, split and its slot taken again; one file slot and three regions, so that each table runs out; four pages, of which the program and its stack take three, so that calls of one and two pages overlap them. |
| `sbi_device` | pass | 765,600 | Two harts, the least for an interrupt between harts to meet each cut of a call; two messages, so that lists have a head and another tail; two characters. The messages are symmetric: the specification names none and compares them only for equality. A panic stops the machine, here and in `vm`, so deadlock is not checked. |
| `netboot_debug` | violation | | The debug sections of a file erase its text, with no fault (finding). |

The passing runs check between them every action of every specification. Beyond the runs kept here `edcl` has
been checked with five calls, two and four numbers, three buffers, and calls of every length.

The properties are stated with their definitions. The ones that took most to state: `FrameIntact` (a frame on the line
is complete, in order, and its CRC is over its own bits), `AnswerDelivered` (and so is a response),
`BlockSent`/`BlockDelivered` (the words a transfer pops and pushes are those of its block, whatever was aborted
before), `OneCommandPerStart` and `QuietBetween` (levels across the two clocks), `BytesExact` and `NoByteLost` (a byte
is in the FIFO once), `ReturnExact`, `OncePerCall` and `MisledOncePerLate` (what sequence numbers do and do not give),
`BootExact` and `OnlyWrittenSlots` (what the mailbox gives to a tool that looks at no result). For the last two a run
of the tool is *untroubled* if no error was printed, the board was not reset, and the core was at its poll for as long
as the tool and its words were under way. Each of the three is needed: nothing in shared memory tells the tool that
the core has left its last list, and a trigger that the core takes late is answered by a completion that overwrites
the next run's slot with a count, which the core then walks as a mode.

`Implements` of the two SD hosts includes the fairness of the abstract specification, so it also says that every
command and every transfer ends. `Implements` of `Vm` and of `SbiDevice` is safety alone.

`NoRightGained` and `BrkGrowsClear` are stated with the conditions the code needs (see section 6); `VmrCounts` and
`FileCounts` are equalities, so that a count too high (a slot that is never free again) fails like one too low.
`SectorExact` compares each transaction of a read with the card: the block the card sent, or the buffer as it was. It is
about the sector the transaction asks for; that `disk_read` asks for the same one for every piece is in the model, and
is what the code does (section 8).
`InitialisedIsReady` is about a trace that checks nothing. `StuckOnlyWithout` and `StuckForAReason` name everything that
keeps the driver at its poll, today's status word first. `BootHappens` asks that the core calls the program of the run
that triggered it: a list that ends without a call does not do. `OneListPerTrigger` is an upper bound.
`EventSignalled` is the condition under which the supervisor may sleep. With more than one hart it has an exception, the
lost update of the swap: a sender loads TRUE, the owner clears the word and its interrupt, the sender stores TRUE and
raises nothing. `torn` marks the clears that cut a swap so; nothing else leaves a word set without an interrupt to come.

## 5. Fairness

A clock runs: a step of a clocked machine is weakly fair. That includes the card in `SdCmdHost` and `SdDataHost`
only in so far as its delays are counters with bounds; a card that never answers is a choice made at the start of
the delay and is fair. In `SdController` the hosts' phases stand for counters that end, so each way out of a phase
is weakly fair, and the driver's processor executes. `EdclLink` has one condition, weak fairness of `Step`: the
wire delivers or loses, the server serves what it holds, the tool runs; calling is not among them. In
`NetBoot` the tool runs to its end, accepted words are written and the core executes; running the tool, a reset and
a program's return are up to their owners. Nowhere is a
message fairly delivered: the client's timeout ends a call, not the network. `SdClockDivider`, `SdHost`, `Vm` and
`SbiDevice` state safety only and assume no fairness.

## 6. Assumptions

- The card's worst delay is below the host's timeout (`sd_bus.sv` leaves the timeout to software). Without it
  `NoContention` is false, as the card's answer then meets the next command.
- Software resets the controller only when the card is quiet.
- Software writes the setting and the timeout of a command, and the registers of a block, between commands, though
  `sd_bus.sv:84`-`:95` takes them at any time and the hosts read the setting as it stands: the driver sets them before it
  starts (`sd_transaction_start`) and takes them back after it has stopped (`sd_transaction_finish`).
- Software aborts a block transfer at any clock at which the card is silent and no status of it is due; the host takes an
  abort in any state (`sd_data_serial_host.sv:325`). The driver never aborts. An abort, like a timeout, leaves words in the
  FIFOs, which `data_rst` alone empties (`minion_soc.sv:586`, `:603`): the data host's properties count from the start of
  a transfer, and a block is the right one only if the FIFO begins with it.
- A block is written on four lanes (`WideWrites`). The driver starts no write at all: `sd_cmd_setting` adds the code
  of a read (0x14) and the width (0x20) and never that of a write (`hello/minion_helper.c:261`). On one lane the host
  counts six positions more than the block has (`sd_data_serial_host.sv:167`) and would still drive the lane when the
  card's status begins. Reads are on one lane or four.
- The proofs about bytes on the serial line have the hypothesis `Tolerance`: `baud` is at least 3, and a bit `t` of the
  sender has `9 t <= 38 baud` and `38 baud + 6 <= 10 t`. The receiver samples the stop bit 38 quarters of its own after
  the start edge: it must have begun by then, and six clocks later, with the frame over, the receiver must be idle for
  the next one. That allows senders about 5% off either way. At `baud` 8 it is 31 to 33 clocks, the bit times of the run;
  the port's own transmitter fits from `baud` 3 on. A pulse of noise is shorter than half a bit.
- `uart_send` polls the port at least two clocks after it wrote a byte (`WriteToPoll`; a bus access of the core
  takes longer).
- Calls move whole words: `edcl.cpp` takes lengths that are no multiple of four, and `EdclLink` does not.
- The link carries one frame at a time, in order, and does not duplicate; a frame crosses within the client's
  timeout or is lost, so what is late comes from a server buffer. A collision's retransmission (`txrestart`) is
  left out.
- The memory behind the server answers without bus error.
- A file of `NetBoot`'s passing run gives no word of the image two contents and loads nothing over the first two slots
  (`TidyAssumption`); `netboot_debug` shows what happens otherwise. A file has a section, each has a word, and one
  that is not loaded is counted as zeros, which is what the loader writes (`initMemory`). Its entry is in the image. A
  program that was called returns or does not, and writes nothing in the memories the properties speak of.
- The default configuration of the tool is used (`VerifyEna` true). The two sections `loadSections` skips by name
  (`elfloader.cpp:101`) are in none of the files.
- Sequence numbers are modulo `SEQ_MOD`; nothing uses that it is 2^14 but that it is more than one.
- `SdHost`: where `host.shown` holds, the hosts are out of reset when the driver starts and the status word shows
  their finish bits. Neither is so today: `init_sd` and `disk_initialize` do not write the reset register
  (`board_mmc_power_init` does, and they do not call it), and the status word is a constant (`minion_soc.sv:625`).
  Where it does not hold, the driver stays at its first command (`StuckOnlyWithout`), so what `SectorExact` and
  `InitialisedIsReady` say of later ones is about a SoC with both put right. A block comes in time or not at all.
  Cards are those that take a sector number (`diskio.c` sets `CT_BLOCK` for all).
- `Vm`: no call is longer than `mmap_max` (`LengthsAssumption`; section 8 says what a longer one does). What
  `SegmentsAssumption` says of a program's segments is what the ELF format asks (`p_filesz` within `p_memsz`,
  `p_offset` and `p_vaddr` alike in their page; `load_elf` checks neither); the stack has a page at least (`CLAMP` in
  `vm.c:500`). The program passes user pages to `mprotect`, which checks nothing else of the range; segments with no
  part in the file are left out; `supervisor_vm_init` is not modelled. `BrkGrowsClear` holds once the break is set and
  while no mapping lies below the program's end: `brk_max` is lowered by `do_mmap` alone, so a break may grow over the
  stack, which `pk_vm_init` maps without it, and over what was mapped at a fixed address below the break. A page of a
  region that was not touched takes its rights from the region, so `mprotect` of one such page lowers them for all;
  `NoRightGained` holds all the same. `AssertsHold` leaves out the two `kassert`s that a program can make fail: the
  first touch of a page past the end of its file (`vm.c:214`) and a break that finds no free region (`vm.c:334`).
- `SbiDevice`: a hart's load or store is seen by the others at once. The messages are finitely many; the supervisor
  does not pass a message that is queued; `irq0` reaches one hart; the trap entry that turns an interrupt from a hart
  into the supervisor's is not in the repository and is external. Refused requests, the timer and the shutdown change
  nothing in it. Each identification of the disk opens its file again and nothing closes it; `file_open` panics when
  it cannot, so the branch for a missing disk is never taken.
- `vm.c`, `elf.c` and `mtrap.c` are in the repository but not in the program the Makefile of `hello/` links today
  (stubs in `dummy.c` stand for them); they are modelled as written.
- The numbers in `LinkAssumption`, `ControllerAssumption` and their like are the only assumptions the proofs use
  besides the modules' definitions.

## 7. Proofs

- **`SdCommandProofs`**, three parts. *The command host*: the invariant `IInv` says that the bit counter and the state
  fix what every other register holds: how many bits the CRC has taken, which bit is on the pad, what has been stored
  of the response, where the card is. Each property follows from it in a few lines. `FrameIntact` by itself is not
  inductive: it needs to know how far the CRC is when the machine is in the middle of the frame. Seven theorems: the
  invariant, types, bus ownership (from `MaxDelay` below the timeout), frames, the finish flag, the data start,
  responses. Also there: every step of the host is a step of `CmdService` or a stutter; `RInv` adds to the types that
  the mapped phase agrees with the state. *The controller*: the invariant is a table of places: for each place of the
  driver, where the two hosts may be and which of their flags may be up. Three theorems, for every `Wired` (both
  status words), `CardAnswers` and `Reads`. *The clock divider*: `HalfPeriods`, the half period, for every width of
  the counter.
- **`SdDataHostProofs`.** One conjunct of the invariant per state of the machine. While a block goes out, the number
  of clocks since it began fixes everything else: the position each lane drives, how far each CRC is, the half of the
  FIFO's word that is due, and that the card has not begun its status; while one comes in, the same count fixes what
  has been stored. Lanes, blocks sent, blocks delivered and the finish flag follow, and every step is a step of
  `DataService` or a stutter. The theorems have the hypothesis `WideWrites` (section 6), for every block size,
  delay, and timeout within `SizesAssumption`.
- **`UartProofs`.** A frame in flight is at clock `r` of its `n`-th bit, of `t` clocks. This place fixes the rest: the
  line, the filter's five samples and its output (`Wire`), the bits the sender has left (`TxSends`, `RemoteSends`), and
  the receiver, which runs five clocks behind by its own divisor (`Receives`). The proof is that the two clocks, which
  drift apart over the frame, still agree at each sample which bit they are in (`SampleInBit`, `Sampled`), and that the
  receiver is idle when the frame ends. Otherwise the line is idle, a byte waits in the transmitter, or a pulse is a known
  number of clocks old (`Noisy`) and the receiver wakes for it, fails, and waits for two bits. `NoByteLost`,
  `GlitchFiltered` and `BytesExact` follow, under `Tolerance`; `ErrorsCounted` needs neither the tolerance nor the
  line: `Handshake`, about the two flags and their acknowledgement, is inductive by itself.
- **`EdclLinkProofs`.** The type invariant with what it rests on: the request in hand is a piece of the call, the
  request on the bus is the oldest buffer and is a write, replies and buffered requests are within their room.
  `ReturnExact` and `OncePerCall` have an invariant that follows the one piece in flight of a call that began alone:
  not sent, on the wire, in a buffer, refused, done or lost; in each of these it says how often each word has been
  served and what memory will hold once the write on the bus is done. After an error the piece is `LeftBehind`, and
  may still be done, once. `MisledOncePerLate` rests on `InStep`, about all that is still to be read: refusals, and at
  most one ACK. Until that ACK is read the client's number is one behind the server's, so nothing it sends is accepted
  and no second ACK can come; the refusals before it name the number the client has, those behind it the server's.
  Hence each ACK that came late misleads the client once, and then the two are in step again.
- **`SdHostProofs`.** The three invariants of `SdHost`. The steps of one transaction are entries of the driver's
  trace, and where the driver can see the hosts finish (otherwise it does not pass the first) the invariant follows the
  card along it: which commands the card has taken, so which state it is in
  and whether its last answer is the one the driver looks at; between two reads, that the pieces still to be filled
  are empty.
- **`SbiDeviceProofs`.** `EventSignalled` for any number of harts and messages. With the shape of the state it is
  inductive: for each hart a queued response has its interrupt up (`Up`), and a pending interrupt from a hart is up,
  under way as `msip` or in the hands of its sender (`Coming`), except between the two halves of the calls that lower
  it and where two swaps crossed. A hart that loaded TRUE and has not stored it yet finds the word still set or marked
  (`Marked`): that is what makes its store harmless, or names the clear that made it not so. The proof has a step for
  each action; `RespondKeeps` serves every answer. `NothingLost` and `Implements` rest on one invariant, `LInv`: there
  is a sequence for every list of every hart, no message is in two of them or in one twice, heads, tails, sizes and
  links are those of the sequences (`Linked`), and what was given is in one of them (`Owned`). The links alone would
  not do: `Respond` writes through `resp_tail`, and that this message is on no other list is what keeps the other
  lists whole. Each step then changes one sequence, or moves a message from a hart's reads to its responses. The model
  reads the lists off the links with a recursive function, `Chain`. That it gives the sequences (`ChainsFollow`) is
  proved by induction on the number of links followed: every set of numbers has a least one (`Least`, from the
  library's theorem on well-founded relations), so a set with 0 and every successor has them all (`Upwards`). A
  sequence without repetitions is no longer than the messages are many (`DistinctShort`), so `Chain` follows far
  enough.

- **`NetBootProofs`.** `BootExact`, `OnlyWrittenSlots` and `OneListPerTrigger`, whatever calls fail, are misled, or
  are half done, whatever is reset when, and however often the tool is run. Their hypotheses are about the files: no
  loaded section comes to the first two slots (`Clear`), and for `BootExact` no two sections give a word of the image
  different contents (`Separate`); section 8 says which programs these leave out. The invariant `Base` has the types,
  the tool's place in its file, and what can be in memory and on its way for the first two slots (`Requests`,
  `Slots`): a mode is 0, a boot's or the count of a list, and the second slot is empty, so a list ends after its first
  slot. One debt of one list for a trigger that has not been taken (`Counts`) then gives the lists. For the slots,
  `Ghosts` says that without trouble the core is at its poll or has the mailbox for itself; `Ordered`, that a pointer
  is on its way only right behind its mode; `NoPointer`, that a count in the place of a mode has no pointer;
  `Written`, that without trouble a triggered list begins with the slot that was sent. For the image, a word that was
  sent is `Kept`: memory has it, or it is on its way, and nothing else is on its way to its place (`SlotLoading`,
  `ImageLoading`). The trigger is the last word of all, so when it lands nothing is on its way any more, and `Carried`
  follows the image and the slot through the core's walk and its copy to the call. TLC checked each of these on the
  instance of `netboot` before it was proved.

- **`VmProofs`.** All six properties of the run `vm`, for every page size, memory, program, table size and call. The
  inductive invariant `IInv` is `CoreInv /\ MoreInv`. `CoreInv` has the machine `Sound`: it is typed, every region
  counts the pages that wait for it (`RegionsAgree`), and every file the regions that may read it and who has it open
  (`FilesAgree`). Inside a call that is not so: `__do_mmap` writes the count of its region before a page waits for it,
  and each page it takes may free another region and its file. So `Sound(s, H, v, k)` has a debt: region `v` counts
  `k` pages more than wait. `VmrAlloc` makes the debt, each turn of the loop pays one (`MapPage`, over `UnmapPage` and
  `Leave`), and after the loop none is left (`MapRange`). `CoreInv` also has the allocator's account (`Ledger`: the
  root, the tables, the regions' page and the kernel's stack are all it ever gave out), the stage of the start with
  who has a file open in it, the bounds of the break, and that no kernel page waits. `MoreInv` has the rights
  (`RightsOf`), what is mapped above the break (`EndOf`), and the regions the loader has taken (`UsedOf`). A loop is
  followed by a lemma of its own for each body (`UnmapLoop`, `MapLoop`, `PopulateLoop`, `KernelLoop`, `ProtectLoop`),
  since a lemma cannot have the body as a parameter: if each turn goes from one set of machines to the next, the loop
  ends in the last. They rest on `StepsExist`, proved by induction from the library's theorem on well-founded
  relations. Each call then has what it leaves, as a relation (`Unmapped`, `Placed`, `Touched`, `Restricted`), and the
  properties follow from the relations, not from the code again. `ImplementsHolds` uses the same relations: with the
  counts right, a region that a waiting page names is the one that was mapped there, so a fault fills the page with
  what it showed (`TouchedShown`); a mapping shows the region on its range and leaves the rest (`PlacedShown`,
  `Remapped`); and each action is a call of `AddressSpace` or is not seen (`AbstractStep`), the loader's mapping with
  its cleared head included (`ClearedShown`, `HeadStep`). `AssertsNeverFail` is about calls no longer than `mmap_max`
  (`LengthsAssumption`) and has two hypotheses. `EnoughPages` is what `vm_init` sees to: it puts aside `MAX(8,
  mem_pages >> 8)` pages, and there is one table per 512 pages or more. `SegmentsFit`: the segments lie above the
  kernel's pages and below `mmap_max`, and there are regions for two per segment and one more. The other five need
  neither.

What stays with TLC: liveness, which the provers do not reach (`BytesArrive`, `CallReturns`, `StuckForAReason`,
`BootHappens`, and the fairness in `Implements` of both SD hosts, whose steps are proved). Every safety
property of a passing run has its theorem. Types are stated where a proof rests on them.

## 8. Findings and limits

The two violation runs show disagreements between the code and what is said of it; `PROJECT.json` quotes them.
A block read the card does not answer leaves the driver in its poll (`minion_helper.c:284`); `SdHost` shows which
cards lead there. A program built with `-g`, as the Makefile builds it,
loses its text to its own debug sections if they are longer than 0x2000 bytes (`elfloader.cpp:112`); the loader
should touch only allocated sections, and before the loaded ones.

A program linked as `bootstrap/link.junk.ld` has it, with its data at 0x100000, loses the upper bits of that address on
the way (`abits`): its initialised data come to the mailbox's own slots. That is the case `ClearOfSlots` excludes from
the theorems and `MCNetBoot` from its files. For such a file the properties of the mailbox do fail: when its program
returns, `hello()` goes on to the second slot, which then holds the program's data.

Known besides, and kept out of the runs by their bounds or parameters: on one data lane six positions of the block's
CRC are taken for data, so that its CRC verdict says nothing (`sd_data_serial_host.sv:275`; `BlockDelivered` is about
the words). A write that is never acknowledged sends its block again when `transf_cnt` wraps
(`sd_data_serial_host.sv:179`, `:238`; the cards of `data_host` acknowledge). The status word (`minion_soc.sv:625`) is
a constant today, and with it no command returns: the run `controller` has both values, `sd_host` too, and their theorems
hold for both. `disk_read` passes the same sector for every piece (`diskio.c:187`), so a read of several sectors returns
the first one several times, and it reports success for a block that did not come (`:188`); `SectorExact` says what is in
the buffer then. `__vm_alloc` takes the length off `mmap_max` unsigned (`vm.c:172`): for a mapping at no fixed address that
is longer than the memory the end of the search wraps, so it is given addresses above the memory: populating, it fails
the assert of `vm.c:284`; otherwise its page tables take pages from the allocator, all of them (`vm.c:29`) if it is long
enough (256 MB of 128). Where an address has 32 bits, one near 2^32 wraps in the loop of `vm.c:271` too and leaves a
region counting pages nobody maps. With more than one hart the swap of `ipi_pending` may lose an update
(`atomic.h:21`; the source has one hart). A character typed while no read waits stops the machine (`mtrap.c:115`).

`recv_error` of the serial port is a level that stays up until the next good byte is acknowledged, where the comment
at `uart.v:169` says one clock; `ErrorsCounted` shows that the FIFO's error bit is right all the same.

Not modelled: the display (counters and tables nothing depends on), PS/2 and the memory bridge (no protocol that
steps of two parts share), the supervisor's boot, trap dispatch and instruction emulation and the monitor's command
loop (sequential code over the whole machine state), FatFs, Pulpino and the service framework (third-party or
without protocol), generators. Of the parts that are modelled: the response and counter registers and the divisor of
the SD emulation (400 in eight bits is 144), its timeout comparison (nobody reads it), `sd_init_old` and the SPI
driver; `file_read`, `file_write` and `file_lseek`, which nothing calls; ARP and ordinary frames of the Ethernet core.
FatFs, in three copies, is half of the repository's C, and other drivers are there twice: what is modelled is a small
share of the lines, and most of what has a protocol or shared state.
Metastability between the two clocks of the SD controller is not modelled:
a level is seen old or new.
