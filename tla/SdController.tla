----------------------------- MODULE SdController -----------------------------
(***************************************************************************)
(* The SD controller and its driver: the registers of verilog/sd_bus.sv,   *)
(* the two hosts as verilog/sd_top.sv connects them, each by its promise   *)
(* (CmdService, DataService), and the driver that runs a command,          *)
(* software/bootstrap/minion_helper.c.  The driver writes and polls        *)
(* registers while the hosts run on a clock of their own.                  *)
(***************************************************************************)
EXTENDS Naturals

CONSTANTS
  Wired,         \* the SoCs: may the word the driver polls show the hosts' status
  CardAnswers,   \* does the card answer every command that has a response
  Reads          \* the transfer modes in use: reads a block or not

ASSUME ControllerAssumption == Wired \subseteq BOOLEAN /\ CardAnswers \in BOOLEAN /\ Reads \subseteq BOOLEAN

VARIABLES
  sd_cmd_setting, sd_data_start, sd_cmd_start, sd_rst,        \* registers
  c_phase, c_answered, c_finish, c_start_data,                \* command host
  d_phase, d_outcome, d_finish,                               \* data host
  transfer_read,   \* does minion_uart_transfer_mode say read
  mask_data,       \* mask: 0x500, both finish bits, or 0x100
  wired,           \* the status word shows the finish bits; minion_soc.sv's does not
  pc,              \* the driver's place in a command
  owed,            \* commands started and not yet accepted
  moved            \* a transfer has ended since the command was started

registers == <<sd_cmd_setting, sd_data_start, sd_cmd_start, sd_rst>>
cmdHost   == <<c_phase, c_answered, c_finish, c_start_data>>
dataHost  == <<d_phase, d_outcome, d_finish>>
driver    == <<transfer_read, mask_data, pc>>
controllerVars == <<registers, cmdHost, dataHost, driver, wired, owed, moved>>

\* sd_top: the data host sees the start code only while start_data is up.
data_start == IF c_start_data THEN sd_data_start ELSE 0

Cmd == INSTANCE CmdService WITH
  setting <- sd_cmd_setting, start_i <- sd_cmd_start, phase <- c_phase,
  answered <- c_answered, finish_o <- c_finish, start_data_o <- c_start_data

Data == INSTANCE DataService WITH
  start <- data_start, phase <- d_phase, outcome <- d_outcome, finish_o <- d_finish

Settings == [resp : BOOLEAN, long : BOOLEAN, data : BOOLEAN]
NoSetting == [resp |-> FALSE, long |-> FALSE, data |-> FALSE]

-----------------------------------------------------------------------------
(* A rising edge of sd_clk: both hosts step.  Only a host that is waiting for  *)
(* the card or for its own count may stay where it is.                        *)

CmdEdge ==
  \/ Cmd!LeaveReset /\ ~sd_rst
  \/ Cmd!Rest
  \/ Cmd!Accept
  \/ Cmd!Answer
  \/ Cmd!Complete /\ (CardAnswers /\ sd_cmd_setting.resp => c_answered)
  \/ Cmd!Finish
  \/ c_phase \in {"reset", "busy"} /\ UNCHANGED cmdHost

DataEdge ==
  \/ sd_rst /\ UNCHANGED dataHost
  \/ ~sd_rst /\ Data!Clock
  \/ d_phase \in {"writing", "reading"} /\ UNCHANGED dataHost

Edge ==
  /\ CmdEdge /\ DataEdge
  /\ owed' = IF c_phase = "idle" /\ c_phase' = "busy" THEN owed - 1 ELSE owed
  /\ moved' = (moved \/ (d_phase \in {"writing", "reading"} /\ d_phase' = "done"))
  /\ UNCHANGED <<registers, driver, wired>>

-----------------------------------------------------------------------------
(* The driver. *)

\* board_mmc_power_init takes the hosts out of reset.
PowerInit ==
  /\ pc = "off" /\ pc' = "ready"
  /\ sd_rst' = FALSE
  /\ UNCHANGED <<sd_cmd_setting, sd_data_start, sd_cmd_start, cmdHost, dataHost,
                 transfer_read, mask_data, wired, owed, moved>>

TransferMode ==
  /\ pc = "ready"
  /\ transfer_read' \in Reads
  /\ UNCHANGED <<registers, cmdHost, dataHost, mask_data, pc, wired, owed, moved>>

\* Mutant: 0x10 for 0x14, a read that does not ask for start_data.
WritesNoDataBit(resp, long) ==
  /\ sd_cmd_setting' = [resp |-> resp, long |-> long, data |-> FALSE]
  /\ sd_data_start' = IF transfer_read THEN 2 ELSE 0

\* sd_cmd_setting(): whatever the flags say of the response, the transfer mode
\* says of the data.
WriteSetting(resp, long) ==
  /\ sd_cmd_setting' = [resp |-> resp, long |-> long, data |-> transfer_read]
  /\ sd_data_start' = IF transfer_read THEN 2 ELSE 0

\* A command that reads a block is one that has a response.
Command ==
  /\ pc = "ready" /\ pc' = "start"
  /\ mask_data' = transfer_read
  /\ \E resp, long \in BOOLEAN :
       /\ transfer_read => resp
       /\ long => resp
       /\ WriteSetting(resp, long)
  /\ UNCHANGED <<sd_cmd_start, sd_rst, cmdHost, dataHost, transfer_read, wired, owed, moved>>

WriteStart ==
  /\ pc = "start" /\ pc' = "wait"
  /\ sd_cmd_start' = TRUE
  /\ owed' = owed + 1 /\ moved' = FALSE
  /\ UNCHANGED <<sd_cmd_setting, sd_data_start, sd_rst, cmdHost, dataHost, transfer_read, mask_data, wired>>

\* The bits of sd_stat(0) under the mask.  minion_soc.sv answers a read there with
\* 0xDEADBEEF, where both are 0 and 1: bit 8 down, bit 10 up.
finish_cmd  == wired /\ c_finish
finish_data == wired => d_finish

\* Mutant: one finish bit is enough.
EitherFinished == finish_cmd \/ (mask_data /\ finish_data)

Finished == finish_cmd /\ (mask_data => finish_data)

Wait ==
  /\ pc = "wait"
  /\ Finished
  /\ pc' = "stop"
  /\ UNCHANGED <<registers, cmdHost, dataHost, transfer_read, mask_data, wired, owed, moved>>

Stop ==
  /\ pc = "stop" /\ pc' = "unset"
  /\ sd_cmd_start' = FALSE
  /\ UNCHANGED <<sd_cmd_setting, sd_data_start, sd_rst, cmdHost, dataHost, transfer_read,
                 mask_data, wired, owed, moved>>

Unset ==
  /\ pc = "unset" /\ pc' = "drain"
  /\ WriteSetting(FALSE, FALSE)
  /\ UNCHANGED <<sd_cmd_start, sd_rst, cmdHost, dataHost, transfer_read, mask_data, wired, owed, moved>>

\* Mutants: the finish bits are not waited out; only the command's is.
NotDrained == TRUE
CmdDrained == ~finish_cmd

Drained == ~finish_cmd /\ (mask_data => ~finish_data)

Drain ==
  /\ pc = "drain"
  /\ Drained
  /\ pc' = "ready"
  /\ UNCHANGED <<registers, cmdHost, dataHost, transfer_read, mask_data, wired, owed, moved>>

Driver == PowerInit \/ TransferMode \/ Command \/ WriteStart \/ Wait \/ Stop \/ Unset \/ Drain

-----------------------------------------------------------------------------

ControllerInit ==
  /\ sd_cmd_setting = NoSetting /\ sd_data_start = 0 /\ sd_cmd_start = FALSE /\ sd_rst = TRUE
  /\ c_phase = "reset" /\ c_answered = FALSE /\ c_finish = FALSE /\ c_start_data = FALSE
  /\ d_phase = "idle" /\ d_outcome = "none" /\ d_finish = FALSE
  /\ transfer_read = FALSE /\ mask_data = FALSE /\ pc = "off"
  /\ wired \in Wired
  /\ owed = 0 /\ moved = FALSE

ControllerNext == Edge \/ Driver

ControllerSpec == ControllerInit /\ [][ControllerNext]_controllerVars

\* The clock runs, a host's waits are bounded by its counters, and the driver's
\* processor executes; what the driver does next between commands is its own
\* affair.
FairControllerSpec ==
  /\ ControllerSpec
  /\ WF_controllerVars(Edge)
  /\ WF_controllerVars(Edge /\ Cmd!LeaveReset)
  /\ WF_controllerVars(Edge /\ Cmd!Answer)
  /\ WF_controllerVars(Edge /\ Cmd!Complete)
  /\ WF_controllerVars(Edge /\ (Data!Move \/ Data!TimeOut))
  /\ WF_controllerVars(WriteStart \/ Wait \/ Stop \/ Unset \/ Drain)

-----------------------------------------------------------------------------
(* Properties. *)

ControllerTypeOK ==
  /\ sd_cmd_setting \in Settings /\ sd_data_start \in {0, 2}
  /\ sd_cmd_start \in BOOLEAN /\ sd_rst \in BOOLEAN
  /\ c_phase \in Cmd!Phases /\ c_answered \in BOOLEAN /\ c_finish \in BOOLEAN
  /\ c_start_data \in BOOLEAN
  /\ d_phase \in Data!Phases /\ d_outcome \in {"none", "moved", "timeout"} /\ d_finish \in BOOLEAN
  /\ transfer_read \in BOOLEAN /\ mask_data \in BOOLEAN /\ wired \in BOOLEAN
  /\ pc \in {"off", "ready", "start", "wait", "stop", "unset", "drain"}
  /\ owed \in 0 .. 1 /\ moved \in BOOLEAN

\* Every start the driver writes becomes one command: none is lost to a host that
\* has not seen the start bit down, none runs twice; and the response registers,
\* from the end of the wait to the next start, are those of the last command
\* (the two levels, start and finish, across the two clocks).
OneCommandPerStart ==
  /\ pc \in {"stop", "unset", "drain", "ready", "start"} => owed = 0 /\ c_phase # "busy"
  /\ owed = 1 => c_phase \in {"reset", "idle"} /\ sd_cmd_start

\* When the wait for a block ends, the transfer of this command has ended: the
\* finish bit is not the one of the block before.
BlockIsOurs == pc = "stop" /\ mask_data => moved /\ d_phase = "done" /\ d_finish

\* Between commands, once one has run, both hosts are idle with their flags down,
\* so that whatever the driver sets up next is seen by an idle host.
QuietBetween ==
  pc \in {"ready", "start"} =>
    /\ c_phase \in {"reset", "idle"} /\ ~c_finish
    /\ d_phase = "idle" /\ ~d_finish

\* A command the driver starts comes back unless it is a block read the card
\* left unanswered: then the data host is never started, and the driver waits
\* for its finish bit (mask 0x500).  Where the status word is the constant of
\* minion_soc.sv:625 no command comes back, though each ends: every finish bit
\* the driver waits for goes up.
StuckForAReason ==
  pc = "wait" ~> \/ pc = "ready"
                 \/ mask_data /\ c_finish /\ ~c_answered
                 \/ ~wired /\ c_finish /\ (mask_data => d_finish)

\* A command the driver starts comes back, answered or not ("prevent hang if card
\* did not respond").
CommandReturns == pc = "wait" ~> pc = "ready"
=============================================================================
