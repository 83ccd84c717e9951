------------------------------ MODULE CmdService ------------------------------
(***************************************************************************)
(* What the command host promises to software and to the data host:        *)
(* verilog/sd_cmd_serial_host.v without the bits on the line.  A command   *)
(* is accepted, is on its way for a while, may be answered, and is done.   *)
(***************************************************************************)
VARIABLES
  setting,        \* [resp, long, data]
  start_i,
  phase,          \* "reset", "idle", "busy" (a command on its way), "done"
  answered,       \* the response of the last command has arrived
  finish_o, start_data_o

inputVars == <<setting, start_i>>
hostVars  == <<phase, answered, finish_o, start_data_o>>
vars      == <<inputVars, hostVars>>

Phases == {"reset", "idle", "busy", "done"}

Init ==
  /\ setting \in [resp : BOOLEAN, long : BOOLEAN, data : BOOLEAN] /\ start_i = FALSE
  /\ phase = "reset" /\ answered = FALSE /\ finish_o = FALSE /\ start_data_o = FALSE

-----------------------------------------------------------------------------

LeaveReset == phase = "reset" /\ phase' = "idle" /\ UNCHANGED <<answered, finish_o, start_data_o>>

\* A clock in IDLE: the flags of the last command go down.
Rest ==
  /\ phase = "idle" /\ ~start_i
  /\ finish_o' = FALSE /\ start_data_o' = FALSE
  /\ UNCHANGED <<phase, answered>>

Accept ==
  /\ phase = "idle" /\ start_i
  /\ phase' = "busy" /\ answered' = FALSE
  /\ finish_o' = FALSE /\ start_data_o' = FALSE

\* The response, but for its CRC, is in.
Answer ==
  /\ phase = "busy" /\ setting.resp /\ ~answered
  /\ answered' = TRUE /\ start_data_o' = setting.data
  /\ UNCHANGED <<phase, finish_o>>

\* The frame is sent, and the response read or given up.
Complete == phase = "busy" /\ phase' = "done" /\ UNCHANGED <<answered, finish_o, start_data_o>>

\* A clock in FINISH_RD_WR: the flag stays up until software takes start back.
Finish ==
  /\ phase = "done"
  /\ finish_o' = TRUE
  /\ phase' = IF start_i THEN "done" ELSE "idle"
  /\ UNCHANGED <<answered, start_data_o>>

Clock == LeaveReset \/ Rest \/ Accept \/ Answer \/ Complete \/ Finish

-----------------------------------------------------------------------------

SetStart == start_i' = ~start_i /\ UNCHANGED <<setting, hostVars>>

SetSetting ==
  /\ phase # "busy"
  /\ setting' \in [resp : BOOLEAN, long : BOOLEAN, data : BOOLEAN]
  /\ UNCHANGED <<start_i, hostVars>>

Reset ==
  /\ phase' = "reset" /\ answered' = FALSE /\ finish_o' = FALSE /\ start_data_o' = FALSE
  /\ UNCHANGED inputVars

Next == (Clock /\ UNCHANGED inputVars) \/ SetStart \/ SetSetting \/ Reset

\* No phase lasts for ever but the reset, which software may keep up.
Fairness ==
  /\ WF_vars((Rest \/ Accept) /\ UNCHANGED inputVars)
  /\ WF_vars(Complete /\ UNCHANGED inputVars)
  /\ WF_vars(Finish /\ UNCHANGED inputVars)

Spec     == Init /\ [][Next]_vars
FairSpec == Spec /\ Fairness
=============================================================================
