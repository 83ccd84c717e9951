--------------------------- MODULE SdCmdHostRefines ---------------------------
(***************************************************************************)
(* The command host implements what CmdService promises.                   *)
(***************************************************************************)
EXTENDS SdCmdHost

phase ==
  IF state = "INIT" THEN "reset"
  ELSE IF state = "IDLE" THEN "idle"
  ELSE IF state = "FINISH_RD_WR" THEN "done"
  ELSE "busy"

\* The response has arrived, but for its CRC: while it is read, when its counter
\* says so; afterwards, when there is one.
answered ==
  IF state = "READ" THEN counter > resp_len + 1
  ELSE state \in {"INIT", "IDLE", "FINISH_RD_WR"} /\ response_o # Empty

Service == INSTANCE CmdService

\* The command host, its registers hidden, is a command service: every command
\* software starts is accepted once, and reported done once, after its answer.
Implements == Service!FairSpec
=============================================================================
