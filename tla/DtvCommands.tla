---------------------------- MODULE DtvCommands ----------------------------
(***************************************************************************)
(* The contract between the DTV service's command handlers (dtv_io.c) and  *)
(* the dispatch that calls them: which outcomes a command may have.  Tvd   *)
(* takes the handlers to be no more than this; DtvHandlers runs them step  *)
(* by step and is checked to keep within it.                               *)
(***************************************************************************)
EXTENDS Integers

OPCODE_GET_TUNERS  == 1
OPCODE_SET_SOURCE  == 2
OPCODE_START_SCAN  == 3
OPCODE_CLEAR_CACHE == 5
OPCODE_SET_CHANNEL == 6
OPCODE_GET_CHANNEL == 7
OPCODE_GET_PROGRAM == 8
OPCODE_CHANNEL_SCANNED == 129
OPCODE_EIT_BROADCASTED == 132
ERROR_NONE == 0
ERROR_FAIL == 1
ERROR_NOMEM == 3
ERROR_UNSUPPORTED == 6

Handled   == OPCODE_GET_TUNERS..OPCODE_GET_PROGRAM
NoPayload == {OPCODE_GET_TUNERS, OPCODE_CLEAR_CACHE}

(* The statuses of a command that fails.  readable: its payload can be     *)
(* read; memory and hal: the errors that a lack of memory and the TV HAL   *)
(* give rise to; status: what the vendor library returns, whose statuses   *)
(* are sent as the error codes they are not.                               *)
FailureStatuses(opcode, readable, memory, hal, status) ==
  IF opcode \notin Handled THEN {ERROR_UNSUPPORTED}
  ELSE IF opcode \notin NoPayload /\ ~readable THEN {ERROR_FAIL}
  ELSE memory \union (IF opcode \in {OPCODE_GET_TUNERS, OPCODE_SET_SOURCE}
                      THEN hal ELSE status \ {ERROR_NONE})

MaySucceed(opcode, readable, status) ==
  /\ opcode \in Handled
  /\ readable \/ opcode \in NoPayload
  /\ opcode \in {OPCODE_GET_TUNERS, OPCODE_SET_SOURCE} \/ ERROR_NONE \in status

(* Reads of uninitialised memory: a tuner's supported_types, the stream of *)
(* a second set_source, set_channel's ch after a failure, the missing name *)
(* of append_channel.                                                      *)
MayCrash(opcode, readable, status) ==
  \/ opcode = OPCODE_GET_TUNERS
  \/ opcode \in {OPCODE_SET_SOURCE, OPCODE_SET_CHANNEL} /\ readable
  \/ /\ opcode \in {OPCODE_GET_CHANNEL, OPCODE_GET_PROGRAM} /\ readable
     /\ ERROR_NONE \in status
=============================================================================
