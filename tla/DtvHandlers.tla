---------------------------- MODULE DtvHandlers ----------------------------
(***************************************************************************)
(* The command handlers of the DTV service (dtv_io.c) with the library     *)
(* under them (dtv.c) and the TV HAL wrapper (TvHal), one step for each    *)
(* call into the wrapper and one for the answer.  If HotPlug, the HAL's    *)
(* thread adds and removes devices between these steps.                    *)
(*                                                                         *)
(* Module Tvd has the rest of the daemon around the handlers, and of them  *)
(* only the contract of DtvCommands.                                       *)
(***************************************************************************)
EXTENDS TvHal, TunerId, DtvPdu, DtvCommands

CONSTANTS
  Opcode,          \* the opcodes a client sends
  TunerArg,        \* the tuner ids a client sends, as in TunerId
  Handle,          \* the native handles of the HAL's streams, [numFds, numInts]
  ChannelNum,      \* how many channels the vendor library may list
  Programs,        \* the program lists it may return
  DtvStatus,       \* what its operations return; 4 only for the one in dtv.c
  MemoryFails      \* whether create_pdu_wbuf may fail

ASSUME HandlerAssumption ==
  /\ Opcode \subseteq 0..255
  /\ TunerArg \subseteq Seq(Int)
  /\ Device \subseteq 0 .. UINT_RANGE \div 2 - 1          \* of type int
  /\ Handle \subseteq [numFds : Nat, numInts : Nat]
  /\ ChannelNum \subseteq Nat
  /\ Programs \subseteq Seq(tv_program)
  /\ DtvStatus \subseteq 0..7
  /\ MemoryFails \in BOOLEAN

VARIABLES
  step,            \* where the I/O thread is: see StepOf
  command,         \* the command it serves
  tuner_num,       \* get_tuners: what dtv_get_tuner_num returned
  tuners,          \* get_tuners: the ids of the tuners
  handle,          \* set_source: the stream's handle
  wbuf,            \* the buffer that was sent, or NoWbuf
  status           \* what the handler returns

cmdVars == <<command, tuner_num, tuners, handle, wbuf, status>>
dtvVars == <<step, cmdVars>>
allVars == <<tvVars, dtvVars>>

(* "idle": no command; "count", "fetch": dtv_get_tuner_num and             *)
(* dtv_get_tuners are next; "stream", "open": tv_input_hal_get_stream      *)
(* before and at open_stream; "library": an operation of the vendor's;     *)
(* "answer": the answer is built next; "done": the handler has returned;   *)
(* "dead": undefined behaviour took the process down.                      *)
StepOf == {"idle", "count", "fetch", "stream", "open", "library", "answer",
           "done", "dead"}

Command == [opcode : 0..255, readable : BOOLEAN, tuner_id : TunerArg]

NoCommand == [opcode |-> 0, readable |-> FALSE, tuner_id |-> <<>>]
NoWbuf    == [size |-> -1]
(* known: open_stream has set it.  Otherwise it is what was on the stack.  *)
NoHandle  == [numFds |-> 0, numInts |-> 0, known |-> FALSE]
(* What malloc left in a list, printed: no id of a tuner. *)
GarbageId == <<-1>>

DtvTypeOK ==
  /\ TvTypeOK
  /\ step \in StepOf
  /\ command \in Command \union {NoCommand}
  /\ tuner_num \in 0..MAX_DEVICE_NUM
  /\ tuners \in Seq(Seq(-1..9))
  /\ handle \in [numFds : Nat, numInts : Nat, known : BOOLEAN]
  /\ wbuf # NoWbuf => wbuf.size \in Nat
  /\ status \in 0..7

DtvInit ==
  /\ TvInit
  /\ step = "idle" /\ command = NoCommand
  /\ tuner_num = 0 /\ tuners = <<>> /\ handle = NoHandle
  /\ wbuf = NoWbuf /\ status = ERROR_NONE

At(s) == running /\ step = s

Returns(s) == step' = "done" /\ status' = s
Dies == step' = "dead" /\ UNCHANGED status
-----------------------------------------------------------------------------
(* dtv_handler and the handlers' read_pdu_at.                              *)

FirstStep(opcode) ==
  CASE opcode = OPCODE_GET_TUNERS -> "count"
    [] opcode = OPCODE_SET_SOURCE -> "stream"
    [] OTHER -> "library"

BeginCommand(opcode, readable, tuner_id) ==
  /\ At("idle")
  /\ registered
  /\ command' = [opcode |-> opcode, readable |-> readable, tuner_id |-> tuner_id]
  /\ IF opcode \notin Handled THEN Returns(ERROR_UNSUPPORTED)
     ELSE IF opcode \notin NoPayload /\ ~readable THEN Returns(ERROR_FAIL)
     ELSE step' = FirstStep(opcode) /\ UNCHANGED status
  /\ UNCHANGED <<tvVars, tuner_num, tuners, handle, wbuf>>

(* Back in io.c, which sends an error reply unless status is ERROR_NONE. *)
EndCommand ==
  /\ At("done")
  /\ step' = "idle" /\ command' = NoCommand
  /\ tuner_num' = 0 /\ tuners' = <<>> /\ handle' = NoHandle
  /\ wbuf' = NoWbuf /\ status' = ERROR_NONE
  /\ UNCHANGED tvVars
-----------------------------------------------------------------------------
(* get_tuners.                                                             *)

CountTuners ==
  /\ At("count")
  /\ tuner_num' = device_num
  /\ step' = "fetch"
  /\ UNCHANGED <<tvVars, command, tuners, handle, wbuf, status>>

ListedId(i) == TunerIdOf(device_list[i].device_id)

(* Variant: the first entry of the table is left out.                      *)
FetchedFromSecond ==
  [i \in 1..tuner_num |-> IF i < device_num THEN ListedId(i) ELSE GarbageId]

(* The list is as long as the count, whatever the table holds by now. *)
FetchedIds ==
  [i \in 1..tuner_num |-> IF i <= device_num THEN ListedId(i - 1) ELSE GarbageId]

FetchTuners ==
  /\ At("fetch")
  /\ tuners' = FetchedIds
  /\ step' = "answer"
  /\ UNCHANGED <<tvVars, command, tuner_num, handle, wbuf, status>>

FetchOverrun ==                \* a longer table is written past the list
  /\ At("fetch")
  /\ device_num > tuner_num
  /\ Dies
  /\ UNCHANGED <<tvVars, cmdVars>>
-----------------------------------------------------------------------------
(* set_source: dtv_set_source, up to the stream.                           *)

device_id == DeviceIdOf(command.tuner_id)

NoStreamFor(d) == NoConfig(d) \/ StreamStays(d)

SourceFails ==                 \* TV_STATUS_FAIL, 1
  /\ \/ At("stream") /\ NoStreamFor(device_id)
     \/ At("open") /\ OpenStreamFails
  /\ Returns(ERROR_FAIL)
  /\ UNCHANGED <<command, tuner_num, tuners, handle, wbuf>>

SelectSource ==
  /\ At("stream")
  /\ SelectStream(device_id)
  /\ step' = "open"
  /\ UNCHANGED cmdVars

OpenSource ==
  /\ At("open")
  /\ OpenStream
  /\ \E h \in Handle :
       handle' = [numFds |-> h.numFds, numInts |-> h.numInts, known |-> TRUE]
  /\ step' = "answer"
  /\ UNCHANGED <<command, tuner_num, tuners, wbuf, status>>

OpenSourceOverrun ==
  /\ At("open")
  /\ OpenStreamOverrun
  /\ Dies
  /\ UNCHANGED cmdVars

(* tv_stream was not filled in: its handle is what the stack held, such as *)
(* the handle of an earlier command, or no address at all.                 *)
UseOldHandle ==
  /\ At("stream")
  /\ AlreadyActing(device_id)
  /\ \/ /\ \E h \in Handle :
             handle' = [numFds |-> h.numFds, numInts |-> h.numInts, known |-> FALSE]
        /\ step' = "answer"
        /\ UNCHANGED <<command, tuner_num, tuners, wbuf, status>>
     \/ /\ Dies
        /\ UNCHANGED cmdVars
-----------------------------------------------------------------------------
(* The commands of the vendor library that answer with an empty payload or *)
(* with a status.                                                          *)

LibraryFails ==
  /\ At("library")
  /\ \E s \in DtvStatus \ {ERROR_NONE} : Returns(s)
  /\ UNCHANGED <<tvVars, command, tuner_num, tuners, handle, wbuf>>

(* release_channels frees the pointers of a channel that was never set. *)
ChannelFails ==
  /\ At("library")
  /\ command.opcode = OPCODE_SET_CHANNEL
  /\ Dies
  /\ UNCHANGED <<tvVars, cmdVars>>

LibrarySucceeds ==
  /\ At("library")
  /\ ERROR_NONE \in DtvStatus
  /\ step' = "answer"
  /\ UNCHANGED <<tvVars, cmdVars>>
-----------------------------------------------------------------------------
(* The answers: create_pdu_wbuf, the appends, send_pdu, the releases.      *)

Created(size, fds, fields) ==
  [size |-> size, tail |-> IF fds = 0 THEN 0 ELSE AncillarySize(fds),
   fds |-> fds, fields |-> fields]

Sends(size, fds, fields) ==
  /\ wbuf' = Created(size, fds, fields)
  /\ UNCHANGED <<tvVars, command, tuner_num, tuners, handle>>

AnswerTo(opcode) == At("answer") /\ command.opcode = opcode

(* Variant: the handler does not say that it has not answered.             *)
SilentWithoutMemory ==
  /\ At("answer")
  /\ MemoryFails
  /\ Returns(ERROR_NONE)
  /\ UNCHANGED <<tvVars, command, tuner_num, tuners, handle, wbuf>>

(* Without memory for the answer.  set_source uses the missing buffer if   *)
(* there are descriptors to send.                                          *)
NoMemoryForAnswer ==
  /\ At("answer")
  /\ MemoryFails
  /\ IF command.opcode = OPCODE_SET_SOURCE /\ handle.numFds # 0
     THEN Dies ELSE Returns(ERROR_NOMEM)
  /\ UNCHANGED <<tvVars, command, tuner_num, tuners, handle, wbuf>>

TunerRecords == [i \in DOMAIN tuners |-> [id |-> Len(tuners[i]), num_types |-> 0]]

AnswerTuners ==                \* release_tuners frees what was never set
  /\ AnswerTo(OPCODE_GET_TUNERS)
  /\ Sends(U32 + Sum([i \in DOMAIN tuners |-> calculate_tuner_size(TunerRecords[i])]),
           0, <<Field("tuner_num", U32)>> \o Each(append_tuner, TunerRecords))
  /\ Returns(ERROR_NONE) \/ (tuners # <<>> /\ Dies)

AnswerSource ==
  /\ AnswerTo(OPCODE_SET_SOURCE)
  /\ Sends(HandleSize(handle), handle.numFds, HandleFields(handle))
  /\ Returns(ERROR_NONE)

AnswerEmpty ==                 \* start_scan, stop_scan, clean_cache
  /\ At("answer")
  /\ command.opcode \in OPCODE_START_SCAN..OPCODE_CLEAR_CACHE
  /\ Sends(0, 0, <<>>)
  /\ Returns(ERROR_NONE)

AnswerChannel ==               \* append_channel
  /\ AnswerTo(OPCODE_SET_CHANNEL)
  /\ Dies
  /\ UNCHANGED <<tvVars, cmdVars>>

AnswerChannels(ch_num) ==
  /\ AnswerTo(OPCODE_GET_CHANNEL)
  /\ IF ch_num = 0
     THEN Sends(U32, 0, ChannelListFields) /\ Returns(ERROR_NONE)
     ELSE Dies /\ UNCHANGED <<tvVars, cmdVars>>

(* Reading beyond the subtitle languages is taken to end the process.       *)
(* release_programs frees the list once for each program in it.            *)
AnswerPrograms(progs) ==
  /\ AnswerTo(OPCODE_GET_PROGRAM)
  /\ IF \E i \in DOMAIN progs : ReadsBeyond(progs[i])
     THEN Dies /\ UNCHANGED <<tvVars, cmdVars>>
     ELSE /\ Sends(U32 + Sum([i \in DOMAIN progs |-> calculate_prog_size(progs[i])]),
                   0, <<Field("prog_num", U32)>> \o Each(append_program, progs))
          /\ Returns(ERROR_NONE) \/ (Len(progs) > 1 /\ Dies)
-----------------------------------------------------------------------------
(* The HAL's thread.  Without HotPlug it waits for the command to end. *)
HalNotifies ==
  /\ step = "idle" \/ (HotPlug /\ step # "dead")
  /\ Hardware
  /\ UNCHANGED dtvVars

(* The Registry's commands for the service are served like any other.      *)
Registers == step = "idle" /\ Registration /\ UNCHANGED dtvVars

GetTuners == CountTuners \/ FetchTuners \/ FetchOverrun
SetSource == SelectSource \/ OpenSource \/ OpenSourceOverrun \/ UseOldHandle
               \/ SourceFails
Library   == LibraryFails \/ ChannelFails \/ LibrarySucceeds
Answer    == NoMemoryForAnswer \/ AnswerTuners \/ AnswerSource \/ AnswerEmpty
               \/ AnswerChannel \/ (\E n \in ChannelNum : AnswerChannels(n))
               \/ (\E progs \in Programs : AnswerPrograms(progs))

DtvNext ==
  \/ HalNotifies \/ Registers
  \/ \E opcode \in Opcode, readable \in BOOLEAN, tuner_id \in TunerArg :
       BeginCommand(opcode, readable, tuner_id)
  \/ EndCommand
  \/ GetTuners \/ SetSource \/ Library \/ Answer

DtvSpec == DtvInit /\ [][DtvNext]_allVars
-----------------------------------------------------------------------------
(* Properties.                                                             *)

Succeeded(opcode) ==
  step = "done" /\ command.opcode = opcode /\ status = ERROR_NONE

(* What the rest of the daemon relies on (io.c:328-346): a handler returns *)
(* success when, and only when, it has sent an answer, fails with a status *)
(* that DtvCommands allows, and crashes only where that says it may.       *)
HandlersKeepContract ==
  LET c == command
      memory == IF MemoryFails THEN {ERROR_NOMEM} ELSE {}
  IN
  /\ step = "done" =>
       IF status = ERROR_NONE
       THEN wbuf # NoWbuf /\ MaySucceed(c.opcode, c.readable, DtvStatus)
       ELSE wbuf = NoWbuf /\ status \in FailureStatuses(c.opcode, c.readable,
                                          memory, {ERROR_FAIL}, DtvStatus)
  /\ step = "dead" => MayCrash(c.opcode, c.readable, DtvStatus)

(* dtv_io.c:280: get_tuners passes back "the input sources which type is   *)
(* TV tuner".  Every id names a tuner, and while devices do not come and   *)
(* go in the middle of the command, the ids are those of all the tuners,   *)
(* each once.                                                              *)
TunersAnswered ==
  Succeeded(OPCODE_GET_TUNERS) =>
    /\ \A i \in DOMAIN tuners : DeviceIdOf(tuners[i]) \in Tuner
    /\ Serial /\ RoomForTuners =>
         /\ {DeviceIdOf(tuners[i]) : i \in DOMAIN tuners} = available \intersect Tuner
         /\ Len(tuners) = Cardinality(available \intersect Tuner)

(* A set_source that succeeds leaves the stream open that the device       *)
(* offers (dtv_io.c:336, tv_hal.c:236-267): devices that come, go and      *)
(* change their streams between commands never make the wrapper take a     *)
(* closed stream for one that is open.  A failed open_stream does, because *)
(* the entry keeps the stream that was closed before it.                   *)
SourceOpened ==
  Serial /\ Succeeded(OPCODE_SET_SOURCE) /\ device_id \notin OpenFails =>
    <<device_id, config[device_id]>> \in opened

(* dtv_io.c:336: set_source passes "the TV stream back".  For a tuner whose *)
(* stream is open already it passes back what the stack held.              *)
SourcePassedBack == Succeeded(OPCODE_SET_SOURCE) => handle.known

(* A buffer holds what is appended to it, and its tail, wherever that      *)
(* begins, the descriptors and their control message (dtv_pdu.c:23-108,    *)
(* dtv_io.c:373-385).                                                      *)
FitsBuffer ==
  wbuf # NoWbuf =>
    /\ Bytes(wbuf.fields) <= wbuf.size
    /\ wbuf.fds # 0 =>
         \A tail \in 0..15 : AncillaryEnd(tail, wbuf.fds) <= tail + wbuf.tail
-----------------------------------------------------------------------------
(* The inductive invariants behind them (DtvProofs).                       *)

(* A handler has taken the command. *)
Accepted == /\ command.opcode \in Handled
            /\ command.readable \/ command.opcode \in NoPayload

CmdInv ==
  /\ step \in {"count", "fetch"} => Accepted /\ command.opcode = OPCODE_GET_TUNERS
  /\ step \in {"stream", "open"} => Accepted /\ command.opcode = OPCODE_SET_SOURCE
  /\ step = "library" =>
       Accepted /\ command.opcode \notin {OPCODE_GET_TUNERS, OPCODE_SET_SOURCE}
  /\ step = "answer" =>
       Accepted /\ MaySucceed(command.opcode, command.readable, DtvStatus)
  /\ step \notin {"done", "dead"} => wbuf = NoWbuf
  /\ HandlersKeepContract

(* While set_source is served the stream it names is selected, then open. *)
SourceInv ==
  Serial /\ command.opcode = OPCODE_SET_SOURCE =>
    /\ step = "open" => opening # NotOpening /\ opening.device_id = device_id
    /\ /\ step = "answer" \/ (step = "done" /\ status = ERROR_NONE)
       /\ device_id \notin OpenFails
       => <<device_id, config[device_id]>> \in opened

(* While get_tuners is served the table stays as it was counted. *)
TunersInv ==
  Serial =>
    /\ step # "idle" => registered
    /\ step = "fetch" => tuner_num = device_num
    /\ command.opcode = OPCODE_GET_TUNERS
         /\ (step = "answer" \/ (step = "done" /\ status = ERROR_NONE))
       => tuners = [i \in 1..device_num |-> ListedId(i - 1)]
=============================================================================
