----------------------------- MODULE DtvProofs -----------------------------
(***************************************************************************)
(* Proofs about the DTV service's command handlers, for every set of       *)
(* devices, commands, handles and statuses of the vendor library, whether  *)
(* or not the HAL notifies in the middle of a command.                     *)
(***************************************************************************)
EXTENDS DtvHandlers, TvHalProofs, PayloadProofs

USE DEF OPCODE_GET_TUNERS, OPCODE_SET_SOURCE, OPCODE_START_SCAN,
        OPCODE_CLEAR_CACHE, OPCODE_SET_CHANNEL, OPCODE_GET_CHANNEL,
        OPCODE_GET_PROGRAM, ERROR_NONE, ERROR_FAIL, ERROR_NOMEM,
        ERROR_UNSUPPORTED

-----------------------------------------------------------------------------
(* The handlers and the wrapper.                                           *)

(* Each step of a handler is a step of the wrapper, or leaves it alone. *)
LEMMA StepIsTvStep == TvTypeOK /\ [DtvNext]_allVars => [TvNext]_tvVars
<1> SUFFICES ASSUME TvTypeOK, [DtvNext]_allVars PROVE [TvNext]_tvVars
  OBVIOUS
<1>1. CASE HalNotifies \/ Registers
  BY <1>1 DEF HalNotifies, Registers, TvNext
<1>2. CASE \/ \E opcode \in Opcode, readable \in BOOLEAN, tuner_id \in TunerArg :
                BeginCommand(opcode, readable, tuner_id)
           \/ EndCommand \/ GetTuners \/ Library
  BY <1>2 DEF BeginCommand, EndCommand, GetTuners, CountTuners, FetchTuners,
              FetchOverrun, Library, LibraryFails, ChannelFails, LibrarySucceeds
<1>3. CASE SetSource
  <2>1. CASE SelectSource
    <3>1. SelectStream(device_id)
      BY <2>1 DEF SelectSource
    <3>2. device_id \in Device
      BY <3>1 DEF SelectStream, Offered, TvTypeOK
    <3> QED BY <3>1, <3>2 DEF TvNext, GetStream
  <2>2. CASE OpenSource \/ OpenSourceOverrun
    BY <2>2 DEF OpenSource, OpenSourceOverrun, TvNext, GetStream
  <2>3. CASE UseOldHandle
    BY <2>3 DEF UseOldHandle, AlreadyActing
  <2>4. CASE SourceFails
    BY <2>4 DEF SourceFails, NoStreamFor, NoConfig, StreamStays, TvNext, GetStream
  <2> QED BY <1>3, <2>1, <2>2, <2>3, <2>4 DEF SetSource
<1>4. CASE Answer
  BY <1>4 DEF Answer, NoMemoryForAnswer, AnswerTuners, AnswerSource, AnswerEmpty,
              AnswerChannel, AnswerChannels, AnswerPrograms, Sends
<1>5. CASE UNCHANGED allVars
  BY <1>5 DEF allVars
<1> QED BY <1>1, <1>2, <1>3, <1>4, <1>5 DEF DtvNext

(* Under the handlers too the wrapper keeps its invariant. *)
LEMMA DtvTvInv == DtvSpec => []TvInv
<1>1. DtvInit => TvInv
  BY TvInvInit DEF DtvInit
<1>2. TvInv /\ [DtvNext]_allVars => TvInv'
  BY StepIsTvStep, TvInvInductive DEF TvInv
<1> QED BY <1>1, <1>2, PTL DEF DtvSpec

(* The handlers use the wrapper in no other way than TvHal says, so that   *)
(* what holds of it holds of them (dtv.c:56-108, dtv_io.c:289-358).        *)
THEOREM DtvUsesTv == DtvSpec => TvSpec
<1>1. DtvInit => TvInit
  BY DEF DtvInit
<1>2. TvInv => TvTypeOK
  BY DEF TvInv
<1> QED BY <1>1, <1>2, StepIsTvStep, DtvTvInv, PTL DEF DtvSpec, TvSpec
-----------------------------------------------------------------------------
(* The contract.                                                           *)

(* A buffer that was created is a buffer. *)
LEMMA CreatedIsWbuf ==
  ASSUME NEW size, NEW fds, NEW fields
  PROVE  Created(size, fds, fields) # NoWbuf
<1>1. "tail" \in DOMAIN Created(size, fds, fields)
  BY DEF Created
<1>2. "tail" \notin DOMAIN NoWbuf
  BY DEF NoWbuf
<1> QED BY <1>1, <1>2

(* A command begins without a buffer, and fails at once or is one that a   *)
(* handler takes.                                                          *)
LEMMA BeginKeepsContract ==
  ASSUME CmdInv, NEW opcode \in Opcode, NEW readable \in BOOLEAN, NEW tuner_id \in TunerArg,
         BeginCommand(opcode, readable, tuner_id)
  PROVE  CmdInv'
<1>1. /\ command'.opcode = opcode /\ command'.readable = readable
      /\ wbuf' = wbuf /\ step = "idle" /\ wbuf = NoWbuf
  BY DEF BeginCommand, At, CmdInv
<1>2. CASE opcode \notin Handled
  BY <1>1, <1>2
  DEF BeginCommand, Returns, CmdInv, Accepted, HandlersKeepContract, FailureStatuses
<1>3. CASE opcode \in Handled /\ opcode \notin NoPayload /\ ~readable
  BY <1>1, <1>3
  DEF BeginCommand, Returns, CmdInv, Accepted, HandlersKeepContract, FailureStatuses
<1>4. CASE opcode \in Handled /\ (opcode \in NoPayload \/ readable)
  <2>1. step' = FirstStep(opcode)
    BY <1>4 DEF BeginCommand
  <2>2. CASE opcode = OPCODE_GET_TUNERS
    BY <1>1, <1>4, <2>1, <2>2 DEF FirstStep, CmdInv, Accepted, HandlersKeepContract
  <2>3. CASE opcode = OPCODE_SET_SOURCE
    BY <1>1, <1>4, <2>1, <2>3 DEF FirstStep, CmdInv, Accepted, HandlersKeepContract
  <2>4. CASE opcode \notin {OPCODE_GET_TUNERS, OPCODE_SET_SOURCE}
    BY <1>1, <1>4, <2>1, <2>4 DEF FirstStep, CmdInv, Accepted, HandlersKeepContract
  <2> QED BY <2>2, <2>3, <2>4
<1> QED BY <1>2, <1>3, <1>4

(* The steps between the first and the answer. *)
LEMMA MiddleKeepsContract ==
  ASSUME CmdInv,
         \/ CountTuners \/ FetchTuners \/ FetchOverrun
         \/ SelectSource \/ OpenSource \/ OpenSourceOverrun \/ UseOldHandle
         \/ LibraryFails \/ ChannelFails \/ LibrarySucceeds \/ SourceFails
  PROVE  CmdInv'
<1> USE DEF At, CmdInv, Accepted, HandlersKeepContract
<1>1. CASE CountTuners \/ FetchTuners \/ FetchOverrun
  BY <1>1 DEF CountTuners, FetchTuners, FetchOverrun, Dies, cmdVars, MaySucceed, MayCrash
<1>2. CASE SelectSource \/ OpenSource \/ OpenSourceOverrun \/ UseOldHandle
  BY <1>2 DEF SelectSource, OpenSource, OpenSourceOverrun, UseOldHandle, Dies, cmdVars,
              NoPayload, MaySucceed, MayCrash
<1>3. CASE SourceFails
  BY <1>3 DEF SourceFails, Returns, FailureStatuses, NoPayload
<1>4. CASE LibraryFails
  <2>1. PICK s \in DtvStatus \ {ERROR_NONE} : Returns(s)
    BY <1>4 DEF LibraryFails
  <2>2. /\ step' = "done" /\ status' = s /\ wbuf' = NoWbuf /\ command' = command
        /\ Accepted /\ command.opcode \notin {OPCODE_GET_TUNERS, OPCODE_SET_SOURCE}
    BY <1>4, <2>1 DEF LibraryFails, Returns
  <2> QED BY <2>1, <2>2 DEF FailureStatuses
<1>5. CASE ChannelFails
  BY <1>5 DEF ChannelFails, Dies, cmdVars, NoPayload, MayCrash
<1>6. CASE LibrarySucceeds
  BY <1>6 DEF LibrarySucceeds, cmdVars, MaySucceed
<1> QED BY <1>1, <1>2, <1>3, <1>4, <1>5, <1>6

(* An answer that is sent. *)
LEMMA SentKeepsContract ==
  ASSUME CmdInv, step = "answer", NEW size, NEW fds, NEW fields,
         Sends(size, fds, fields),
         \/ Returns(ERROR_NONE)
         \/ Dies /\ MayCrash(command.opcode, command.readable, DtvStatus)
  PROVE  CmdInv'
<1>1. wbuf' # NoWbuf /\ command' = command
  BY CreatedIsWbuf DEF Sends
<1>2. MaySucceed(command.opcode, command.readable, DtvStatus)
  BY DEF CmdInv
<1>3. \/ step' = "done" /\ status' = ERROR_NONE
      \/ step' = "dead" /\ MayCrash(command.opcode, command.readable, DtvStatus)
  BY DEF Returns, Dies
<1> QED BY <1>1, <1>2, <1>3 DEF CmdInv, HandlersKeepContract

(* Every way to answer. *)
LEMMA AnswerKeepsContract ==
  ASSUME CmdInv, Answer
  PROVE  CmdInv'
<1>1. /\ step = "answer" /\ wbuf = NoWbuf /\ Accepted
      /\ MaySucceed(command.opcode, command.readable, DtvStatus)
  BY DEF Answer, NoMemoryForAnswer, AnswerTuners, AnswerSource, AnswerEmpty,
         AnswerChannel, AnswerChannels, AnswerPrograms, AnswerTo, At, CmdInv
<1>2. ASSUME Dies, UNCHANGED <<command, wbuf>>,
             MayCrash(command.opcode, command.readable, DtvStatus)
      PROVE  CmdInv'
  BY <1>2 DEF Dies, CmdInv, HandlersKeepContract
<1>3. CASE NoMemoryForAnswer
  <2>1. UNCHANGED <<command, wbuf>> /\ MemoryFails
    BY <1>3 DEF NoMemoryForAnswer
  <2>2. CASE command.opcode = OPCODE_SET_SOURCE /\ handle.numFds # 0
    BY <1>1, <1>2, <1>3, <2>1, <2>2 DEF NoMemoryForAnswer, Accepted, NoPayload, MayCrash
  <2>3. CASE ~(command.opcode = OPCODE_SET_SOURCE /\ handle.numFds # 0)
    BY <1>1, <1>3, <2>1, <2>3
    DEF NoMemoryForAnswer, Returns, CmdInv, Accepted, HandlersKeepContract, FailureStatuses
  <2> QED BY <2>2, <2>3
<1>4. CASE AnswerTuners
  BY <1>1, <1>4, SentKeepsContract DEF AnswerTuners, AnswerTo, MayCrash
<1>5. CASE AnswerSource \/ AnswerEmpty
  BY <1>1, <1>5, SentKeepsContract DEF AnswerSource, AnswerEmpty
<1>6. CASE AnswerChannel
  BY <1>1, <1>2, <1>6
  DEF AnswerChannel, AnswerTo, cmdVars, Accepted, NoPayload, MayCrash
<1>7. ASSUME NEW n \in ChannelNum, AnswerChannels(n) PROVE CmdInv'
  <2>1. MayCrash(command.opcode, command.readable, DtvStatus)
    BY <1>1, <1>7 DEF AnswerChannels, AnswerTo, Accepted, NoPayload, MaySucceed, MayCrash
  <2> QED BY <1>1, <1>2, <1>7, <2>1, SentKeepsContract DEF AnswerChannels, cmdVars
<1>8. ASSUME NEW progs \in Programs, AnswerPrograms(progs) PROVE CmdInv'
  <2>1. MayCrash(command.opcode, command.readable, DtvStatus)
    BY <1>1, <1>8 DEF AnswerPrograms, AnswerTo, Accepted, NoPayload, MaySucceed, MayCrash
  <2>2. CASE \E i \in DOMAIN progs : ReadsBeyond(progs[i])
    BY <1>2, <1>8, <2>1, <2>2 DEF AnswerPrograms, cmdVars
  <2>3. CASE ~\E i \in DOMAIN progs : ReadsBeyond(progs[i])
    <3>1. \E size, fields : Sends(size, 0, fields)
      BY <1>8, <2>3 DEF AnswerPrograms
    <3>2. Returns(ERROR_NONE) \/ Dies
      BY <1>8, <2>3 DEF AnswerPrograms
    <3> QED BY <1>1, <2>1, <3>1, <3>2, SentKeepsContract
  <2> QED BY <2>2, <2>3
<1> QED BY <1>3, <1>4, <1>5, <1>6, <1>7, <1>8 DEF Answer

(* Every step keeps the contract. *)
LEMMA CmdInvInductive == CmdInv /\ [DtvNext]_allVars => CmdInv'
<1> SUFFICES ASSUME CmdInv, [DtvNext]_allVars PROVE CmdInv'
  OBVIOUS
<1>1. CASE \E opcode \in Opcode, readable \in BOOLEAN, tuner_id \in TunerArg :
             BeginCommand(opcode, readable, tuner_id)
  BY <1>1, BeginKeepsContract
<1>2. CASE EndCommand
  BY <1>2 DEF EndCommand, CmdInv, HandlersKeepContract
<1>3. CASE GetTuners \/ SetSource \/ Library
  BY <1>3, MiddleKeepsContract DEF GetTuners, SetSource, Library
<1>4. CASE Answer
  BY <1>4, AnswerKeepsContract
<1>5. CASE HalNotifies \/ Registers \/ UNCHANGED allVars
  BY <1>5 DEF HalNotifies, Registers, allVars, dtvVars, cmdVars, CmdInv, Accepted,
              HandlersKeepContract
<1> QED BY <1>1, <1>2, <1>3, <1>4, <1>5 DEF DtvNext

(* Whatever the HAL, the library and the memory do, a handler that returns *)
(* success has sent exactly one answer, one that fails has sent none and   *)
(* returns a status DtvCommands allows, and none crashes where DtvCommands *)
(* says it does not: what Tvd assumes of the handlers is true of them      *)
(* (dtv_io.c:282-681, io.c:328-346).                                       *)
THEOREM ContractKept == DtvSpec => []HandlersKeepContract
<1>1. DtvInit => CmdInv
  BY DEF DtvInit, CmdInv, HandlersKeepContract
<1>2. CmdInv => HandlersKeepContract
  BY DEF CmdInv
<1> QED BY <1>1, <1>2, CmdInvInductive, PTL DEF DtvSpec
-----------------------------------------------------------------------------
(* set_source.                                                             *)

(* Without HotPlug nothing interrupts set_source, and a recorded stream is *)
(* open.                                                                   *)
LEMMA SourceInvStep ==
  ASSUME TvInv, CmdInv, SourceInv, [DtvNext]_allVars
  PROVE  SourceInv'
<1> SUFFICES ASSUME Serial, command'.opcode = OPCODE_SET_SOURCE
             PROVE  SourceInv'
  BY DEF SourceInv, Serial
<1>1. ASSUME step' \notin {"open", "answer", "done"}
             \/ (step' = "done" /\ status' # ERROR_NONE)
      PROVE  SourceInv'
  BY <1>1 DEF SourceInv
<1>2. CASE HalNotifies \/ Registers
  BY <1>1, <1>2 DEF HalNotifies, Registers, Serial, dtvVars
<1>3. ASSUME NEW opcode \in Opcode, NEW readable \in BOOLEAN, NEW tuner_id \in TunerArg,
             BeginCommand(opcode, readable, tuner_id)
      PROVE  SourceInv'
  <2>1. opcode = OPCODE_SET_SOURCE
    BY <1>3 DEF BeginCommand
  <2>2. step' = "stream" \/ (step' = "done" /\ status' # ERROR_NONE)
    BY <1>3, <2>1 DEF BeginCommand, Returns, FirstStep
  <2> QED BY <1>1, <2>2
<1>4. CASE EndCommand
  BY <1>1, <1>4 DEF EndCommand
<1>5. CASE GetTuners \/ Library
  <2>1. command' = command
    BY <1>5 DEF GetTuners, CountTuners, FetchTuners, FetchOverrun, Library,
                LibraryFails, ChannelFails, LibrarySucceeds, cmdVars
  <2>2. step \in {"count", "fetch", "library"}
    BY <1>5 DEF GetTuners, CountTuners, FetchTuners, FetchOverrun, Library,
                LibraryFails, ChannelFails, LibrarySucceeds, At
  <2> QED BY <2>1, <2>2 DEF CmdInv
<1>6. CASE SelectSource
  <2>1. /\ step' = "open" /\ device_id' = device_id
        /\ device_id \in available /\ opening'.device_id = device_id
    BY <1>6 DEF SelectSource, SelectStream, Offered, cmdVars, device_id
  <2>2. opening' # NotOpening
    BY <2>1, DeviceAssumption DEF NotOpening, TvInv, TvTypeOK, Device
  <2> QED BY <2>1, <2>2 DEF SourceInv
<1>7. CASE OpenSource
  <2>1. /\ step = "open" /\ step' = "answer" /\ OpenStream
        /\ command' = command /\ device_id' = device_id
    BY <1>7 DEF OpenSource, At, device_id
  <2>2. opening # NotOpening /\ opening.device_id = device_id
    BY <2>1 DEF SourceInv
  <2>3. opening.stream = config[device_id]
    BY <2>2 DEF TvInv, OpeningCurrent
  <2>4. <<device_id, config[device_id]>> \in opened' /\ config' = config
    BY <2>1, <2>2, <2>3 DEF OpenStream
  <2> QED BY <2>1, <2>4 DEF SourceInv
<1>8. CASE OpenSourceOverrun \/ SourceFails
  BY <1>1, <1>8 DEF OpenSourceOverrun, SourceFails, Dies, Returns
<1>9. CASE UseOldHandle
  <2>1. AlreadyActing(device_id) /\ command' = command /\ device_id' = device_id
    BY <1>9 DEF UseOldHandle, cmdVars, device_id
  <2>2. /\ opening = NotOpening /\ registered /\ UNCHANGED <<config, opened>>
        /\ config[device_id] # NoStream /\ device_id \in available
        /\ IndexOf(device_id) < device_num
        /\ Acting(IndexOf(device_id)) = config[device_id]
    BY <2>1 DEF AlreadyActing, InCommand, Offered, tvVars, halVars
  <2>3. IndexOf(device_id) \in Listed /\ device_list[IndexOf(device_id)].device_id = device_id
    BY <2>2, IndexOfListed DEF TvInv
  <2>4. device_id # opening.device_id
    BY <2>2, DeviceAssumption DEF NotOpening, TvInv, TvTypeOK, Device
  <2>5. device_id \notin OpenFails => <<device_id, config[device_id]>> \in opened
    BY <2>2, <2>3, <2>4 DEF TvInv, ActingIsOpen
  <2>6. step' \in {"answer", "dead"}
    BY <1>9 DEF UseOldHandle, Dies
  <2> QED BY <2>1, <2>2, <2>5, <2>6 DEF SourceInv
<1>10. CASE Answer
  <2>1. /\ step = "answer" /\ step' \in {"done", "dead"}
        /\ UNCHANGED <<command, opening, config, opened>>
    BY <1>10 DEF Answer, NoMemoryForAnswer, AnswerTuners, AnswerSource, AnswerEmpty,
                AnswerChannel, AnswerChannels, AnswerPrograms, AnswerTo, Sends, Returns,
                Dies, At, cmdVars, tvVars, halVars
  <2>2. device_id' = device_id
    BY <2>1 DEF device_id
  <2> QED BY <2>1, <2>2 DEF SourceInv
<1>11. CASE UNCHANGED allVars
  BY <1>11 DEF allVars, dtvVars, cmdVars, tvVars, halVars, SourceInv, device_id, Serial
<1> QED BY <1>2, <1>3, <1>4, <1>5, <1>6, <1>7, <1>8, <1>9, <1>10, <1>11
        DEF DtvNext, SetSource

(* However devices came, went and changed their streams before, a          *)
(* set_source that succeeds leaves the device's stream open                *)
(* (dtv_io.c:336, tv_hal.c:199-267).                                       *)
THEOREM SourceIsOpened == DtvSpec => []SourceOpened
<1>1. DtvInit => CmdInv /\ SourceInv
  BY DEF DtvInit, CmdInv, SourceInv, HandlersKeepContract, NoCommand
<1>2. TvInv /\ CmdInv /\ SourceInv /\ [DtvNext]_allVars => CmdInv' /\ SourceInv'
  BY CmdInvInductive, SourceInvStep
<1>3. SourceInv => SourceOpened
  BY DEF SourceInv, SourceOpened, Succeeded
<1> QED BY <1>1, <1>2, <1>3, DtvTvInv, PTL DEF DtvSpec
-----------------------------------------------------------------------------
(* The buffers.                                                            *)

(* The tail of a buffer holds the ancillary data of any number of          *)
(* descriptors, at whatever address the tail begins: the padding is as     *)
(* long as ceil_align, which moves an aligned address too, can need        *)
(* (dtv_pdu.c:23-46, dtv_io.c:372-386).                                    *)
THEOREM AncillaryDataFits ==
  \A tail, fd_num \in Nat : AncillaryEnd(tail, fd_num) <= tail + AncillarySize(fd_num)
<1> SUFFICES ASSUME NEW tail \in Nat, NEW fd_num \in Nat
             PROVE  AncillaryEnd(tail, fd_num) <= tail + AncillarySize(fd_num)
  OBVIOUS
<1>1. ceil_align(tail, ALIGNMENT_PADDING) <= tail + ALIGNMENT_PADDING
  BY DEF ceil_align, ALIGNMENT_PADDING
<1>2. /\ ceil_align(tail, ALIGNMENT_PADDING) \in Int
      /\ SizeOfInt + SizeOfInt * fd_num \in Int
      /\ CMSG_SPACE(SizeOfInt * fd_num) \in Int
      /\ ALIGNMENT_PADDING \in Int
  BY DEF ceil_align, ALIGNMENT_PADDING, SizeOfInt, CMSG_SPACE, CmsgAlign
<1> QED BY <1>1, <1>2 DEF AncillaryEnd, AncillarySize
-----------------------------------------------------------------------------
(* get_tuners.                                                             *)

(* Without HotPlug the table stays as it is while a command is served.     *)
LEMMA TunersInvStep ==
  ASSUME CmdInv, TunersInv, [DtvNext]_allVars
  PROVE  TunersInv'
<1> SUFFICES ASSUME Serial PROVE TunersInv'
  BY DEF TunersInv, Serial
<1>1. ASSUME registered', step' # "fetch", command'.opcode # OPCODE_GET_TUNERS
                \/ step' \notin {"answer", "done"}
                \/ (step' = "done" /\ status' # ERROR_NONE)
      PROVE  TunersInv'
  BY <1>1 DEF TunersInv
<1>2. CASE HalNotifies \/ Registers
  <2>1. step = "idle" /\ step' = "idle"
    BY <1>2 DEF HalNotifies, Registers, Serial, dtvVars
  <2> QED BY <2>1 DEF TunersInv
<1>3. ASSUME NEW opcode \in Opcode, NEW readable \in BOOLEAN, NEW tuner_id \in TunerArg,
             BeginCommand(opcode, readable, tuner_id)
      PROVE  TunersInv'
  <2>1. registered'
    BY <1>3 DEF BeginCommand, tvVars
  <2>2. step' \in {"count", "stream", "library"} \/ (step' = "done" /\ status' # ERROR_NONE)
    BY <1>3 DEF BeginCommand, Returns, FirstStep
  <2> QED BY <1>1, <2>1, <2>2
<1>4. CASE EndCommand
  BY <1>4 DEF EndCommand, TunersInv
<1>5. CASE CountTuners
  <2>1. /\ step = "count" /\ step' = "fetch" /\ tuner_num' = device_num
        /\ UNCHANGED <<registered, device_num>>
    BY <1>5 DEF CountTuners, At, tvVars, tableVars
  <2> QED BY <2>1 DEF TunersInv
<1>6. CASE FetchTuners
  <2>1. /\ step = "fetch" /\ step' = "answer" /\ tuners' = FetchedIds
        /\ UNCHANGED <<registered, device_num, device_list>>
    BY <1>6 DEF FetchTuners, At, tvVars, tableVars
  <2>2. tuner_num = device_num /\ registered
    BY <2>1 DEF TunersInv
  <2>3. tuners' = [i \in 1..device_num |-> ListedId(i - 1)]
    <3>1. FetchedIds = [i \in 1..device_num |->
                          IF i <= device_num THEN ListedId(i - 1) ELSE GarbageId]
      BY <2>2 DEF FetchedIds
    <3>2. \A i \in 1..device_num : i <= device_num
      OBVIOUS
    <3> QED BY <2>1, <3>1, <3>2
  <2>4. \A i : ListedId(i)' = ListedId(i)
    BY <2>1 DEF ListedId
  <2> QED BY <2>1, <2>2, <2>3, <2>4 DEF TunersInv
<1>7. CASE FetchOverrun
  BY <1>1, <1>7 DEF FetchOverrun, At, Dies, tvVars, TunersInv
<1>8. CASE Library
  <2>1. /\ step = "library" /\ command' = command /\ registered' = registered
        /\ step' \in {"done", "dead", "answer"}
    BY <1>8 DEF Library, LibraryFails, ChannelFails, LibrarySucceeds, At, Returns, Dies,
                tvVars, cmdVars
  <2>2. registered /\ command.opcode # OPCODE_GET_TUNERS
    BY <2>1 DEF TunersInv, CmdInv
  <2> QED BY <1>1, <2>1, <2>2
<1>9. CASE SetSource
  <2>1. step \in {"stream", "open"} /\ command' = command /\ registered' = registered
    BY <1>9 DEF SetSource, SelectSource, OpenSource, OpenSourceOverrun, UseOldHandle,
                SourceFails, NoStreamFor, NoConfig, StreamStays, AlreadyActing, SelectStream,
                OpenStream, OpenStreamOverrun, OpenStreamFails, Undefined, At, Dies,
                tvVars, cmdVars
  <2>2. step' \in {"open", "answer", "done", "dead"}
    BY <1>9 DEF SetSource, SelectSource, OpenSource, OpenSourceOverrun, UseOldHandle,
                SourceFails, Returns, Dies
  <2>3. registered /\ command.opcode # OPCODE_GET_TUNERS
    BY <2>1 DEF TunersInv, CmdInv
  <2> QED BY <1>1, <2>1, <2>2, <2>3
<1>10. CASE Answer
  <2>1. /\ step = "answer" /\ step' \in {"done", "dead"}
        /\ UNCHANGED <<command, tuners, registered, device_num, device_list>>
    BY <1>10 DEF Answer, NoMemoryForAnswer, AnswerTuners, AnswerSource, AnswerEmpty,
                 AnswerChannel, AnswerChannels, AnswerPrograms, AnswerTo, Sends, Returns,
                 Dies, At, cmdVars, tvVars, tableVars
  <2>2. \A i : ListedId(i)' = ListedId(i)
    BY <2>1 DEF ListedId
  <2> QED BY <2>1, <2>2 DEF TunersInv
<1>11. CASE UNCHANGED allVars
  BY <1>11 DEF allVars, dtvVars, cmdVars, tvVars, tableVars, TunersInv, ListedId
<1> QED BY <1>2, <1>3, <1>4, <1>5, <1>6, <1>7, <1>8, <1>9, <1>10, <1>11
        DEF DtvNext, GetTuners

(* The ids of a registered service's table are those of the announced      *)
(* tuners, each once, unless get_int_length cuts one off.                  *)
LEMMA IdsOfTable ==
  ASSUME TvInv, \A d \in Tuner : ~BeginsWithTen(d),
         tuners = [i \in 1..device_num |-> ListedId(i - 1)]
  PROVE  /\ \A i \in DOMAIN tuners : DeviceIdOf(tuners[i]) \in Tuner
         /\ RoomForTuners /\ registered =>
              /\ {DeviceIdOf(tuners[i]) : i \in DOMAIN tuners} = available \intersect Tuner
              /\ Len(tuners) = Cardinality(available \intersect Tuner)
<1> DEFINE devices == [i \in 1..device_num |-> device_list[i - 1].device_id]
<1>1. /\ device_num \in Nat /\ IsFiniteSet(Tuner) /\ Tuner \subseteq Nat
      /\ \A i \in 1..device_num : i - 1 \in Listed
      /\ \A i \in Listed : i + 1 \in 1..device_num /\ (i + 1) - 1 = i
  BY MaxDeviceAssumption, DeviceAssumption DEF TvInv, TvTypeOK, Listed
<1>2. \A i \in 1..device_num : devices[i] \in available \intersect Tuner
  BY <1>1 DEF TvInv, ListedAnnounced
<1>3. \A i \in 1..device_num : DeviceIdOf(tuners[i]) = devices[i]
  <2> TAKE i \in 1..device_num
  <2>1. tuners[i] = TunerIdOf(devices[i])
    BY DEF ListedId
  <2>2. devices[i] \in Tuner /\ ~BeginsWithTen(devices[i])
    BY <1>2
  <2>3. devices[i] \in Nat /\ devices[i] < UINT_RANGE
    <3>1. UINT_RANGE \in Nat /\ UINT_RANGE > 0 /\ Tuner \subseteq 0 .. UINT_RANGE \div 2 - 1
      BY UintAssumption, HandlerAssumption DEF Device
    <3>2. \A d \in 0 .. UINT_RANGE \div 2 - 1 : d \in Nat /\ d < UINT_RANGE
      BY <3>1
    <3> HIDE DEF devices
    <3> QED BY <2>2, <3>1, <3>2
  <2> HIDE DEF devices
  <2> QED BY <2>1, <2>2, <2>3, TunerIdRoundTrip
<1>4. DOMAIN tuners = 1..device_num /\ Len(tuners) = device_num
  BY <1>1
<1>5. ASSUME RoomForTuners, registered
      PROVE  /\ {DeviceIdOf(tuners[i]) : i \in DOMAIN tuners} = available \intersect Tuner
             /\ Len(tuners) = Cardinality(available \intersect Tuner)
  <2> DEFINE announced == available \intersect Tuner
  <2>1. \A d \in announced : \E i \in 1..device_num : devices[i] = d
    <3> TAKE d \in announced
    <3>1. PICK i \in Listed : device_list[i].device_id = d
      BY <1>5 DEF TvInv, AllListed
    <3>2. devices[i + 1] = d /\ i + 1 \in 1..device_num
      BY <1>1, <3>1
    <3> QED BY <3>2
  <2>2. devices \in [1..device_num -> announced]
    BY <1>2
  <2>3. \A i, j \in 1..device_num : devices[i] = devices[j] => i = j
    BY <1>1 DEF TvInv, ListedOnce
  <2> HIDE DEF devices
  <2>4. devices \in Bijection(1..device_num, announced)
    BY <2>1, <2>2, <2>3
    DEF Bijection, Injection, Surjection, IsInjective
  <2>5. Cardinality(1..device_num) = Cardinality(announced)
    <3>1. IsFiniteSet(1..device_num)
      BY <1>1, FS_Interval
    <3> QED BY <2>4, <3>1, FS_Bijection DEF ExistsBijection
  <2>6. Cardinality(1..device_num) = device_num
    BY <1>1, FS_Interval
  <2>7. {DeviceIdOf(tuners[i]) : i \in DOMAIN tuners} = {devices[i] : i \in 1..device_num}
    BY <1>3, <1>4
  <2>8. {devices[i] : i \in 1..device_num} = announced
    BY <2>1, <2>2
  <2> QED BY <1>4, <2>5, <2>6, <2>7, <2>8
<1> QED BY <1>2, <1>3, <1>4, <1>5

(* While devices do not come and go in the middle of a command, and no     *)
(* tuner has a number that get_int_length cuts, a get_tuners that succeeds *)
(* names exactly the tuners the HAL has announced, each once: without      *)
(* either assumption it does not (runs dtv_race and dtv_tuner_id)          *)
(* (dtv_io.c:280-334, dtv.c:55-89, tv_hal.c:167-198).                      *)
THEOREM TunersAreAnswered ==
  ASSUME Serial, \A d \in Tuner : ~BeginsWithTen(d)
  PROVE  DtvSpec => []TunersAnswered
<1>1. DtvInit => CmdInv /\ TunersInv
  BY DEF DtvInit, CmdInv, TunersInv, HandlersKeepContract
<1>2. TvInv /\ CmdInv /\ TunersInv /\ [DtvNext]_allVars => CmdInv' /\ TunersInv'
  BY CmdInvInductive, TunersInvStep
<1>3. TvInv /\ TunersInv => TunersAnswered
  <2> SUFFICES ASSUME TvInv, TunersInv, Succeeded(OPCODE_GET_TUNERS)
               PROVE  /\ \A i \in DOMAIN tuners : DeviceIdOf(tuners[i]) \in Tuner
                      /\ RoomForTuners =>
                           /\ {DeviceIdOf(tuners[i]) : i \in DOMAIN tuners}
                                = available \intersect Tuner
                           /\ Len(tuners) = Cardinality(available \intersect Tuner)
    BY DEF TunersAnswered
  <2>1. registered /\ tuners = [i \in 1..device_num |-> ListedId(i - 1)]
    BY DEF TunersInv, Succeeded
  <2> QED BY <2>1, IdsOfTable
<1> QED BY <1>1, <1>2, <1>3, DtvTvInv, PTL DEF DtvSpec
-----------------------------------------------------------------------------
(* The answers and their buffers.                                          *)

(* A buffer that was created for at least the bytes that are appended. *)
HoldsFields(buf) ==
  \E size, fds \in Nat : \E fields :
    buf = Created(size, fds, fields) /\ Bytes(fields) <= size

LEMMA SentHolds ==
  ASSUME NEW size \in Nat, NEW fds \in Nat, NEW fields, Sends(size, fds, fields),
         Bytes(fields) <= size
  PROVE  HoldsFields(wbuf')
BY DEF HoldsFields, Sends

(* get_tuners counts and appends the same tuners. *)
LEMMA TunersFit ==
  ASSUME DtvTypeOK, AnswerTuners
  PROVE  HoldsFields(wbuf')
<1> DEFINE ss == [i \in 1..Len(TunerRecords) |-> append_tuner(TunerRecords[i])]
           sizes == [i \in DOMAIN tuners |-> calculate_tuner_size(TunerRecords[i])]
<1>1. tuners \in Seq(Seq(-1..9))
  BY DEF DtvTypeOK
<1>2. /\ DOMAIN tuners = 1..Len(tuners) /\ Len(tuners) \in Nat
      /\ \A i \in 1..Len(tuners) : Len(tuners[i]) \in Nat
  <2>1. \A i \in 1..Len(tuners) : tuners[i] \in Seq(-1..9)
    BY <1>1
  <2> QED BY <1>1, <2>1
<1>3. /\ DOMAIN TunerRecords = 1..Len(tuners) /\ Len(TunerRecords) = Len(tuners)
      /\ \A i \in 1..Len(tuners) : TunerRecords[i] \in tv_tuner
  BY <1>2 DEF TunerRecords, tv_tuner
<1>4. ASSUME NEW i \in 1..Len(tuners)
      PROVE  /\ append_tuner(TunerRecords[i]) \in Fields
             /\ calculate_tuner_size(TunerRecords[i]) \in Nat
             /\ Bytes(append_tuner(TunerRecords[i])) = calculate_tuner_size(TunerRecords[i])
  BY <1>3, TunerSizeExact
<1>5. ss \in Seq(Fields) /\ Len(ss) = Len(tuners)
  BY <1>2, <1>3, <1>4
<1>6. sizes \in Seq(Nat) /\ Len(sizes) = Len(tuners)
  BY <1>2, <1>4
<1>7. \A i \in 1..Len(ss) : Bytes(ss[i]) <= sizes[i]
  <2> TAKE i \in 1..Len(ss)
  <2>1. ss[i] = append_tuner(TunerRecords[i]) /\ sizes[i] = calculate_tuner_size(TunerRecords[i])
    BY <1>2, <1>3, <1>5
  <2>2. calculate_tuner_size(TunerRecords[i]) <= calculate_tuner_size(TunerRecords[i])
    BY <1>4, <1>5
  <2> QED BY <1>4, <1>5, <2>1, <2>2
<1>8. Each(append_tuner, TunerRecords) = FlattenSeq(ss)
  BY <1>3 DEF Each
<1>9. Sends(U32 + Sum(sizes), 0, <<Field("tuner_num", U32)>> \o FlattenSeq(ss))
  BY <1>8 DEF AnswerTuners
<1> HIDE DEF ss, sizes
<1>10. "tuner_num" \in FieldName
  BY DEF FieldName
<1>11. Bytes(<<Field("tuner_num", U32)>> \o FlattenSeq(ss)) <= U32 + Sum(sizes)
  BY <1>5, <1>6, <1>7, <1>10, ListFits
<1>12. U32 + Sum(sizes) \in Nat /\ 0 \in Nat
  BY <1>6, SumType DEF U32
<1> QED BY <1>9, <1>11, <1>12, SentHolds

(* So does get_program, which counts the titles too. *)
LEMMA ProgramsFit ==
  ASSUME NEW progs \in Programs, AnswerPrograms(progs),
         ~\E i \in DOMAIN progs : ReadsBeyond(progs[i])
  PROVE  HoldsFields(wbuf')
<1> DEFINE ss == [i \in DOMAIN progs |-> append_program(progs[i])]
           sizes == [i \in DOMAIN progs |-> calculate_prog_size(progs[i])]
<1>1. /\ progs \in Seq(tv_program) /\ DOMAIN progs = 1..Len(progs) /\ Len(progs) \in Nat
      /\ \A i \in 1..Len(progs) : progs[i] \in tv_program
  BY HandlerAssumption
<1>2. ASSUME NEW i \in 1..Len(progs)
      PROVE  /\ append_program(progs[i]) \in Fields /\ calculate_prog_size(progs[i]) \in Nat
             /\ Bytes(append_program(progs[i])) <= calculate_prog_size(progs[i])
  <2>1. progs[i] \in tv_program /\ ~ReadsBeyond(progs[i])
    BY <1>1
  <2>2. progs[i].title \in Nat
    BY <2>1 DEF tv_program
  <2>3. /\ append_program(progs[i]) \in Fields /\ calculate_prog_size(progs[i]) \in Nat
        /\ calculate_prog_size(progs[i]) = Bytes(append_program(progs[i])) + (progs[i].title + 1)
    BY <2>1, ProgramFits
  <2>4. Bytes(append_program(progs[i])) \in Nat
    BY <2>3, SizesType
  <2> QED BY <2>2, <2>3, <2>4
<1>3. ss \in Seq(Fields) /\ Len(ss) = Len(progs)
  BY <1>1, <1>2
<1>4. sizes \in Seq(Nat) /\ Len(sizes) = Len(progs)
  BY <1>1, <1>2
<1>5. \A i \in 1..Len(ss) : Bytes(ss[i]) <= sizes[i]
  BY <1>1, <1>2, <1>3
<1>6. Sends(U32 + Sum(sizes), 0, <<Field("prog_num", U32)>> \o FlattenSeq(ss))
  BY DEF AnswerPrograms, Each
<1> HIDE DEF ss, sizes
<1>7. "prog_num" \in FieldName
  BY DEF FieldName
<1>8. Bytes(<<Field("prog_num", U32)>> \o FlattenSeq(ss)) <= U32 + Sum(sizes)
  BY <1>3, <1>4, <1>5, <1>7, ListFits
<1>9. U32 + Sum(sizes) \in Nat /\ 0 \in Nat
  BY <1>4, SumType DEF U32
<1> QED BY <1>6, <1>8, <1>9, SentHolds

(* Every answer fits its buffer. *)
LEMMA AnswerHolds ==
  ASSUME DtvTypeOK, Answer
  PROVE  wbuf' = wbuf \/ HoldsFields(wbuf')
<1>1. CASE NoMemoryForAnswer \/ AnswerChannel
  BY <1>1 DEF NoMemoryForAnswer, AnswerChannel, cmdVars
<1>2. CASE AnswerTuners
  BY <1>2, TunersFit
<1>3. CASE AnswerSource
  <2>1. handle.numFds \in Nat /\ handle.numInts \in Nat
    BY DEF DtvTypeOK
  <2>2. HandleSize(handle) \in Nat /\ Bytes(HandleFields(handle)) <= HandleSize(handle)
    BY <2>1, HandleFits
  <2> QED BY <1>3, <2>1, <2>2, SentHolds DEF AnswerSource
<1>4. CASE AnswerEmpty
  <2>1. Sends(0, 0, <<>>) /\ 0 \in Nat /\ Bytes(<<>>) <= 0
    BY <1>4, BytesEmpty DEF AnswerEmpty
  <2> QED BY <2>1, SentHolds
<1>5. ASSUME NEW n \in ChannelNum, AnswerChannels(n)
      PROVE  wbuf' = wbuf \/ HoldsFields(wbuf')
  <2>1. CASE n = 0
    <3>1. U32 \in Nat /\ 0 \in Nat /\ "ch_num" \in FieldName
      BY DEF U32, FieldName
    <3>2. Bytes(ChannelListFields) = U32
      BY <3>1, FieldType, BytesOfOne DEF ChannelListFields
    <3>3. Sends(U32, 0, ChannelListFields) /\ Bytes(ChannelListFields) <= U32
      BY <1>5, <2>1, <3>1, <3>2 DEF AnswerChannels
    <3> QED BY <3>1, <3>3, SentHolds
  <2>2. CASE n # 0
    BY <1>5, <2>2 DEF AnswerChannels, cmdVars
  <2> QED BY <2>1, <2>2
<1>6. ASSUME NEW progs \in Programs, AnswerPrograms(progs)
      PROVE  wbuf' = wbuf \/ HoldsFields(wbuf')
  <2>1. CASE \E i \in DOMAIN progs : ReadsBeyond(progs[i])
    BY <1>6, <2>1 DEF AnswerPrograms, cmdVars
  <2>2. CASE ~\E i \in DOMAIN progs : ReadsBeyond(progs[i])
    BY <1>6, <2>2, ProgramsFit
  <2> QED BY <2>1, <2>2
<1> QED BY <1>1, <1>2, <1>3, <1>4, <1>5, <1>6 DEF Answer

(* A buffer that holds its fields has a size, and room behind them for the *)
(* descriptors.                                                            *)
LEMMA HoldingFits ==
  ASSUME NEW buf, HoldsFields(buf)
  PROVE  /\ buf.size \in Nat
         /\ Bytes(buf.fields) <= buf.size
         /\ buf.fds # 0 =>
              \A tail \in 0..15 : AncillaryEnd(tail, buf.fds) <= tail + buf.tail
<1>1. PICK size \in Nat, fds \in Nat :
        \E fields : buf = Created(size, fds, fields) /\ Bytes(fields) <= size
  BY DEF HoldsFields
<1>2. PICK fields : buf = Created(size, fds, fields) /\ Bytes(fields) <= size
  BY <1>1
<1>3. /\ buf.size = size /\ buf.fds = fds /\ buf.fields = fields
      /\ buf.tail = IF fds = 0 THEN 0 ELSE AncillarySize(fds)
  BY <1>2 DEF Created
<1>4. ASSUME buf.fds # 0, NEW tail \in 0..15
      PROVE  AncillaryEnd(tail, buf.fds) <= tail + buf.tail
  <2>1. buf.tail = AncillarySize(fds) /\ tail \in Nat
    BY <1>3, <1>4
  <2>2. AncillaryEnd(tail, fds) <= tail + AncillarySize(fds)
    BY <2>1, AncillaryDataFits
  <2> QED BY <1>3, <2>1, <2>2
<1> QED BY <1>2, <1>3, <1>4

(* The ids of the table are strings of digits, and so is what is printed   *)
(* for an entry that was not filled in but for one character.              *)
LEMMA FetchedType ==
  ASSUME DtvTypeOK
  PROVE  FetchedIds \in Seq(Seq(-1..9))
<1>1. tuner_num \in Nat /\ device_num \in Nat
  BY MaxDeviceAssumption DEF DtvTypeOK, TvTypeOK
<1>2. ASSUME NEW i \in 1..tuner_num, i <= device_num
      PROVE  ListedId(i - 1) \in Seq(-1..9)
  <2>1. i - 1 \in Slot
    <3>1. device_num <= MAX_DEVICE_NUM /\ MAX_DEVICE_NUM \in Nat
      BY MaxDeviceAssumption DEF DtvTypeOK, TvTypeOK
    <3> QED BY <1>1, <1>2, <3>1 DEF Slot
  <2>2. device_list[i - 1].device_id \in Nat
    <3>1. device_list[i - 1] \in Entry
      BY <2>1 DEF DtvTypeOK, TvTypeOK
    <3>2. \A e \in Entry : e.device_id \in {0} \union Device
      BY DEF Entry
    <3>3. {0} \union Device \subseteq Nat
      BY DeviceAssumption DEF Device
    <3> QED BY <3>1, <3>2, <3>3
  <2>3. ListedId(i - 1) \in Seq(0..9)
    BY <2>2, TunerIdRoundTrip DEF ListedId
  <2> QED BY <2>3
<1>3. GarbageId \in Seq(-1..9)
  BY DEF GarbageId
<1>4. \A i \in 1..tuner_num :
        (IF i <= device_num THEN ListedId(i - 1) ELSE GarbageId) \in Seq(-1..9)
  BY <1>2, <1>3
<1> QED BY <1>1, <1>4 DEF FetchedIds

(* What the variables of the handlers can hold, but for the wrapper's and  *)
(* the buffer.                                                             *)
CmdTypeOK ==
  /\ step \in StepOf
  /\ command \in Command \union {NoCommand}
  /\ tuner_num \in 0..MAX_DEVICE_NUM
  /\ tuners \in Seq(Seq(-1..9))
  /\ handle \in [numFds : Nat, numInts : Nat, known : BOOLEAN]
  /\ status \in 0..7

LEMMA HandleType ==
  ASSUME NEW h \in Handle, NEW k \in BOOLEAN
  PROVE  [numFds |-> h.numFds, numInts |-> h.numInts, known |-> k]
           \in [numFds : Nat, numInts : Nat, known : BOOLEAN]
BY HandlerAssumption

LEMMA CmdTypeStep ==
  ASSUME DtvTypeOK, [DtvNext]_allVars
  PROVE  CmdTypeOK'
<1> USE DEF CmdTypeOK
<1>1. CmdTypeOK
  BY DEF DtvTypeOK
<1>2. CASE HalNotifies \/ Registers \/ UNCHANGED allVars
  BY <1>1, <1>2 DEF HalNotifies, Registers, allVars, dtvVars, cmdVars
<1>3. ASSUME NEW opcode \in Opcode, NEW readable \in BOOLEAN, NEW tuner_id \in TunerArg,
             BeginCommand(opcode, readable, tuner_id)
      PROVE  CmdTypeOK'
  <2>1. command' \in Command
    BY <1>3, HandlerAssumption DEF BeginCommand, Command
  <2>2. step' \in StepOf /\ status' \in 0..7
    BY <1>1, <1>3 DEF BeginCommand, Returns, FirstStep, StepOf
  <2> QED BY <1>1, <1>3, <2>1, <2>2 DEF BeginCommand
<1>4. CASE EndCommand
  <2>1. /\ step' = "idle" /\ command' = NoCommand /\ tuner_num' = 0 /\ tuners' = <<>>
        /\ handle' = NoHandle /\ status' = 0
    BY <1>4 DEF EndCommand
  <2> QED BY <2>1, MaxDeviceAssumption DEF StepOf, NoHandle
<1>5. CASE CountTuners
  BY <1>1, <1>5 DEF CountTuners, StepOf, DtvTypeOK, TvTypeOK
<1>6. CASE FetchTuners
  BY <1>1, <1>6, FetchedType DEF FetchTuners, StepOf
<1>7. CASE FetchOverrun \/ SelectSource \/ OpenSourceOverrun \/ ChannelFails \/ LibrarySucceeds
  BY <1>1, <1>7 DEF FetchOverrun, SelectSource, OpenSourceOverrun, ChannelFails,
                    LibrarySucceeds, Dies, cmdVars, StepOf
<1>8. CASE SourceFails
  BY <1>1, <1>8 DEF SourceFails, Returns, StepOf
<1>9. CASE OpenSource
  BY <1>1, <1>9, HandleType DEF OpenSource, StepOf
<1>10. CASE UseOldHandle
  BY <1>1, <1>10, HandleType DEF UseOldHandle, Dies, cmdVars, StepOf
<1>11. CASE LibraryFails
  BY <1>1, <1>11, HandlerAssumption DEF LibraryFails, Returns, StepOf
<1>12. CASE Answer
  <2>1. UNCHANGED <<command, tuner_num, tuners, handle>>
    BY <1>12 DEF Answer, NoMemoryForAnswer, AnswerTuners, AnswerSource, AnswerEmpty,
                 AnswerChannel, AnswerChannels, AnswerPrograms, Sends, cmdVars
  <2>2. step' \in {"done", "dead"} /\ status' \in {status, ERROR_NONE, ERROR_NOMEM}
    BY <1>12 DEF Answer, NoMemoryForAnswer, AnswerTuners, AnswerSource, AnswerEmpty,
                 AnswerChannel, AnswerChannels, AnswerPrograms, Returns, Dies
  <2> QED BY <1>1, <2>1, <2>2 DEF StepOf
<1> QED BY <1>2, <1>3, <1>4, <1>5, <1>6, <1>7, <1>8, <1>9, <1>10, <1>11, <1>12
        DEF DtvNext, GetTuners, SetSource, Library

(* Only an answer makes a buffer. *)
BufferHolds == wbuf # NoWbuf => HoldsFields(wbuf)

LEMMA BufferStep ==
  ASSUME DtvTypeOK, BufferHolds, [DtvNext]_allVars
  PROVE  BufferHolds'
<1>1. \/ wbuf' = wbuf \/ wbuf' = NoWbuf \/ Answer
  BY DEF DtvNext, HalNotifies, Registers, BeginCommand, EndCommand, GetTuners, CountTuners,
         FetchTuners, FetchOverrun, SetSource, SelectSource, OpenSource, OpenSourceOverrun,
         UseOldHandle, SourceFails, Library, LibraryFails, ChannelFails, LibrarySucceeds,
         allVars, dtvVars, cmdVars
<1>2. wbuf' = wbuf \/ wbuf' = NoWbuf \/ HoldsFields(wbuf')
  BY <1>1, AnswerHolds
<1>3. NoWbuf' = NoWbuf
  BY DEF NoWbuf
<1> QED BY <1>2, <1>3 DEF BufferHolds, HoldsFields, Created

LEMMA DtvInvariant == DtvSpec => [](TvInv /\ DtvTypeOK /\ BufferHolds)
<1>1. DtvInit => DtvTypeOK /\ BufferHolds
  BY TvInvInit, MaxDeviceAssumption
  DEF DtvInit, DtvTypeOK, BufferHolds, TvInv, StepOf, NoHandle
<1>2. TvInv' /\ DtvTypeOK /\ BufferHolds /\ [DtvNext]_allVars => DtvTypeOK' /\ BufferHolds'
  <2> SUFFICES ASSUME TvInv', DtvTypeOK, BufferHolds, [DtvNext]_allVars
               PROVE  DtvTypeOK' /\ BufferHolds'
    OBVIOUS
  <2>1. BufferHolds'
    BY BufferStep
  <2>2. wbuf' # NoWbuf => wbuf'.size \in Nat
    <3>1. NoWbuf' = NoWbuf /\ (HoldsFields(wbuf))' = HoldsFields(wbuf')
      BY DEF NoWbuf, HoldsFields, Created
    <3> QED BY <2>1, <3>1, HoldingFits DEF BufferHolds
  <2>3. CmdTypeOK'
    BY CmdTypeStep
  <2> QED BY <2>1, <2>2, <2>3 DEF DtvTypeOK, CmdTypeOK, TvInv
<1> QED BY <1>1, <1>2, DtvTvInv, PTL DEF DtvSpec

(* What the library and the clients send stays what the handlers take it   *)
(* for: a count within the table, ids that are strings, a handle of        *)
(* natural sizes, and a status that the error reply has a code for         *)
(* (dtv_io.c:282-358, io.c:328-346).                                       *)
THEOREM DtvTypeCorrect == DtvSpec => []DtvTypeOK
BY DtvInvariant, PTL

(* No answer is longer than its buffer, and no descriptors and control     *)
(* message longer than the buffer's tail, however many tuners, programs,   *)
(* languages, integers or descriptors there are, and however long the      *)
(* strings (dtv_pdu.c:23-108, dtv_io.c:305-333, 360-408, 598-625).         *)
THEOREM BuffersFit == DtvSpec => []FitsBuffer
<1>1. BufferHolds => FitsBuffer
  BY HoldingFits DEF BufferHolds, FitsBuffer
<1> QED BY <1>1, DtvInvariant, PTL
=============================================================================
