------------------------------- MODULE TvHal -------------------------------
(***************************************************************************)
(* The TV HAL wrapper, src/tv_hal.c, under the registration of the DTV     *)
(* service (register_dtv and unregister_dtv of dtv_io.c, called by         *)
(* registry.c).  The table of tuners is changed by device_init_notify, on  *)
(* the HAL's thread, and read and changed by the I/O thread.  There is no  *)
(* lock.                                                                   *)
(*                                                                         *)
(* Each notification is one step here.  tv_input_hal_get_stream takes two, *)
(* with the HAL's open_stream in the second: if HotPlug, the HAL notifies  *)
(* in between, and between two calls of one command (module DtvHandlers).  *)
(* The code allows more interleavings than that, so with HotPlug the model *)
(* can show what goes wrong and not that nothing does.                     *)
(***************************************************************************)
EXTENDS Integers, FiniteSets

CONSTANTS
  Tuner,           \* the device ids of the tuners
  NonTuner,        \* the device ids of inputs of another type
  Stream,          \* the stream ids
  StreamsOf,       \* from the devices to the streams they can offer
  MAX_DEVICE_NUM,
  HotPlug,         \* whether the HAL notifies while the I/O thread is in a call
  OpenFails,       \* the devices whose open_stream may fail
  HalFaults        \* the other calls into the HAL that may: see HalFaultKind

(* "module": opening the HAL before it was opened once; "reopen": opening  *)
(* it again.                                                               *)
HalFaultKind == {"module", "reopen", "close_stream"}

NoStream == -1

ASSUME DeviceAssumption ==
  /\ Tuner \subseteq Nat /\ NonTuner \subseteq Nat /\ Tuner \intersect NonTuner = {}
  /\ IsFiniteSet(Tuner)
ASSUME StreamAssumption    == Stream \subseteq Nat
ASSUME StreamsOfAssumption == StreamsOf \in [Tuner \union NonTuner -> SUBSET Stream]
ASSUME MaxDeviceAssumption == MAX_DEVICE_NUM \in Nat \ {0}
ASSUME HotPlugAssumption   == HotPlug \in BOOLEAN
ASSUME HalFaultsAssumption ==
  HalFaults \subseteq HalFaultKind /\ OpenFails \subseteq Tuner \union NonTuner

Device == Tuner \union NonTuner
Slot   == 0 .. MAX_DEVICE_NUM - 1
Entry  == [device_id : {0} \union Device, acting_stream_id : {0, NoStream} \union Stream]

VARIABLES
  running,         \* FALSE once a NULL device was used or the table overrun
  registered,      \* the DTV service is registered
  device,          \* the pointer device of tv_hal.c: "null" or "open"
  device_num,
  device_list,     \* without the type, which is TUNER in every entry
  opening,         \* get_stream before its open_stream, or NotOpening
  notifying,       \* the HAL has been initialized at least once
  available,       \* the devices the HAL has announced and not withdrawn
  config,          \* the stream each device offers, or NoStream
  opened           \* the streams that are open in the HAL

tableVars == <<device_num, device_list>>
halVars   == <<notifying, available, config, opened>>
tvVars    == <<running, registered, device, tableVars, opening, halVars>>

NotOpening == [device_id |-> -1]
Opening    == [device_id : Device, stream : Stream, idx : 0 .. MAX_DEVICE_NUM]

TvTypeOK ==
  /\ running \in BOOLEAN
  /\ registered \in BOOLEAN
  /\ device \in {"null", "open"}
  /\ device_num \in 0 .. MAX_DEVICE_NUM
  /\ device_list \in [Slot -> Entry]
  /\ opening \in Opening \union {NotOpening}
  /\ notifying \in BOOLEAN
  /\ available \subseteq Device
  /\ config \in [Device -> Stream \union {NoStream}]
  /\ opened \subseteq Device \X Stream

TvInit ==
  /\ running = TRUE /\ registered = FALSE
  /\ device = "null" /\ device_num = 0
  /\ device_list = [i \in Slot |-> [device_id |-> 0, acting_stream_id |-> 0]]
  /\ opening = NotOpening
  /\ notifying = FALSE /\ available = {} /\ opened = {}
  /\ config \in [Device -> Stream \union {NoStream}]
  /\ \A d \in Device : config[d] \in StreamsOf[d] \union {NoStream}

Listed == 0 .. device_num - 1

(* Variant: a device that is not found is at the end of the table.         *)
IndexOrEnd(d) ==
  LET found == {i \in Listed : device_list[i].device_id = d}
  IN  IF found = {} THEN MAX_DEVICE_NUM
      ELSE CHOOSE i \in found : \A j \in found : i <= j

(* The loops over the table: the first entry of d, or device_num. *)
IndexOf(d) ==
  LET found == {i \in Listed : device_list[i].device_id = d}
  IN  IF found = {} THEN device_num
      ELSE CHOOSE i \in found : \A j \in found : i <= j

Acting(i) == device_list[i].acting_stream_id

(* The HAL's close_stream of the streams in pairs. *)
CloseStreams(pairs) ==
  \/ opened' = opened \ pairs
  \/ /\ "close_stream" \in HalFaults
     /\ \E kept \in SUBSET (opened \intersect pairs) : opened' = opened \ (pairs \ kept)

Undefined == running' = FALSE /\ UNCHANGED <<registered, device, tableVars, opening, halVars>>
-----------------------------------------------------------------------------
(* device_init_notify, called by the HAL.                                  *)

Notified == running /\ notifying /\ (HotPlug \/ opening = NotOpening)

AddDevice(d) ==
  /\ device_list' = [device_list EXCEPT ![device_num] =
                       [device_id |-> d, acting_stream_id |-> NoStream]]
  /\ device_num' = device_num + 1

DeviceAvailable(d) ==
  /\ Notified
  /\ d \notin available
  /\ available' = available \union {d}
  /\ IF d \in Tuner /\ device_num < MAX_DEVICE_NUM
     THEN AddDevice(d)
     ELSE UNCHANGED tableVars
  /\ UNCHANGED <<running, registered, device, opening, notifying, config, opened>>

(* Variants: the entries, or only their streams, stay where they were.     *)
RemoveLast(target) == device_num' = device_num - 1 /\ UNCHANGED device_list
RemoveDeviceOnly(target) ==
  /\ device_num' = device_num - 1
  /\ device_list' = [i \in Slot |->
       IF target <= i /\ i < device_num - 1
       THEN [device_list[i] EXCEPT !.device_id = device_list[i + 1].device_id]
       ELSE device_list[i]]

RemoveDeviceByIdx(target) ==
  /\ device_num' = device_num - 1
  /\ device_list' = [i \in Slot |->
       IF target <= i /\ i < device_num - 1 THEN device_list[i + 1] ELSE device_list[i]]

(* Both events close the stream whatever it is, NoStream included. *)
DeviceUnavailable(d) ==
  LET idx == IndexOf(d) IN
  /\ Notified
  /\ d \in available
  /\ IF d \in Tuner /\ idx < device_num
     THEN /\ device = "open"
          /\ CloseStreams({<<d, Acting(idx)>>})
          /\ RemoveDeviceByIdx(idx)
     ELSE UNCHANGED <<tableVars, opened>>
  /\ available' = available \ {d}
  /\ UNCHANGED <<running, registered, device, opening, notifying, config>>

(* Variants: the stream is closed and stays recorded; the wrong field.     *)
KeepStream(idx) == UNCHANGED tableVars
ForgetDevice(idx) ==
  /\ device_list' = [device_list EXCEPT ![idx].device_id = NoStream]
  /\ UNCHANGED device_num
ForgetStream(idx) ==
  /\ device_list' = [device_list EXCEPT ![idx].acting_stream_id = NoStream]
  /\ UNCHANGED device_num

StreamConfigurationsChanged(d) ==
  LET idx == IndexOf(d) IN
  /\ Notified
  /\ d \in available \intersect Tuner
  /\ idx < device_num
  /\ device = "open"
  /\ CloseStreams({<<d, Acting(idx)>>})
  /\ ForgetStream(idx)
  /\ UNCHANGED <<running, registered, device, opening, notifying, available, config>>

(* device->close_stream after a failed attempt to register again. *)
NotifiedWithoutDevice(d) ==
  /\ Notified
  /\ d \in available \intersect Tuner
  /\ IndexOf(d) < device_num
  /\ device = "null"
  /\ Undefined

(* The hardware offers another stream; the HAL will notify sooner or later. *)
Reconfigure(d, s) ==
  /\ running
  /\ HotPlug \/ opening = NotOpening
  /\ config' = [config EXCEPT ![d] = s]
  /\ UNCHANGED <<running, registered, device, tableVars, opening, notifying,
                 available, opened>>
-----------------------------------------------------------------------------
(* Registration, on the I/O thread.                                        *)

InCommand == running /\ opening = NotOpening

(* tv_input_hal_init up to initialize; the HAL announces its devices anew. *)
InitHal ==
  /\ device' = "open"
  /\ device_num' = 0
  /\ notifying' = TRUE
  /\ available' = {}
  /\ UNCHANGED <<running, device_list, opening, config, opened>>

Register ==                    \* register_dtv succeeds
  /\ InCommand
  /\ ~registered
  /\ InitHal
  /\ registered' = TRUE

RegisterFails ==               \* dtv_init fails: the HAL stays initialized
  /\ InCommand
  /\ ~registered
  /\ InitHal
  /\ UNCHANGED registered

RegisterFailsInHal ==          \* tv_input_hal_init fails
  /\ InCommand
  /\ ~registered
  /\ (IF notifying THEN "reopen" ELSE "module") \in HalFaults
  /\ device' = "null"
  /\ device_num' = 0
  /\ UNCHANGED <<running, registered, device_list, opening, halVars>>

ActingStreams == {<<device_list[i].device_id, Acting(i)>> :
                    i \in {j \in Listed : Acting(j) # NoStream}}

(* Variant: leaves the last entry out. *)
ActingStreamsButLast == {<<device_list[i].device_id, Acting(i)>> :
                           i \in {j \in 0 .. device_num - 2 : Acting(j) # NoStream}}
StreamsToClose == ActingStreams

(* tv_input_hal_uninit; the table stays as it is.  The Registry takes any  *)
(* outcome of dtv_uninit for a success, and has not asked whether the      *)
(* service was registered.                                                 *)
Unregister ==
  /\ InCommand
  /\ IF device_num = 0 THEN UNCHANGED opened ELSE CloseStreams(StreamsToClose)
  /\ registered' = FALSE
  /\ UNCHANGED <<running, device, tableVars, opening, notifying, available, config>>
-----------------------------------------------------------------------------
(* tv_input_hal_get_stream(d).                                             *)

Offered(d) == d \in available /\ config[d] # NoStream

NoConfig(d) ==                 \* no stream configuration: TV_STATUS_FAIL
  /\ InCommand /\ registered
  /\ ~Offered(d)
  /\ UNCHANGED tvVars

AlreadyActing(d) ==            \* TV_STATUS_SUCCESS, and no stream handle
  /\ InCommand /\ registered
  /\ Offered(d)
  /\ IndexOf(d) < device_num
  /\ Acting(IndexOf(d)) = config[d]
  /\ UNCHANGED tvVars

(* The entry has another stream, which cannot be closed: TV_STATUS_FAIL. *)
StreamStays(d) ==
  /\ InCommand /\ registered
  /\ Offered(d)
  /\ IndexOf(d) < device_num
  /\ Acting(IndexOf(d)) \notin {NoStream, config[d]}
  /\ \/ <<d, Acting(IndexOf(d))>> \notin opened
     \/ "close_stream" \in HalFaults
  /\ UNCHANGED tvVars

(* What an open_stream will need; the acting stream is closed before. *)
SelectStream(d) ==
  LET idx == IndexOf(d)
      old == IF idx < device_num THEN Acting(idx) ELSE NoStream
  IN
  /\ InCommand /\ registered
  /\ Offered(d)
  /\ old # config[d]
  /\ IF old = NoStream THEN UNCHANGED opened
     ELSE /\ <<d, old>> \in opened
          /\ opened' = opened \ {<<d, old>>}
  /\ opening' = [device_id |-> d, stream |-> config[d], idx |-> idx]
  /\ UNCHANGED <<running, registered, device, tableVars, notifying, available, config>>

OpenStreamFails ==             \* the entry keeps the stream that was closed
  /\ running
  /\ opening # NotOpening
  /\ opening.device_id \in OpenFails \/ opening.device_id \notin available
  /\ opening' = NotOpening
  /\ UNCHANGED <<running, registered, device, tableVars, halVars>>

(* For a device that is not in the table the entry behind the last one is  *)
(* written.                                                                *)
OpenStream ==
  /\ running
  /\ opening # NotOpening
  /\ opening.device_id \in available
  /\ opening.idx < MAX_DEVICE_NUM
  /\ opened' = opened \union {<<opening.device_id, opening.stream>>}
  /\ device_list' = [device_list EXCEPT ![opening.idx].acting_stream_id = opening.stream]
  /\ opening' = NotOpening
  /\ UNCHANGED <<running, registered, device, device_num, notifying, available, config>>

OpenStreamOverrun ==           \* that entry is behind the table
  /\ running
  /\ opening # NotOpening
  /\ opening.device_id \in available
  /\ opening.idx = MAX_DEVICE_NUM
  /\ Undefined
-----------------------------------------------------------------------------
Hardware ==
  \E d \in Device :
    \/ DeviceAvailable(d) \/ DeviceUnavailable(d)
    \/ StreamConfigurationsChanged(d) \/ NotifiedWithoutDevice(d)
    \/ \E s \in StreamsOf[d] \union {NoStream} : Reconfigure(d, s)

Registration == Register \/ RegisterFails \/ RegisterFailsInHal \/ Unregister

GetStream == \/ \E d \in Device : SelectStream(d)
             \/ OpenStream \/ OpenStreamFails \/ OpenStreamOverrun

TvNext == Hardware \/ Registration \/ GetStream

TvSpec == TvInit /\ [][TvNext]_tvVars
-----------------------------------------------------------------------------
(* Properties.                                                             *)

Serial == ~HotPlug
RoomForTuners == Cardinality(Tuner) <= MAX_DEVICE_NUM
(* There is room for the entry behind the last one as well. *)
RoomForAll == Cardinality(Tuner) < MAX_DEVICE_NUM

(* The table and the HAL agree: while the service is registered, exactly   *)
(* the tuners that are announced are listed, each in one entry.  Entries   *)
(* moved by remove_device_by_idx (tv_hal.c:35-45) and a second             *)
(* registration do not lose or double one.                                 *)
TableMatchesHal ==
  Serial /\ RoomForTuners /\ registered =>
    /\ {device_list[i].device_id : i \in Listed} = available \intersect Tuner
    /\ \A i, j \in Listed : device_list[i].device_id = device_list[j].device_id => i = j

(* A tuner's open stream is the one recorded for it, so that what comes    *)
(* next, another stream, an event or the end of the registration, closes   *)
(* it; and none stays open without a registration (tv_hal.c:93-116,        *)
(* 153-166, 236-265).                                                      *)
StreamsTracked ==
  Serial /\ RoomForTuners /\ "close_stream" \notin HalFaults =>
    \A d \in Tuner, s \in Stream :
      <<d, s>> \in opened =>
        registered /\ \E i \in Listed : device_list[i].device_id = d /\ Acting(i) = s

(* tv_hal.c never uses a NULL device nor an entry behind the table,        *)
(* unless the HAL could be opened once and later not again (tv_hal.c:98,   *)
(* 110, 265).                                                              *)
WithinBounds ==
  Serial /\ RoomForAll /\ "reopen" \notin HalFaults => running

Table == [d \in {device_list[i].device_id : i \in Listed} |-> Acting(IndexOf(d))]

T == INSTANCE TunerTable WITH acting <- Table

(* The array implements a map from tuners to streams. *)
TableSpec == T!Spec
-----------------------------------------------------------------------------
(* The inductive invariant behind them (TvHalProofs).                      *)

ListedOnce ==
  \A i, j \in Listed : device_list[i].device_id = device_list[j].device_id => i = j

ListedAnnounced ==
  \A i \in Listed : device_list[i].device_id \in available \intersect Tuner

AllListed ==
  RoomForTuners /\ registered =>
    \A d \in available \intersect Tuner : \E i \in Listed : device_list[i].device_id = d

DeviceOpen == "reopen" \notin HalFaults /\ notifying => device = "open"

(* Nothing happened since SelectStream. *)
OpeningCurrent ==
  Serial /\ opening # NotOpening =>
    /\ registered
    /\ opening.device_id \in available
    /\ opening.stream = config[opening.device_id]
    /\ opening.idx = IndexOf(opening.device_id)

OpeningClosed ==
  /\ Serial /\ RoomForTuners /\ "close_stream" \notin HalFaults
  /\ opening # NotOpening /\ opening.device_id \in Tuner
  => \A s \in Stream : <<opening.device_id, s>> \notin opened

(* The converse of StreamsTracked: a stream that is recorded is open. *)
ActingIsOpen ==
  Serial /\ registered =>
    \A i \in Listed :
      \/ Acting(i) = NoStream
      \/ device_list[i].device_id \in OpenFails \union {opening.device_id}
      \/ <<device_list[i].device_id, Acting(i)>> \in opened

TvInv == /\ TvTypeOK
         /\ ListedOnce /\ ListedAnnounced /\ AllListed /\ DeviceOpen
         /\ OpeningCurrent /\ OpeningClosed
         /\ StreamsTracked /\ ActingIsOpen /\ WithinBounds
=============================================================================
