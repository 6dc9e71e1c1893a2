---------------------------- MODULE TvHalProofs ----------------------------
(***************************************************************************)
(* Proofs about the TV HAL wrapper, for every set of devices and streams,  *)
(* every size of the table and every way the HAL may fail: TvInv is        *)
(* inductive, and the table implements the map of TunerTable.              *)
(***************************************************************************)
EXTENDS TvHal, FiniteSetTheorems, FunctionTheorems, TLAPS

-----------------------------------------------------------------------------
(* The loops over the table.                                               *)

(* A device is found where it is listed, and nowhere else (tv_hal.c:66-69, *)
(* 93-97, 105-109, 229-233).                                               *)
LEMMA IndexOfListed ==
  TvTypeOK /\ ListedOnce =>
    \A d :
      /\ IndexOf(d) \in 0..device_num
      /\ IndexOf(d) < device_num =>
           IndexOf(d) \in Listed /\ device_list[IndexOf(d)].device_id = d
      /\ \A i \in Listed : device_list[i].device_id = d => IndexOf(d) = i
<1> SUFFICES ASSUME TvTypeOK, ListedOnce, NEW d
             PROVE  /\ IndexOf(d) \in 0..device_num
                    /\ IndexOf(d) < device_num =>
                         IndexOf(d) \in Listed /\ device_list[IndexOf(d)].device_id = d
                    /\ \A i \in Listed : device_list[i].device_id = d => IndexOf(d) = i
  OBVIOUS
<1> DEFINE found == {i \in Listed : device_list[i].device_id = d}
<1>1. device_num \in Nat
  BY MaxDeviceAssumption DEF TvTypeOK
<1>2. CASE found = {}
  <2>1. IndexOf(d) = device_num
    BY <1>2 DEF IndexOf
  <2> QED BY <1>1, <1>2, <2>1
<1>3. CASE found # {}
  <2>1. PICK i \in found : TRUE
    BY <1>3
  <2>2. found = {i}
    BY <2>1 DEF ListedOnce
  <2>3. IndexOf(d) = CHOOSE k \in found : \A j \in found : k <= j
    BY <1>3 DEF IndexOf
  <2>4. i \in Nat /\ i < device_num /\ i \in Listed
    BY <1>1, <2>1 DEF Listed
  <2>5. IndexOf(d) = i
    BY <2>2, <2>3, <2>4
  <2> QED BY <1>1, <2>1, <2>2, <2>4, <2>5
<1> QED BY <1>2, <1>3

(* No two entries are of one tuner, so there is an entry for each only in  *)
(* a table at least as long as there are tuners.                           *)
LEMMA ListedBound ==
  ASSUME TvTypeOK, ListedOnce, ListedAnnounced
  PROVE  /\ device_num <= Cardinality(Tuner)
         /\ \A d \in Tuner \ available : device_num < Cardinality(Tuner)
<1> DEFINE ids == [i \in 1..device_num |-> device_list[i - 1].device_id]
<1>1. device_num \in Nat /\ IsFiniteSet(Tuner)
  BY MaxDeviceAssumption, DeviceAssumption DEF TvTypeOK
<1>2. ASSUME NEW S \in SUBSET Tuner, available \intersect Tuner \subseteq S
      PROVE  device_num <= Cardinality(S)
  <2>1. IsFiniteSet(S)
    BY <1>1, FS_Subset
  <2>2. \A i \in 1..device_num : i - 1 \in Listed
    BY <1>1 DEF Listed
  <2>3. ids \in [1..device_num -> S]
    BY <1>2, <2>2 DEF ListedAnnounced
  <2>4. \A i, j \in 1..device_num : ids[i] = ids[j] => i = j
    BY <1>1, <2>2 DEF ListedOnce
  <2>5. ids \in Injection(1..device_num, S)
    BY <2>3, <2>4 DEF Injection, IsInjective
  <2>6. Cardinality(1..device_num) <= Cardinality(S)
    BY <2>1, <2>5, FS_Injection
  <2>7. Cardinality(1..device_num) = device_num
    BY <1>1, FS_Interval
  <2> QED BY <2>6, <2>7
<1>3. device_num <= Cardinality(Tuner)
  BY <1>2
<1>4. ASSUME NEW d \in Tuner \ available PROVE device_num < Cardinality(Tuner)
  <2>1. device_num <= Cardinality(Tuner \ {d})
    BY <1>2
  <2>2. Cardinality(Tuner \ {d}) = Cardinality(Tuner) - 1 /\ Cardinality(Tuner) \in Nat
    BY <1>1, FS_RemoveElement, FS_CardinalityType
  <2> QED BY <1>1, <2>1, <2>2
<1> QED BY <1>3, <1>4
-----------------------------------------------------------------------------
(* The changes of the table.                                               *)

(* What is behind the last entry is not listed. *)
LEMMA AddedEntry ==
  ASSUME TvTypeOK, ListedOnce, device_num < MAX_DEVICE_NUM, NEW d \in Device,
         \A i \in Listed : device_list[i].device_id # d, AddDevice(d)
  PROVE  /\ device_num' \in 0..MAX_DEVICE_NUM /\ device_list' \in [Slot -> Entry]
         /\ Listed' = Listed \union {device_num} /\ device_num \notin Listed
         /\ device_list'[device_num] = [device_id |-> d, acting_stream_id |-> NoStream]
         /\ \A i \in Listed : device_list'[i] = device_list[i]
         /\ ListedOnce'
<1>1. device_num \in Nat /\ device_num + 1 <= MAX_DEVICE_NUM
  BY MaxDeviceAssumption DEF TvTypeOK
<1>2. [device_id |-> d, acting_stream_id |-> NoStream] \in Entry
  BY DEF Entry
<1>3. device_num \in Slot /\ Listed \subseteq Slot
  BY <1>1, MaxDeviceAssumption DEF Slot, Listed
<1>4. /\ device_list' \in [Slot -> Entry]
      /\ device_list'[device_num] = [device_id |-> d, acting_stream_id |-> NoStream]
      /\ \A i \in Listed : device_list'[i] = device_list[i]
  BY <1>1, <1>2, <1>3 DEF AddDevice, TvTypeOK, Listed
<1>5. /\ device_num' = device_num + 1
      /\ Listed' = Listed \union {device_num} /\ device_num \notin Listed
  BY <1>1 DEF AddDevice, Listed
<1>6. ListedOnce'
  BY <1>4, <1>5 DEF ListedOnce
<1> QED BY <1>1, <1>4, <1>5, <1>6, MaxDeviceAssumption

(* remove_device_by_idx: the other entries stay listed, each once.         *)
LEMMA RemovedEntry ==
  ASSUME TvTypeOK, ListedOnce, NEW idx \in Listed, RemoveDeviceByIdx(idx)
  PROVE  /\ device_num' \in 0..MAX_DEVICE_NUM /\ device_list' \in [Slot -> Entry]
         /\ \A i \in Listed' : \E j \in Listed \ {idx} : device_list'[i] = device_list[j]
         /\ \A j \in Listed \ {idx} : \E i \in Listed' : device_list'[i] = device_list[j]
         /\ ListedOnce'
<1>1. device_num \in Nat /\ idx \in Nat /\ idx < device_num
      /\ device_num <= MAX_DEVICE_NUM /\ MAX_DEVICE_NUM \in Nat
  BY MaxDeviceAssumption DEF TvTypeOK, Listed
<1>2. device_num' = device_num - 1 /\ Listed' = 0..device_num - 2
  BY <1>1 DEF RemoveDeviceByIdx, Listed
<1>3. device_list' = [i \in Slot |->
        IF idx <= i /\ i < device_num - 1 THEN device_list[i + 1] ELSE device_list[i]]
  BY DEF RemoveDeviceByIdx
<1>4. device_list' \in [Slot -> Entry]
  BY <1>1, <1>3 DEF TvTypeOK, Slot
<1>5. \A i \in Listed' :
        device_list'[i] = device_list[IF idx <= i THEN i + 1 ELSE i]
  BY <1>1, <1>2, <1>3 DEF Slot
<1>6. \A i \in Listed' : (IF idx <= i THEN i + 1 ELSE i) \in Listed \ {idx}
  BY <1>1, <1>2 DEF Listed
<1>7. \A j \in Listed \ {idx} :
        LET i == IF idx < j THEN j - 1 ELSE j
        IN  i \in Listed' /\ j = IF idx <= i THEN i + 1 ELSE i
  BY <1>1, <1>2 DEF Listed
<1>8. ListedOnce'
  <2> SUFFICES ASSUME NEW i \in Listed', NEW j \in Listed',
                      device_list'[i].device_id = device_list'[j].device_id
               PROVE  i = j
    BY DEF ListedOnce
  <2>1. (IF idx <= i THEN i + 1 ELSE i) = (IF idx <= j THEN j + 1 ELSE j)
    BY <1>5, <1>6 DEF ListedOnce
  <2> QED BY <2>1, <1>1, <1>2
<1>9. device_num' \in 0..MAX_DEVICE_NUM
  BY <1>1, <1>2
<1>10. \A i \in Listed' : \E j \in Listed \ {idx} : device_list'[i] = device_list[j]
  BY <1>5, <1>6
<1>11. \A j \in Listed \ {idx} : \E i \in Listed' : device_list'[i] = device_list[j]
  BY <1>5, <1>7
<1> QED BY <1>4, <1>8, <1>9, <1>10, <1>11

(* A stream that is stored in an entry, be it listed or the one behind.    *)
LEMMA StoredStream ==
  ASSUME TvTypeOK, NEW idx \in Slot, NEW s \in {NoStream} \union Stream,
         device_list' = [device_list EXCEPT ![idx].acting_stream_id = s],
         UNCHANGED device_num
  PROVE  /\ device_list' \in [Slot -> Entry]
         /\ Listed' = Listed /\ Listed \subseteq Slot
         /\ \A i \in Slot : device_list'[i].device_id = device_list[i].device_id
         /\ \A i \in Slot \ {idx} : device_list'[i] = device_list[i]
         /\ device_list'[idx].acting_stream_id = s
<1>1. Listed' = Listed /\ Listed \subseteq Slot
  BY MaxDeviceAssumption DEF Listed, Slot, TvTypeOK
<1>2. \A i \in Slot : device_list[i] \in Entry
  BY DEF TvTypeOK
<1> QED BY <1>1, <1>2 DEF TvTypeOK, Entry

(* Closing streams opens none, and without faults leaves none open. *)
LEMMA ClosedStreams ==
  ASSUME TvTypeOK, NEW pairs, CloseStreams(pairs)
  PROVE  /\ opened' \subseteq opened
         /\ \A p \in opened \ pairs : p \in opened'
         /\ "close_stream" \notin HalFaults => opened' = opened \ pairs
BY DEF CloseStreams
-----------------------------------------------------------------------------
(* The inductive invariant.                                                *)

USE DEF NoStream

(* No device is known before the HAL is initialized. *)
LEMMA TvInvInit == TvInit => TvInv
<1> SUFFICES ASSUME TvInit PROVE TvInv
  OBVIOUS
<1>1. Listed = {} /\ opened = {} /\ running /\ opening = NotOpening
  BY DEF TvInit, Listed
<1>2. TvTypeOK
  <2>1. config \in [Device -> Stream \union {NoStream}]
    BY DEF TvInit
  <2>2. device_list \in [Slot -> Entry] /\ device_num \in 0..MAX_DEVICE_NUM
    BY MaxDeviceAssumption DEF TvInit, Entry
  <2> QED BY <2>1, <2>2 DEF TvInit, TvTypeOK
<1> QED
  BY <1>1, <1>2
  DEF TvInv, ListedOnce, ListedAnnounced, AllListed, DeviceOpen, OpeningCurrent,
      OpeningClosed, StreamsTracked, ActingIsOpen, WithinBounds, TvInit

(* Steps that leave the table, the announced devices and the registration  *)
(* as they are, apart from crashes.                                        *)
LEMMA KeepsTable ==
  ASSUME UNCHANGED <<tableVars, available, registered>>
  PROVE  /\ ListedOnce => ListedOnce'
         /\ ListedAnnounced => ListedAnnounced'
         /\ AllListed => AllListed'
         /\ Listed' = Listed
         /\ \A d : IndexOf(d)' = IndexOf(d)
         /\ \A i : Acting(i)' = Acting(i)
BY DEF tableVars, ListedOnce, ListedAnnounced, AllListed, Listed, IndexOf, Acting

(* A device is announced; a full table does not take it up. *)
LEMMA AvailableStep ==
  ASSUME TvInv, NEW d \in Device, DeviceAvailable(d)
  PROVE  TvInv'
<1>1. /\ running /\ notifying /\ d \notin available
      /\ available' = available \union {d}
      /\ UNCHANGED <<running, registered, device, opening, notifying, config, opened>>
      /\ Serial => opening = NotOpening
  BY DEF DeviceAvailable, Notified, Serial
<1>2. /\ TvTypeOK /\ ListedOnce /\ ListedAnnounced /\ AllListed /\ DeviceOpen
      /\ StreamsTracked /\ ActingIsOpen /\ WithinBounds
  BY DEF TvInv
<1>3. DeviceOpen' /\ OpeningCurrent' /\ OpeningClosed' /\ WithinBounds'
  BY <1>1, <1>2
  DEF DeviceOpen, OpeningCurrent, OpeningClosed, WithinBounds, Serial, RoomForAll
<1>4. CASE d \in Tuner /\ device_num < MAX_DEVICE_NUM
  <2>1. AddDevice(d)
    BY <1>4 DEF DeviceAvailable
  <2>2. \A i \in Listed : device_list[i].device_id # d
    BY <1>1, <1>2 DEF ListedAnnounced
  <2>3. /\ device_num' \in 0..MAX_DEVICE_NUM /\ device_list' \in [Slot -> Entry]
        /\ Listed' = Listed \union {device_num} /\ device_num \notin Listed
        /\ device_list'[device_num] = [device_id |-> d, acting_stream_id |-> NoStream]
        /\ \A i \in Listed : device_list'[i] = device_list[i]
        /\ ListedOnce'
    BY <1>2, <1>4, <2>1, <2>2, AddedEntry
  <2>4. TvTypeOK'
    BY <1>1, <1>2, <2>3 DEF TvTypeOK
  <2>5. ListedAnnounced' /\ AllListed'
    BY <1>1, <1>2, <1>4, <2>3
    DEF ListedAnnounced, AllListed, RoomForTuners
  <2>6. StreamsTracked'
    BY <1>1, <1>2, <2>3 DEF StreamsTracked, Acting, RoomForTuners, Serial
  <2>7. ActingIsOpen'
    BY <1>1, <1>2, <2>3 DEF ActingIsOpen, Acting, Serial
  <2> QED BY <1>3, <2>3, <2>4, <2>5, <2>6, <2>7 DEF TvInv
<1>5. CASE ~(d \in Tuner /\ device_num < MAX_DEVICE_NUM)
  <2>1. UNCHANGED tableVars
    BY <1>5 DEF DeviceAvailable
  <2>2. Listed' = Listed /\ UNCHANGED <<device_num, device_list>>
    BY <2>1 DEF tableVars, Listed
  <2>3. TvTypeOK'
    BY <1>1, <1>2, <2>2 DEF TvTypeOK
  <2>4. ListedOnce' /\ ListedAnnounced'
    BY <1>1, <1>2, <2>2 DEF ListedOnce, ListedAnnounced
  <2>5. AllListed'
    <3>1. CASE d \notin Tuner
      BY <1>1, <1>2, <2>2, <3>1 DEF AllListed, RoomForTuners
    <3>2. CASE d \in Tuner
      <4>1. device_num < Cardinality(Tuner)
        BY <1>1, <1>2, <3>2, ListedBound
      <4>2. ~RoomForTuners
        BY <1>2, <1>5, <3>2, <4>1, MaxDeviceAssumption, FS_CardinalityType,
           DeviceAssumption
        DEF RoomForTuners, TvTypeOK
      <4> QED BY <4>2 DEF AllListed, RoomForTuners
    <3> QED BY <3>1, <3>2
  <2>6. StreamsTracked' /\ ActingIsOpen'
    BY <1>1, <1>2, <2>2 DEF StreamsTracked, ActingIsOpen, Acting, RoomForTuners, Serial
  <2> QED BY <1>3, <2>3, <2>4, <2>5, <2>6 DEF TvInv
<1> QED BY <1>4, <1>5

(* A device is withdrawn: its stream is closed, its entry removed. *)
LEMMA UnavailableStep ==
  ASSUME TvInv, NEW d \in Device, DeviceUnavailable(d)
  PROVE  TvInv'
<1> DEFINE idx == IndexOf(d)
<1>1. /\ running /\ d \in available /\ available' = available \ {d}
      /\ UNCHANGED <<running, registered, device, opening, notifying, config>>
      /\ Serial => opening = NotOpening
  BY DEF DeviceUnavailable, Notified, Serial
<1>2. /\ TvTypeOK /\ ListedOnce /\ ListedAnnounced /\ AllListed /\ DeviceOpen
      /\ StreamsTracked /\ ActingIsOpen /\ WithinBounds
  BY DEF TvInv
<1>3. DeviceOpen' /\ OpeningCurrent' /\ OpeningClosed' /\ WithinBounds'
  BY <1>1, <1>2
  DEF DeviceOpen, OpeningCurrent, OpeningClosed, WithinBounds, Serial, RoomForAll
<1>4. /\ idx \in 0..device_num
      /\ idx < device_num => idx \in Listed /\ device_list[idx].device_id = d
      /\ \A i \in Listed : device_list[i].device_id = d => idx = i
  BY <1>2, IndexOfListed
<1> HIDE DEF idx
<1>5. CASE d \in Tuner /\ idx < device_num
  <2>1. CloseStreams({<<d, Acting(idx)>>}) /\ RemoveDeviceByIdx(idx)
    BY <1>5 DEF DeviceUnavailable, idx
  <2>2. idx \in Listed /\ device_list[idx].device_id = d
    BY <1>4, <1>5
  <2>3. /\ device_num' \in 0..MAX_DEVICE_NUM /\ device_list' \in [Slot -> Entry]
        /\ \A i \in Listed' : \E j \in Listed \ {idx} : device_list'[i] = device_list[j]
        /\ \A j \in Listed \ {idx} : \E i \in Listed' : device_list'[i] = device_list[j]
        /\ ListedOnce'
    BY <1>2, <2>1, <2>2, RemovedEntry
  <2>4. /\ opened' \subseteq opened
        /\ \A p \in opened \ {<<d, Acting(idx)>>} : p \in opened'
        /\ "close_stream" \notin HalFaults => opened' = opened \ {<<d, Acting(idx)>>}
    BY <1>2, <2>1, ClosedStreams
  <2>5. TvTypeOK'
    BY <1>1, <1>2, <2>3, <2>4 DEF TvTypeOK
  <2>6. \A j \in Listed \ {idx} : device_list[j].device_id # d
    BY <1>2, <2>2 DEF ListedOnce
  <2>7. ListedAnnounced'
    BY <1>1, <1>2, <2>3, <2>6 DEF ListedAnnounced
  <2>8. AllListed'
    <3> SUFFICES ASSUME RoomForTuners, registered, NEW e \in available \intersect Tuner, e # d
                 PROVE  \E i \in Listed' : device_list'[i].device_id = e
      BY <1>1 DEF AllListed, RoomForTuners
    <3>1. PICK j \in Listed : device_list[j].device_id = e
      BY <1>2 DEF AllListed
    <3> QED BY <2>2, <2>3, <3>1
  <2>9. StreamsTracked'
    <3> SUFFICES ASSUME Serial, RoomForTuners, "close_stream" \notin HalFaults,
                        NEW e \in Tuner, NEW s \in Stream, <<e, s>> \in opened'
                 PROVE  /\ registered'
                        /\ \E i \in Listed' :
                             /\ device_list'[i].device_id = e
                             /\ device_list'[i].acting_stream_id = s
      BY DEF StreamsTracked, Acting, Serial, RoomForTuners
    <3>1. <<e, s>> \in opened /\ <<e, s>> # <<d, Acting(idx)>>
      BY <2>4
    <3>2. PICK j \in Listed : device_list[j].device_id = e /\ Acting(j) = s
      BY <1>2, <3>1 DEF StreamsTracked
    <3>3. j # idx
      BY <2>2, <3>1, <3>2
    <3> QED BY <1>1, <1>2, <2>3, <3>1, <3>2, <3>3 DEF Acting, StreamsTracked
  <2>10. ActingIsOpen'
    <3> SUFFICES ASSUME Serial, registered, NEW i \in Listed'
                 PROVE  LET e == device_list'[i].device_id
                            s == device_list'[i].acting_stream_id
                        IN  \/ s = NoStream
                            \/ e \in OpenFails \union {opening.device_id}
                            \/ <<e, s>> \in opened'
      BY <1>1 DEF ActingIsOpen, Acting, Serial
    <3>1. PICK j \in Listed \ {idx} : device_list'[i] = device_list[j]
      BY <2>3
    <3>2. \/ Acting(j) = NoStream
          \/ device_list[j].device_id \in OpenFails \union {opening.device_id}
          \/ <<device_list[j].device_id, Acting(j)>> \in opened
      BY <1>2 DEF ActingIsOpen
    <3>3. device_list[j].device_id # d
      BY <2>6
    <3> QED BY <2>4, <3>1, <3>2, <3>3 DEF Acting
  <2> QED BY <1>3, <2>3, <2>5, <2>7, <2>8, <2>9, <2>10 DEF TvInv
<1>6. CASE ~(d \in Tuner /\ idx < device_num)
  <2>1. UNCHANGED <<tableVars, opened>>
    BY <1>6 DEF DeviceUnavailable, idx
  <2>2. Listed' = Listed /\ UNCHANGED <<device_num, device_list, opened>>
    BY <2>1 DEF tableVars, Listed
  <2>3. TvTypeOK'
    BY <1>1, <1>2, <2>2 DEF TvTypeOK
  <2>4. \A i \in Listed : device_list[i].device_id # d
    <3>1. \A i \in Listed : i < device_num
      BY <1>2, MaxDeviceAssumption DEF Listed, TvTypeOK
    <3> QED BY <1>2, <1>4, <1>6, <3>1 DEF ListedAnnounced
  <2>5. ListedOnce' /\ ListedAnnounced' /\ AllListed'
    BY <1>1, <1>2, <2>2, <2>4 DEF ListedOnce, ListedAnnounced, AllListed, RoomForTuners
  <2>6. StreamsTracked' /\ ActingIsOpen'
    BY <1>1, <1>2, <2>2 DEF StreamsTracked, ActingIsOpen, Acting, RoomForTuners, Serial
  <2> QED BY <1>3, <2>3, <2>5, <2>6 DEF TvInv
<1> QED BY <1>5, <1>6

(* A device changes its streams: the one that is open is closed. *)
LEMMA ConfigurationsStep ==
  ASSUME TvInv, NEW d \in Device, StreamConfigurationsChanged(d)
  PROVE  TvInv'
<1> DEFINE idx == IndexOf(d)
<1>1. /\ running /\ d \in available \intersect Tuner /\ idx < device_num
      /\ UNCHANGED <<running, registered, device, opening, notifying, available, config>>
      /\ Serial => opening = NotOpening
      /\ CloseStreams({<<d, Acting(idx)>>}) /\ ForgetStream(idx)
  BY DEF StreamConfigurationsChanged, Notified, Serial
<1>2. /\ TvTypeOK /\ ListedOnce /\ ListedAnnounced /\ AllListed /\ DeviceOpen
      /\ StreamsTracked /\ ActingIsOpen /\ WithinBounds
  BY DEF TvInv
<1>3. DeviceOpen' /\ OpeningCurrent' /\ OpeningClosed' /\ WithinBounds'
  BY <1>1, <1>2
  DEF DeviceOpen, OpeningCurrent, OpeningClosed, WithinBounds, Serial, RoomForAll
<1>4. idx \in Listed /\ device_list[idx].device_id = d
  BY <1>1, <1>2, IndexOfListed
<1>5. idx \in Slot
  BY <1>2, <1>4, MaxDeviceAssumption DEF Listed, Slot, TvTypeOK
<1> HIDE DEF idx
<1>6. /\ device_list' \in [Slot -> Entry]
      /\ Listed' = Listed /\ Listed \subseteq Slot
      /\ \A i \in Slot : device_list'[i].device_id = device_list[i].device_id
      /\ \A i \in Slot \ {idx} : device_list'[i] = device_list[i]
      /\ device_list'[idx].acting_stream_id = NoStream
      /\ UNCHANGED device_num
  BY <1>1, <1>2, <1>5, StoredStream DEF ForgetStream
<1>7. /\ opened' \subseteq opened
      /\ \A p \in opened \ {<<d, Acting(idx)>>} : p \in opened'
      /\ "close_stream" \notin HalFaults => opened' = opened \ {<<d, Acting(idx)>>}
  BY <1>1, <1>2, ClosedStreams
<1>8. TvTypeOK'
  BY <1>1, <1>2, <1>6, <1>7 DEF TvTypeOK
<1>9. ListedOnce' /\ ListedAnnounced' /\ AllListed'
  BY <1>1, <1>2, <1>6 DEF ListedOnce, ListedAnnounced, AllListed, RoomForTuners
<1>10. StreamsTracked'
  <2> SUFFICES ASSUME Serial, RoomForTuners, "close_stream" \notin HalFaults,
                      NEW e \in Tuner, NEW s \in Stream, <<e, s>> \in opened'
               PROVE  /\ registered'
                      /\ \E i \in Listed' : /\ device_list'[i].device_id = e
                                            /\ device_list'[i].acting_stream_id = s
    BY DEF StreamsTracked, Acting, Serial, RoomForTuners
  <2>1. <<e, s>> \in opened /\ <<e, s>> # <<d, Acting(idx)>>
    BY <1>7
  <2>2. PICK j \in Listed : device_list[j].device_id = e /\ Acting(j) = s
    BY <1>2, <2>1 DEF StreamsTracked
  <2>3. j # idx
    BY <1>4, <2>1, <2>2
  <2>4. registered
    BY <1>2, <2>1 DEF StreamsTracked
  <2> QED BY <1>1, <1>6, <2>2, <2>3, <2>4 DEF Acting
<1>11. ActingIsOpen'
  <2> SUFFICES ASSUME Serial, registered, NEW i \in Listed, i # idx
               PROVE  LET e == device_list'[i].device_id
                          s == device_list'[i].acting_stream_id
                      IN  \/ s = NoStream
                          \/ e \in OpenFails \union {opening.device_id}
                          \/ <<e, s>> \in opened'
    BY <1>1, <1>6 DEF ActingIsOpen, Acting, Serial
  <2>1. device_list'[i] = device_list[i]
    BY <1>6
  <2>2. device_list[i].device_id # d
    BY <1>2, <1>4 DEF ListedOnce
  <2> QED BY <1>2, <1>7, <2>1, <2>2 DEF Acting, ActingIsOpen
<1> QED BY <1>3, <1>8, <1>9, <1>10, <1>11 DEF TvInv

(* A crash changes nothing else, and needs a NULL device, which it has     *)
(* only after opening the HAL again has failed, or a full table.           *)
LEMMA UndefinedStep ==
  ASSUME TvInv, Undefined,
         Serial /\ RoomForAll => "reopen" \in HalFaults
  PROVE  TvInv'
<1>1. /\ running' = FALSE
      /\ UNCHANGED <<registered, device, device_num, device_list, opening, notifying,
                     available, config, opened>>
  BY DEF Undefined, tableVars, halVars
<1>2. Listed' = Listed /\ \A d : IndexOf(d)' = IndexOf(d)
  BY <1>1 DEF Listed, IndexOf
<1>3. TvTypeOK'
  BY <1>1 DEF TvInv, TvTypeOK
<1>4. ListedOnce' /\ ListedAnnounced' /\ AllListed' /\ DeviceOpen'
  BY <1>1, <1>2
  DEF TvInv, ListedOnce, ListedAnnounced, AllListed, DeviceOpen, RoomForTuners
<1>5. OpeningCurrent' /\ OpeningClosed'
  BY <1>1, <1>2 DEF TvInv, OpeningCurrent, OpeningClosed, Serial, RoomForTuners
<1>6. StreamsTracked' /\ ActingIsOpen'
  BY <1>1, <1>2
  DEF TvInv, StreamsTracked, ActingIsOpen, Acting, Serial, RoomForTuners
<1>7. WithinBounds'
  BY DEF WithinBounds, Serial, RoomForAll
<1> QED BY <1>3, <1>4, <1>5, <1>6, <1>7 DEF TvInv

(* An event for a listed tuner while there is no device. *)
LEMMA WithoutDeviceStep ==
  ASSUME TvInv, NEW d \in Device, NotifiedWithoutDevice(d)
  PROVE  TvInv'
<1>1. notifying /\ device = "null" /\ Undefined
  BY DEF NotifiedWithoutDevice, Notified
<1>2. "reopen" \in HalFaults
  BY <1>1 DEF TvInv, DeviceOpen
<1> QED BY <1>1, <1>2, UndefinedStep

(* A device offers another stream before it says so. *)
LEMMA ReconfigureStep ==
  ASSUME TvInv, NEW d \in Device, NEW s \in StreamsOf[d] \union {NoStream},
         Reconfigure(d, s)
  PROVE  TvInv'
<1>1. /\ UNCHANGED <<running, registered, device, device_num, device_list, opening,
                     notifying, available, opened>>
      /\ Serial => opening = NotOpening
      /\ config' = [config EXCEPT ![d] = s]
  BY DEF Reconfigure, tableVars, Serial
<1>2. Listed' = Listed
  BY <1>1 DEF Listed
<1>3. TvTypeOK'
  BY <1>1, StreamsOfAssumption DEF TvInv, TvTypeOK, Device
<1>4. ListedOnce' /\ ListedAnnounced' /\ AllListed' /\ DeviceOpen' /\ WithinBounds'
  BY <1>1, <1>2
  DEF TvInv, ListedOnce, ListedAnnounced, AllListed, DeviceOpen, WithinBounds,
      RoomForTuners, Serial, RoomForAll
<1>5. OpeningCurrent' /\ OpeningClosed'
  BY <1>1 DEF OpeningCurrent, OpeningClosed, Serial
<1>6. StreamsTracked' /\ ActingIsOpen'
  BY <1>1, <1>2
  DEF TvInv, StreamsTracked, ActingIsOpen, Acting, Serial, RoomForTuners
<1> QED BY <1>3, <1>4, <1>5, <1>6 DEF TvInv
-----------------------------------------------------------------------------
(* Registration.                                                           *)

(* A step after which no device is listed, and none was registered.        *)
LEMMA EmptiedTable ==
  ASSUME TvInv, ~registered, device_num' = 0, device_list' = device_list,
         opening = NotOpening, UNCHANGED <<running, opening, config, opened>>,
         registered' \in BOOLEAN, registered' => available' = {},
         notifying' \in BOOLEAN, available' \subseteq Device,
         device' \in {"null", "open"}, DeviceOpen'
  PROVE  TvInv'
<1>1. Listed' = {}
  BY DEF Listed
<1>2. TvTypeOK'
  BY MaxDeviceAssumption DEF TvInv, TvTypeOK
<1>3. ListedOnce' /\ ListedAnnounced' /\ AllListed' /\ ActingIsOpen'
  BY <1>1 DEF ListedOnce, ListedAnnounced, AllListed, ActingIsOpen
<1>4. OpeningCurrent' /\ OpeningClosed' /\ WithinBounds'
  BY DEF TvInv, OpeningCurrent, OpeningClosed, WithinBounds, Serial, RoomForAll
<1>5. StreamsTracked'
  BY DEF TvInv, StreamsTracked, Serial, RoomForTuners
<1> QED BY <1>2, <1>3, <1>4, <1>5 DEF TvInv

(* register_dtv and its ways to fail. *)
LEMMA RegisterStep ==
  ASSUME TvInv, Register \/ RegisterFails \/ RegisterFailsInHal
  PROVE  TvInv'
<1>1. CASE Register \/ RegisterFails
  BY <1>1, EmptiedTable
  DEF Register, RegisterFails, InitHal, InCommand, DeviceOpen, TvInv, TvTypeOK
<1>2. CASE RegisterFailsInHal
  BY <1>2, EmptiedTable
  DEF RegisterFailsInHal, InCommand, DeviceOpen, tableVars, halVars, TvInv, TvTypeOK
<1> QED BY <1>1, <1>2

(* tv_input_hal_uninit closes every tuner's stream. *)
LEMMA UnregisterStep ==
  ASSUME TvInv, Unregister
  PROVE  TvInv'
<1>1. /\ UNCHANGED <<running, device, device_num, device_list, opening, notifying,
                     available, config>>
      /\ opening = NotOpening /\ ~registered'
  BY DEF Unregister, InCommand, tableVars
<1>2. /\ TvTypeOK /\ ListedOnce /\ ListedAnnounced /\ DeviceOpen
      /\ StreamsTracked /\ WithinBounds
  BY DEF TvInv
<1>3. Listed' = Listed
  BY <1>1 DEF Listed
<1>4. /\ opened' \subseteq opened
      /\ \/ device_num = 0 /\ opened' = opened
         \/ "close_stream" \notin HalFaults => opened' = opened \ ActingStreams
  BY <1>2, ClosedStreams DEF Unregister, StreamsToClose
<1>5. TvTypeOK'
  BY <1>1, <1>2, <1>4 DEF TvTypeOK, Unregister
<1>6. ListedOnce' /\ ListedAnnounced' /\ AllListed' /\ DeviceOpen'
  BY <1>1, <1>2, <1>3 DEF ListedOnce, ListedAnnounced, AllListed, DeviceOpen
<1>7. OpeningCurrent' /\ OpeningClosed' /\ WithinBounds' /\ ActingIsOpen'
  BY <1>1, <1>2
  DEF OpeningCurrent, OpeningClosed, WithinBounds, ActingIsOpen, Serial, RoomForAll
<1>8. StreamsTracked'
  <2> SUFFICES ASSUME Serial, RoomForTuners, "close_stream" \notin HalFaults,
                      NEW d \in Tuner, NEW s \in Stream, <<d, s>> \in opened'
               PROVE  FALSE
    BY DEF StreamsTracked, Serial, RoomForTuners
  <2>1. PICK i \in Listed : device_list[i].device_id = d /\ Acting(i) = s
    BY <1>2, <1>4 DEF StreamsTracked
  <2>2. Acting(i) # NoStream
    BY <2>1, StreamAssumption
  <2>3. <<d, s>> \in ActingStreams
    BY <2>1, <2>2 DEF ActingStreams
  <2>4. device_num # 0
    BY <2>1 DEF Listed
  <2> QED BY <1>4, <2>3, <2>4
<1> QED BY <1>5, <1>6, <1>7, <1>8 DEF TvInv
-----------------------------------------------------------------------------
(* tv_input_hal_get_stream.                                                *)

(* The acting stream is closed, another one is about to be opened. *)
LEMMA SelectStep ==
  ASSUME TvInv, NEW d \in Device, SelectStream(d)
  PROVE  TvInv'
<1> DEFINE idx == IndexOf(d)
           old == IF idx < device_num THEN Acting(idx) ELSE NoStream
<1>1. /\ opening = NotOpening /\ registered /\ Offered(d) /\ old # config[d]
      /\ IF old = NoStream THEN UNCHANGED opened
         ELSE <<d, old>> \in opened /\ opened' = opened \ {<<d, old>>}
      /\ opening' = [device_id |-> d, stream |-> config[d], idx |-> idx]
      /\ UNCHANGED <<running, registered, device, device_num, device_list, notifying,
                     available, config>>
  BY DEF SelectStream, InCommand, tableVars
<1>2. /\ TvTypeOK /\ ListedOnce /\ ListedAnnounced /\ AllListed /\ DeviceOpen
      /\ StreamsTracked /\ ActingIsOpen /\ WithinBounds
  BY DEF TvInv
<1>3. Listed' = Listed /\ \A e : IndexOf(e)' = IndexOf(e)
  BY <1>1 DEF Listed, IndexOf
<1>4. /\ idx \in 0..device_num
      /\ idx < device_num => idx \in Listed /\ device_list[idx].device_id = d
      /\ \A i \in Listed : device_list[i].device_id = d => idx = i
  BY <1>2, IndexOfListed
<1>5. opened' \subseteq opened /\ \A p \in opened : p[1] # d => p \in opened'
  BY <1>1
<1>6. TvTypeOK'
  <2>1. config[d] \in Stream /\ idx \in 0..MAX_DEVICE_NUM
    BY <1>1, <1>2, <1>4, MaxDeviceAssumption DEF Offered, TvTypeOK
  <2>2. opening' \in Opening
    BY <1>1, <2>1 DEF Opening
  <2> HIDE DEF idx, old
  <2> QED BY <1>1, <1>2, <1>5, <2>2 DEF TvTypeOK
<1>7. ListedOnce' /\ ListedAnnounced' /\ AllListed' /\ DeviceOpen' /\ WithinBounds'
  BY <1>1, <1>2, <1>3
  DEF ListedOnce, ListedAnnounced, AllListed, DeviceOpen, WithinBounds,
      RoomForTuners, Serial, RoomForAll
<1>8. OpeningCurrent'
  BY <1>1, <1>3 DEF OpeningCurrent, Offered, Serial
<1>9. OpeningClosed'
  <2> SUFFICES ASSUME Serial, RoomForTuners, "close_stream" \notin HalFaults,
                      d \in Tuner, NEW s \in Stream, <<d, s>> \in opened'
               PROVE  FALSE
    BY <1>1 DEF OpeningClosed, Serial, RoomForTuners
  <2>1. PICK i \in Listed : device_list[i].device_id = d /\ Acting(i) = s
    BY <1>2, <1>5 DEF StreamsTracked
  <2>2. idx = i /\ i < device_num
    BY <1>2, <1>4, <2>1, MaxDeviceAssumption DEF Listed, TvTypeOK
  <2>3. old = s /\ s # NoStream
    BY <2>1, <2>2, StreamAssumption
  <2> QED BY <1>1, <2>3
<1>10. StreamsTracked'
  BY <1>1, <1>2, <1>3, <1>5
  DEF StreamsTracked, Acting, Serial, RoomForTuners
<1>11. ActingIsOpen'
  <2> SUFFICES ASSUME Serial, registered, NEW i \in Listed,
                      device_list[i].device_id # d
               PROVE  \/ Acting(i) = NoStream
                      \/ device_list[i].device_id \in OpenFails
                      \/ <<device_list[i].device_id, Acting(i)>> \in opened'
    BY <1>1, <1>3 DEF ActingIsOpen, Acting, Serial
  <2>1. device_list[i].device_id # opening.device_id
    <3>1. device_list[i].device_id \in Nat
      BY <1>2, DeviceAssumption DEF ListedAnnounced
    <3> QED BY <1>1, <3>1 DEF NotOpening
  <2> QED BY <1>2, <1>5, <2>1 DEF ActingIsOpen
<1> QED BY <1>6, <1>7, <1>8, <1>9, <1>10, <1>11 DEF TvInv

(* The stream cannot be opened: the entry keeps the closed one. *)
LEMMA OpenFailsStep ==
  ASSUME TvInv, OpenStreamFails
  PROVE  TvInv'
<1>1. /\ opening # NotOpening /\ opening' = NotOpening
      /\ opening.device_id \in OpenFails \/ opening.device_id \notin available
      /\ UNCHANGED <<running, registered, device, device_num, device_list, notifying,
                     available, config, opened>>
  BY DEF OpenStreamFails, tableVars, halVars
<1>2. Listed' = Listed
  BY <1>1 DEF Listed
<1>3. TvTypeOK' /\ OpeningCurrent' /\ OpeningClosed'
  BY <1>1 DEF TvInv, TvTypeOK, OpeningCurrent, OpeningClosed
<1>4. ListedOnce' /\ ListedAnnounced' /\ AllListed' /\ DeviceOpen' /\ WithinBounds'
  BY <1>1, <1>2
  DEF TvInv, ListedOnce, ListedAnnounced, AllListed, DeviceOpen, WithinBounds,
      RoomForTuners, Serial, RoomForAll
<1>5. StreamsTracked'
  BY <1>1, <1>2 DEF TvInv, StreamsTracked, Acting, Serial, RoomForTuners
<1>6. ActingIsOpen'
  <2>1. Serial => opening.device_id \in OpenFails
    BY <1>1 DEF TvInv, OpeningCurrent
  <2> QED BY <1>1, <1>2, <2>1 DEF TvInv, ActingIsOpen, Acting, Serial
<1> QED BY <1>3, <1>4, <1>5, <1>6 DEF TvInv

(* The stream is open and recorded, for a device without an entry behind   *)
(* the last one.                                                           *)
LEMMA OpenStep ==
  ASSUME TvInv, OpenStream
  PROVE  TvInv'
<1> DEFINE d == opening.device_id
           s == opening.stream
           idx == opening.idx
<1>1. /\ running /\ opening # NotOpening /\ opening' = NotOpening
      /\ d \in available /\ idx < MAX_DEVICE_NUM
      /\ opened' = opened \union {<<d, s>>}
      /\ device_list' = [device_list EXCEPT ![idx].acting_stream_id = s]
      /\ UNCHANGED <<running, registered, device, device_num, notifying, available, config>>
  BY DEF OpenStream
<1>2. /\ TvTypeOK /\ ListedOnce /\ ListedAnnounced /\ AllListed /\ DeviceOpen
      /\ StreamsTracked /\ ActingIsOpen /\ WithinBounds
      /\ OpeningCurrent /\ OpeningClosed
  BY DEF TvInv
<1>3. d \in Device /\ s \in Stream /\ idx \in Slot
  <2>1. opening \in Opening
    BY <1>1, <1>2 DEF TvTypeOK
  <2> QED BY <1>1, <2>1, MaxDeviceAssumption DEF Opening, Slot
<1>4. /\ device_list' \in [Slot -> Entry]
      /\ Listed' = Listed /\ Listed \subseteq Slot
      /\ \A i \in Slot : device_list'[i].device_id = device_list[i].device_id
      /\ \A i \in Slot \ {idx} : device_list'[i] = device_list[i]
      /\ device_list'[idx].acting_stream_id = s
  BY <1>1, <1>2, <1>3, StoredStream
<1>5. Serial => /\ registered
                /\ idx < device_num => idx \in Listed /\ device_list[idx].device_id = d
                /\ \A i \in Listed : device_list[i].device_id = d => idx = i
  <2>1. Serial => registered /\ idx = IndexOf(d)
    BY <1>1, <1>2 DEF OpeningCurrent
  <2> QED BY <1>2, <2>1, IndexOfListed
<1>6. TvTypeOK'
  BY <1>1, <1>2, <1>3, <1>4 DEF TvTypeOK
<1> HIDE DEF d, s, idx
<1>7. ListedOnce' /\ ListedAnnounced' /\ AllListed' /\ DeviceOpen' /\ WithinBounds'
  BY <1>1, <1>2, <1>4
  DEF ListedOnce, ListedAnnounced, AllListed, DeviceOpen, WithinBounds,
      RoomForTuners, Serial, RoomForAll
<1>8. OpeningCurrent' /\ OpeningClosed'
  BY <1>1 DEF OpeningCurrent, OpeningClosed
<1>9. StreamsTracked'
  <2> SUFFICES ASSUME Serial, RoomForTuners, "close_stream" \notin HalFaults,
                      NEW e \in Tuner, NEW t \in Stream, <<e, t>> \in opened'
               PROVE  /\ registered
                      /\ \E i \in Listed : /\ device_list'[i].device_id = e
                                           /\ device_list'[i].acting_stream_id = t
    BY <1>1, <1>4 DEF StreamsTracked, Acting, Serial, RoomForTuners
  <2>1. CASE e = d
    <3>1. <<e, t>> \notin opened
      BY <1>1, <1>2, <2>1 DEF OpeningClosed, d
    <3>2. t = s
      BY <1>1, <3>1
    <3>3. PICK i \in Listed : device_list[i].device_id = d
      BY <1>1, <1>2, <1>5, <2>1 DEF AllListed
    <3>4. idx = i
      BY <1>5, <3>3
    <3> QED BY <1>4, <1>5, <2>1, <3>2, <3>3, <3>4
  <2>2. CASE e # d
    <3>1. <<e, t>> \in opened
      BY <1>1, <2>2
    <3>2. PICK i \in Listed : device_list[i].device_id = e /\ Acting(i) = t
      BY <1>2, <3>1 DEF StreamsTracked
    <3>3. i # idx
      BY <1>2, <1>5, <2>2, <3>2, MaxDeviceAssumption DEF Listed, TvTypeOK
    <3> QED BY <1>4, <1>5, <3>2, <3>3 DEF Acting
  <2> QED BY <2>1, <2>2
<1>10. ActingIsOpen'
  <2> SUFFICES ASSUME Serial, registered, NEW i \in Listed
               PROVE  \/ device_list'[i].acting_stream_id = NoStream
                      \/ device_list'[i].device_id \in OpenFails
                      \/ <<device_list'[i].device_id, device_list'[i].acting_stream_id>>
                           \in opened'
    BY <1>1, <1>4 DEF ActingIsOpen, Acting, Serial
  <2>1. CASE i = idx
    <3>1. device_list[i].device_id = d
      BY <1>2, <1>5, <2>1, MaxDeviceAssumption DEF Listed, TvTypeOK
    <3> QED BY <1>1, <1>3, <1>4, <2>1, <3>1
  <2>2. CASE i # idx
    <3>1. device_list'[i] = device_list[i]
      BY <1>4, <2>2
    <3>2. device_list[i].device_id = d => i = idx
      BY <1>5
    <3> QED BY <1>1, <1>2, <2>2, <3>1, <3>2 DEF ActingIsOpen, Acting, d
  <2> QED BY <2>1, <2>2
<1> QED BY <1>6, <1>7, <1>8, <1>9, <1>10 DEF TvInv

(* An entry behind the table needs a table that all tuners fill.           *)
LEMMA OverrunStep ==
  ASSUME TvInv, OpenStreamOverrun
  PROVE  TvInv'
<1>1. opening # NotOpening /\ opening.idx = MAX_DEVICE_NUM /\ Undefined
  BY DEF OpenStreamOverrun
<1>2. ~(Serial /\ RoomForAll)
  <2> SUFFICES ASSUME Serial, RoomForAll PROVE FALSE
    OBVIOUS
  <2>1. opening.idx = IndexOf(opening.device_id)
    BY <1>1 DEF TvInv, OpeningCurrent
  <2>2. IndexOf(opening.device_id) \in 0..device_num
    BY IndexOfListed DEF TvInv
  <2>3. device_num <= Cardinality(Tuner)
    BY ListedBound DEF TvInv
  <2>4. device_num \in Nat /\ Cardinality(Tuner) \in Nat
    BY MaxDeviceAssumption, DeviceAssumption, FS_CardinalityType DEF TvInv, TvTypeOK
  <2> QED BY <1>1, <2>1, <2>2, <2>3, <2>4, MaxDeviceAssumption DEF RoomForAll
<1> QED BY <1>1, <1>2, UndefinedStep
-----------------------------------------------------------------------------
(* Every step of the wrapper and of the HAL keeps the invariant. *)
THEOREM TvInvInductive == TvInv /\ [TvNext]_tvVars => TvInv'
<1> SUFFICES ASSUME TvInv, [TvNext]_tvVars PROVE TvInv'
  OBVIOUS
<1>1. CASE Hardware
  BY <1>1, AvailableStep, UnavailableStep, ConfigurationsStep, WithoutDeviceStep,
     ReconfigureStep
  DEF Hardware
<1>2. CASE Registration
  BY <1>2, RegisterStep, UnregisterStep DEF Registration
<1>3. CASE GetStream
  BY <1>3, SelectStep, OpenStep, OpenFailsStep, OverrunStep DEF GetStream
<1>4. CASE UNCHANGED tvVars
  <2>1. /\ UNCHANGED <<running, registered, device, device_num, device_list, opening,
                       notifying, available, config, opened>>
        /\ Listed' = Listed /\ \A d : IndexOf(d)' = IndexOf(d)
    BY <1>4 DEF tvVars, tableVars, halVars, Listed, IndexOf
  <2>2. TvTypeOK'
    BY <2>1 DEF TvInv, TvTypeOK
  <2>3. ListedOnce' /\ ListedAnnounced' /\ AllListed' /\ DeviceOpen' /\ WithinBounds'
    BY <2>1
    DEF TvInv, ListedOnce, ListedAnnounced, AllListed, DeviceOpen, WithinBounds,
        RoomForTuners, Serial, RoomForAll
  <2>4. OpeningCurrent' /\ OpeningClosed'
    BY <2>1 DEF TvInv, OpeningCurrent, OpeningClosed, Serial, RoomForTuners
  <2>5. StreamsTracked' /\ ActingIsOpen'
    BY <2>1 DEF TvInv, StreamsTracked, ActingIsOpen, Acting, Serial, RoomForTuners
  <2> QED BY <2>2, <2>3, <2>4, <2>5 DEF TvInv
<1> QED BY <1>1, <1>2, <1>3, <1>4 DEF TvNext

(* What holds of the wrapper whatever calls it. *)
THEOREM TvInvInvariant == TvSpec => []TvInv
BY TvInvInit, TvInvInductive, PTL DEF TvSpec

(* Types of the wrapper's state (tv_hal.c:19-33). *)
THEOREM TvTypeCorrect == TvSpec => []TvTypeOK
BY TvInvInvariant, PTL DEF TvInv

(* The table lists the announced tuners. *)
LEMMA TvInvMatches == TvInv => TableMatchesHal
BY DEF TvInv, TableMatchesHal, ListedOnce, ListedAnnounced, AllListed

(* No order of notifications, registrations and stream selections loses or *)
(* doubles an entry (tv_hal.c:35-116).                                     *)
THEOREM TableIsFaithful == TvSpec => []TableMatchesHal
BY TvInvInvariant, TvInvMatches, PTL

(* Every open stream of a tuner has an entry that will close it            *)
(* (tv_hal.c:93-166, 236-267).                                             *)
THEOREM NoStreamIsLost == TvSpec => []StreamsTracked
BY TvInvInvariant, PTL DEF TvInv

(* A recorded stream is open, save for devices whose open_stream may fail. *)
THEOREM NoStreamIsStale == TvSpec => []ActingIsOpen
BY TvInvInvariant, PTL DEF TvInv

(* Neither a NULL device nor the entry behind the table is used.           *)
THEOREM NoOverrun == TvSpec => []WithinBounds
BY TvInvInvariant, PTL DEF TvInv
-----------------------------------------------------------------------------
(* The array implements the map of TunerTable.                             *)

(* The map that a table of distinct tuners stands for. *)
LEMMA TableEntries ==
  TvInv =>
    /\ Table = [d \in DOMAIN Table |-> Table[d]]
    /\ DOMAIN Table = {device_list[i].device_id : i \in Listed}
    /\ \A i \in Listed : Table[device_list[i].device_id] = Acting(i)
<1> SUFFICES ASSUME TvInv
             PROVE  /\ Table = [d \in DOMAIN Table |-> Table[d]]
                    /\ DOMAIN Table = {device_list[i].device_id : i \in Listed}
                    /\ \A i \in Listed : Table[device_list[i].device_id] = Acting(i)
  OBVIOUS
<1>1. \A i \in Listed : IndexOf(device_list[i].device_id) = i
  BY IndexOfListed DEF TvInv
<1> QED BY <1>1 DEF Table

(* The same of the next state. *)
LEMMA TableEntriesNext ==
  ASSUME TvInv'
  PROVE  /\ Table' = [d \in DOMAIN Table' |-> Table'[d]]
         /\ DOMAIN Table' = {device_list'[i].device_id : i \in Listed'}
         /\ \A i \in Listed' : Table'[device_list'[i].device_id] = Acting(i)'
<1>1. (TvInv =>
        /\ Table = [d \in DOMAIN Table |-> Table[d]]
        /\ DOMAIN Table = {device_list[i].device_id : i \in Listed}
        /\ \A i \in Listed : Table[device_list[i].device_id] = Acting(i))'
  BY TableEntries, PTL
<1> QED BY <1>1

(* A step that changes no listed entry does not change the map.            *)
LEMMA TableUnchanged ==
  ASSUME TvInv, TvInv', Listed' = Listed,
         \A i \in Listed : device_list'[i] = device_list[i]
  PROVE  Table' = Table
<1>1. DOMAIN Table' = DOMAIN Table
  BY TableEntries, TableEntriesNext
<1>2. \A d \in DOMAIN Table : Table'[d] = Table[d]
  <2> SUFFICES ASSUME NEW i \in Listed
               PROVE  Table'[device_list[i].device_id] = Table[device_list[i].device_id]
    BY TableEntries
  <2> QED BY TableEntries, TableEntriesNext DEF Acting
<1> HIDE DEF Table
<1> QED BY <1>1, <1>2, TableEntries, TableEntriesNext

(* An added entry is an announced tuner without a stream. *)
LEMMA AddRefines ==
  ASSUME TvInv, TvInv', NEW d \in Tuner, d \notin available,
         device_num < MAX_DEVICE_NUM, AddDevice(d)
  PROVE  T!Announce(d)
<1>1. \A i \in Listed : device_list[i].device_id # d
  BY DEF TvInv, ListedAnnounced
<1>2. /\ Listed' = Listed \union {device_num}
      /\ device_list'[device_num] = [device_id |-> d, acting_stream_id |-> NoStream]
      /\ \A i \in Listed : device_list'[i] = device_list[i]
  BY <1>1, AddedEntry DEF TvInv, Device
<1> DEFINE new == [e \in DOMAIN Table \union {d} |-> IF e = d THEN NoStream ELSE Table[e]]
<1> HIDE DEF Table
<1>3. d \notin DOMAIN Table
  BY <1>1, TableEntries
<1>4. DOMAIN Table' = DOMAIN Table \union {d}
  BY <1>2, TableEntries, TableEntriesNext
<1>5. \A i \in Listed' : Table'[device_list'[i].device_id] = new[device_list'[i].device_id]
  <2> TAKE i \in Listed'
  <2>1. Table'[device_list'[i].device_id] = device_list'[i].acting_stream_id
    BY TableEntriesNext DEF Acting
  <2>2. CASE i = device_num
    BY <1>2, <1>4, <2>1, <2>2
  <2>3. CASE i \in Listed
    BY <1>1, <1>2, <2>1, <2>3, TableEntries DEF Acting
  <2> QED BY <1>2, <2>2, <2>3
<1>6. Table' = new
  <2>1. DOMAIN new = DOMAIN Table' /\ new = [e \in DOMAIN new |-> new[e]]
    BY <1>4
  <2> HIDE DEF new
  <2>2. \A e \in DOMAIN Table' : Table'[e] = new[e]
    BY <1>5, TableEntriesNext
  <2> QED BY <2>1, <2>2, TableEntriesNext
<1> QED BY <1>3, <1>6 DEF T!Announce, T!Known, Table

(* A removed entry is a withdrawn tuner, and no other tuner's. *)
LEMMA RemoveRefines ==
  ASSUME TvInv, TvInv', NEW idx \in Listed, RemoveDeviceByIdx(idx)
  PROVE  T!Withdraw(device_list[idx].device_id)
<1> DEFINE d == device_list[idx].device_id
<1>1. /\ \A i \in Listed' : \E j \in Listed \ {idx} : device_list'[i] = device_list[j]
      /\ \A j \in Listed \ {idx} : \E i \in Listed' : device_list'[i] = device_list[j]
  BY RemovedEntry DEF TvInv
<1>2. \A j \in Listed \ {idx} : device_list[j].device_id # d
  BY DEF TvInv, ListedOnce
<1> HIDE DEF Table
<1>3. d \in DOMAIN Table
  BY TableEntries
<1>4. DOMAIN Table' = DOMAIN Table \ {d}
  BY <1>1, <1>2, TableEntries, TableEntriesNext
<1>5. \A e \in DOMAIN Table' : Table'[e] = Table[e]
  <2> SUFFICES ASSUME NEW i \in Listed'
               PROVE  Table'[device_list'[i].device_id] = Table[device_list'[i].device_id]
    BY TableEntriesNext
  <2>1. PICK j \in Listed : device_list'[i] = device_list[j]
    BY <1>1
  <2> QED BY <2>1, TableEntries, TableEntriesNext DEF Acting
<1>6. Table' = [e \in DOMAIN Table \ {d} |-> Table[e]]
  BY <1>4, <1>5, TableEntriesNext
<1> QED BY <1>3, <1>6 DEF T!Withdraw, T!Known

(* A stored stream is that of one tuner. *)
LEMMA StoreRefines ==
  ASSUME TvInv, TvInv', NEW idx \in Listed, NEW s \in {NoStream} \union Stream,
         device_list' = [device_list EXCEPT ![idx].acting_stream_id = s],
         UNCHANGED device_num
  PROVE  T!Select(device_list[idx].device_id, s)
<1> DEFINE d == device_list[idx].device_id
<1>1. idx \in Slot
  BY MaxDeviceAssumption DEF TvInv, TvTypeOK, Listed, Slot
<1>2. /\ Listed' = Listed /\ Listed \subseteq Slot
      /\ \A i \in Slot : device_list'[i].device_id = device_list[i].device_id
      /\ \A i \in Slot \ {idx} : device_list'[i] = device_list[i]
      /\ device_list'[idx].acting_stream_id = s
  BY <1>1, StoredStream DEF TvInv
<1>3. \A j \in Listed : device_list[j].device_id = d => j = idx
  BY DEF TvInv, ListedOnce
<1> HIDE DEF Table
<1>4. d \in DOMAIN Table
  BY TableEntries
<1>5. DOMAIN Table' = DOMAIN Table
  BY <1>2, TableEntries, TableEntriesNext
<1> DEFINE new == [Table EXCEPT ![d] = s]
<1>6. DOMAIN new = DOMAIN Table /\ new = [e \in DOMAIN new |-> new[e]]
  BY TableEntries
<1>7. \A e \in DOMAIN Table' : Table'[e] = new[e]
  <2> SUFFICES ASSUME NEW i \in Listed
               PROVE  Table'[device_list[i].device_id] = new[device_list[i].device_id]
    BY <1>2, TableEntriesNext
  <2>1. Table'[device_list[i].device_id] = device_list'[i].acting_stream_id
    BY <1>2, TableEntriesNext DEF Acting
  <2>2. device_list[i].device_id \in DOMAIN Table
    BY TableEntries
  <2>3. CASE i = idx
    BY <1>2, <1>4, <2>1, <2>3
  <2>4. CASE i # idx
    BY <1>2, <1>3, <2>1, <2>2, <2>4, TableEntries DEF Acting
  <2> QED BY <2>3, <2>4
<1>8. Table' = new
  BY <1>5, <1>6, <1>7, TableEntriesNext
<1> QED BY <1>4, <1>8 DEF T!Select, T!Known

(* Every step changes the map like a step of TunerTable, or not at all. *)
LEMMA StepRefines ==
  ASSUME Serial, TvInv, TvInv', [TvNext]_tvVars
  PROVE  [T!Next]_Table
<1> USE DEF T!Next
<1>1. CASE UNCHANGED tableVars
  BY <1>1, TableUnchanged DEF tableVars, Listed
<1>2. ASSUME NEW d \in Device, DeviceAvailable(d) PROVE [T!Next]_Table
  <2>1. d \notin available
    BY <1>2 DEF DeviceAvailable
  <2>2. CASE d \in Tuner /\ device_num < MAX_DEVICE_NUM
    BY <1>2, <2>1, <2>2, AddRefines DEF DeviceAvailable
  <2>3. CASE ~(d \in Tuner /\ device_num < MAX_DEVICE_NUM)
    BY <1>1, <1>2, <2>3 DEF DeviceAvailable
  <2> QED BY <2>2, <2>3
<1>3. ASSUME NEW d \in Device, IndexOf(d) < device_num
      PROVE  IndexOf(d) \in Listed /\ device_list[IndexOf(d)].device_id = d
  BY <1>3, IndexOfListed DEF TvInv
<1>4. ASSUME NEW d \in Device, DeviceUnavailable(d) PROVE [T!Next]_Table
  <2>1. CASE d \in Tuner /\ IndexOf(d) < device_num
    <3>1. RemoveDeviceByIdx(IndexOf(d))
      BY <1>4, <2>1 DEF DeviceUnavailable
    <3>2. IndexOf(d) \in Listed /\ device_list[IndexOf(d)].device_id = d
      BY <1>3, <2>1
    <3>3. T!Withdraw(d)
      BY <3>1, <3>2, RemoveRefines
    <3> QED BY <2>1, <3>3
  <2>2. CASE ~(d \in Tuner /\ IndexOf(d) < device_num)
    BY <1>1, <1>4, <2>2 DEF DeviceUnavailable
  <2> QED BY <2>1, <2>2
<1>5. ASSUME NEW d \in Device, StreamConfigurationsChanged(d) PROVE [T!Next]_Table
  <2>1. d \in Tuner /\ IndexOf(d) < device_num /\ ForgetStream(IndexOf(d))
    BY <1>5 DEF StreamConfigurationsChanged
  <2>2. IndexOf(d) \in Listed /\ device_list[IndexOf(d)].device_id = d
    BY <1>3, <2>1
  <2>3. T!Select(d, NoStream)
    BY <2>1, <2>2, StoreRefines DEF ForgetStream
  <2> QED BY <2>1, <2>3
<1>6. CASE Register \/ RegisterFails \/ RegisterFailsInHal
  <2>1. device_num' = 0
    BY <1>6 DEF Register, RegisterFails, RegisterFailsInHal, InitHal
  <2>2. Listed' = {}
    BY <2>1 DEF Listed
  <2>3. DOMAIN Table' = {}
    BY <2>2, TableEntriesNext
  <2> HIDE DEF Table
  <2>4. Table' = [d \in {} |-> NoStream]
    BY <2>3, TableEntriesNext
  <2> QED BY <2>4 DEF T!Forget
<1>7. CASE OpenStream
  <2>1. /\ opening # NotOpening /\ opening.idx < MAX_DEVICE_NUM
        /\ device_list' = [device_list EXCEPT ![opening.idx].acting_stream_id
                             = opening.stream]
        /\ UNCHANGED device_num
    BY <1>7 DEF OpenStream
  <2>2. /\ opening.device_id \in Device /\ opening.stream \in Stream
        /\ opening.idx \in Slot
    <3>1. opening \in Opening
      BY <2>1 DEF TvInv, TvTypeOK
    <3> QED BY <2>1, <3>1, MaxDeviceAssumption DEF Opening, Slot
  <2>3. opening.idx = IndexOf(opening.device_id)
    BY <2>1 DEF TvInv, OpeningCurrent
  <2>4. CASE opening.idx < device_num
    <3>1. opening.idx \in Listed /\ device_list[opening.idx].device_id = opening.device_id
      BY <1>3, <2>2, <2>3, <2>4
    <3>2. T!Select(opening.device_id, opening.stream)
      BY <2>1, <2>2, <3>1, StoreRefines
    <3>3. opening.device_id \in Tuner
      BY <3>1 DEF TvInv, ListedAnnounced
    <3> QED BY <2>2, <3>2, <3>3
  <2>5. CASE ~(opening.idx < device_num)
    <3>1. \A i \in Listed : i # opening.idx
      BY <2>2, <2>5, MaxDeviceAssumption DEF TvInv, TvTypeOK, Listed, Slot
    <3>2. Listed' = Listed /\ \A i \in Listed : device_list'[i] = device_list[i]
      BY <2>1, <2>2, <3>1, StoredStream DEF TvInv
    <3> QED BY <3>2, TableUnchanged
  <2> QED BY <2>4, <2>5
<1>8. CASE \/ \E d \in Device : \/ NotifiedWithoutDevice(d) \/ SelectStream(d)
                              \/ \E s \in StreamsOf[d] \union {NoStream} : Reconfigure(d, s)
           \/ Unregister \/ OpenStreamFails \/ OpenStreamOverrun \/ UNCHANGED tvVars
  <2>1. UNCHANGED tableVars
    BY <1>8 DEF NotifiedWithoutDevice, SelectStream, Reconfigure, Unregister,
                OpenStreamFails, OpenStreamOverrun, Undefined, tvVars
  <2> QED BY <1>1, <2>1
<1> QED BY <1>2, <1>4, <1>5, <1>6, <1>7, <1>8
        DEF TvNext, Hardware, Registration, GetStream

(* The table of tv_hal.c, with its shifts and searches, is a map from      *)
(* tuners to streams: no operation on one tuner touches another's stream.  *)
THEOREM ImplementsTable ==
  ASSUME Serial
  PROVE  TvSpec => TableSpec
<1>1. TvInit => T!Init
  <2> SUFFICES ASSUME TvInit PROVE T!Init
    OBVIOUS
  <2>1. Listed = {}
    BY DEF TvInit, Listed
  <2>2. DOMAIN Table = {}
    BY <2>1, TvInvInit, TableEntries
  <2> QED BY <2>1 DEF T!Init, Table
<1>2. TvInv /\ TvInv' /\ [TvNext]_tvVars => [T!Next]_Table
  BY StepRefines
<1> QED BY <1>1, <1>2, TvInvInvariant, PTL DEF TvSpec, TableSpec, T!Spec
=============================================================================
