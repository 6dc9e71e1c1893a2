------------------------------- MODULE MCDtv -------------------------------
(* Instances of DtvHandlers for TLC: two tuners, an input that is no tuner *)
(* (3), a tuner id that names nothing (9), one that a uint32_t does not    *)
(* hold (65).  Opcode 9 stands for every one without a handler.            *)
EXTENDS DtvHandlers

MCTuner  == {1, 2}
MCOther  == {3}
MCStream == {7, 8}
SecondTuner == {2}
MCStreamsOf == [d \in MCTuner \union MCOther |-> IF d \in MCTuner THEN MCStream ELSE {7}]
TunerStreamsOf == [d \in MCTuner |-> MCStream]
OneTuner == {1}
OneStream == {7}
NoDevice == {}
OneStreamsOf == [d \in OneTuner |-> OneStream]
LateTuner == {10}
LateStreamsOf == [d \in LateTuner |-> OneStream]

MCOpcode == {1, 2, 3, 5, 6, 7, 8, 9}
TunerOpcodes == {1, 2}
TunerOpcode == {1}
SourceOpcode == {2}
TunerArgs == {<<1>>, <<2>>}
MCTunerArg == {<<1>>, <<2>>, <<3>>, <<9>>, <<6, 5>>}
OneTunerArg == {<<1>>}

MCHandle == {[numFds |-> 0, numInts |-> 2], [numFds |-> 3, numInts |-> 2]}
OneHandle == {[numFds |-> 1, numInts |-> 2]}
MCChannelNum == {0, 1}
Prog(langs, stl_langs) ==
  [evt_id |-> 1, title |-> 2, descpt |-> 3, rating |-> 0,
   langs |-> langs, stl_langs |-> stl_langs]
MCPrograms == {<<>>, <<Prog(<<2>>, <<3>>)>>, <<Prog(<<>>, <<3>>)>>,
               <<Prog(<<2, 2>>, <<3>>)>>, <<Prog(<<2>>, <<3>>), Prog(<<>>, <<>>)>>}
NoPrograms == {}

VendorStatus == {0, 4}
StubStatus == {4}

ModuleFault == {"module"}
AllFaults == HalFaultKind
NoFaults == {}
=============================================================================
