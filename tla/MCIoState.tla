----------------------------- MODULE MCIoState -----------------------------
(* Instances of IoState for TLC: one command, two PDUs that can be told    *)
(* apart, a socket that holds one PDU or two.                              *)
EXTENDS IoState

CONSTANTS cmd, short, oversize, empty, w1, w2

MCCmd == {cmd}
NoEmpty == {}
OneEmpty == {empty}
MCPdu == {w1, w2}
AllFaults == FaultKind
(* Without faults in the registration of events, sendmsg and recvmsg. *)
QuietFaults == {"connect", "memory"}
NoFaults == {}
=============================================================================
