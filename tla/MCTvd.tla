------------------------------- MODULE MCTvd -------------------------------
(* Instances of Tvd for TLC.  Service 2 stands for every id without a      *)
(* service behind it, opcode 9 for every opcode without a handler.         *)
EXTENDS Tvd

CONSTANTS short, oversize, empty

C(service, opcode, arg) == [service |-> service, opcode |-> opcode, arg |-> arg]

MCService == {0, 1, 2}

Registration == {C(0, 1, 1), C(0, 2, 1)}
(* One command for every branch of the dispatch and of the handlers. *)
EveryBranch ==
  Registration \union
  {C(0, 1, NoArg), C(0, 1, 0), C(0, 2, 0), C(0, 9, 0), C(2, 1, 0),
   C(1, 1, 0), C(1, 2, 0), C(1, 3, NoArg), C(1, 6, 0), C(1, 8, 0), C(1, 9, 0)}
Conversation == Registration \union {C(1, 5, 0)}

PduOf(cmds) ==
  (UNION {{Response(c)} \union {Error(c, e) : e \in 1..7} : c \in cmds}) \union Ntf
EveryBranchPdu  == PduOf(EveryBranch)
ConversationPdu == PduOf(Conversation)

NoEmpty  == {}
OneEmpty == {empty}

AllFaults   == FaultKind
QuietFaults == {"connect", "memory", "recv"}
NoFaults    == {}

(* dtv.c as it is, and a vendor's library. *)
StubNtf      == {}
StubStatus   == {4}
VendorNtf    == {129}
VendorStatus == {0, 4}
=============================================================================
