--------------------------- MODULE SilenceProofs ---------------------------
(***************************************************************************)
(* An unregistered DTV service is silent: no notification follows the      *)
(* answer to an unregister command, as long as sendmsg does not fail on a  *)
(* working connection and the vendor library's dtv_uninit does not fail.   *)
(*                                                                         *)
(* The argument: a notification is only sent while the DTV handler is      *)
(* installed, and while it is not the last registration among the PDUs on  *)
(* their way can be an unregister answer; when it is installed again a     *)
(* register answer has been sent in between (UnregisteredIsLast).          *)
(***************************************************************************)
EXTENDS TvdProofs

(* The PDUs on their way to the client. *)
pending == wire \o sendq

(* What is read, cut off or dropped does not make a silent channel loud.   *)
LEMMA SilentParts ==
  ASSUME NEW s \in Seq(Pdu), NEW t \in Seq(Pdu), Silent(s \o t)
  PROVE  Silent(s) /\ Silent(t)
<1>1. /\ Len(s) \in Nat /\ Len(t) \in Nat
      /\ DOMAIN s = 1..Len(s) /\ DOMAIN t = 1..Len(t)
      /\ DOMAIN (s \o t) = 1..Len(s) + Len(t)
      /\ \A i \in 1..Len(s) + Len(t) :
           (s \o t)[i] = IF i <= Len(s) THEN s[i] ELSE t[i - Len(s)]
  BY LenProperties, ConcatProperties
<1>2. Silent(s)
  <2> SUFFICES ASSUME NEW i \in 1..Len(s), NEW j \in 1..Len(s), i < j,
                      DtvAnswer(s[i], OPCODE_UNREGISTER_MODULE), s[j] \in Ntf
               PROVE  \E k \in i..j : DtvAnswer(s[k], OPCODE_REGISTER_MODULE)
    BY <1>1 DEF Silent
  <2>1. (s \o t)[i] = s[i] /\ (s \o t)[j] = s[j]
    BY <1>1
  <2>2. PICK k \in i..j : DtvAnswer((s \o t)[k], OPCODE_REGISTER_MODULE)
    BY <1>1, <2>1 DEF Silent
  <2>3. (s \o t)[k] = s[k]
    BY <1>1
  <2> QED BY <2>2, <2>3
<1>3. Silent(t)
  <2> SUFFICES ASSUME NEW i \in 1..Len(t), NEW j \in 1..Len(t), i < j,
                      DtvAnswer(t[i], OPCODE_UNREGISTER_MODULE), t[j] \in Ntf
               PROVE  \E k \in i..j : DtvAnswer(t[k], OPCODE_REGISTER_MODULE)
    BY <1>1 DEF Silent
  <2>1. /\ Len(s) + i \in 1..Len(s) + Len(t)
        /\ Len(s) + j \in 1..Len(s) + Len(t)
        /\ Len(s) + i < Len(s) + j
        /\ (s \o t)[Len(s) + i] = t[i] /\ (s \o t)[Len(s) + j] = t[j]
    BY <1>1
  <2>2. PICK k \in (Len(s) + i)..(Len(s) + j) :
               DtvAnswer((s \o t)[k], OPCODE_REGISTER_MODULE)
    BY <1>1, <2>1 DEF Silent
  <2>3. k - Len(s) \in i..j /\ (s \o t)[k] = t[k - Len(s)]
    BY <1>1, <2>2
  <2> QED BY <2>2, <2>3
<1> QED BY <1>2, <1>3

(* Reading the oldest PDU. *)
LEMMA SilentTail ==
  ASSUME NEW s \in Seq(Pdu), s # <<>>
  PROVE  /\ Silent(s) => Silent(Tail(s))
         /\ EndsUnregistered(Tail(s)) => EndsUnregistered(s)
<1>1. /\ Len(s) \in Nat \ {0} /\ DOMAIN s = 1..Len(s)
      /\ Len(Tail(s)) = Len(s) - 1 /\ DOMAIN Tail(s) = 1..(Len(s) - 1)
      /\ \A i \in 1..(Len(s) - 1) : Tail(s)[i] = s[i + 1]
  BY LenProperties, HeadTailProperties, EmptySeq
<1>2. ASSUME Silent(s) PROVE Silent(Tail(s))
  <2> SUFFICES ASSUME NEW i \in 1..(Len(s) - 1), NEW j \in 1..(Len(s) - 1), i < j,
                      DtvAnswer(Tail(s)[i], OPCODE_UNREGISTER_MODULE),
                      Tail(s)[j] \in Ntf
               PROVE  \E k \in i..j : DtvAnswer(Tail(s)[k], OPCODE_REGISTER_MODULE)
    BY <1>1 DEF Silent
  <2>1. /\ i + 1 \in 1..Len(s) /\ j + 1 \in 1..Len(s) /\ i + 1 < j + 1
        /\ Tail(s)[i] = s[i + 1] /\ Tail(s)[j] = s[j + 1]
    BY <1>1
  <2>2. PICK k \in (i + 1)..(j + 1) : DtvAnswer(s[k], OPCODE_REGISTER_MODULE)
    BY <1>1, <1>2, <2>1 DEF Silent
  <2>3. k - 1 \in i..j /\ Tail(s)[k - 1] = s[k]
    BY <1>1, <2>2
  <2> QED BY <2>2, <2>3
<1>3. ASSUME EndsUnregistered(Tail(s)) PROVE EndsUnregistered(s)
  <2>1. PICK i \in 1..(Len(s) - 1) :
          /\ DtvAnswer(Tail(s)[i], OPCODE_UNREGISTER_MODULE)
          /\ \A k \in i..(Len(s) - 1) : ~DtvAnswer(Tail(s)[k], OPCODE_REGISTER_MODULE)
    BY <1>1, <1>3 DEF EndsUnregistered
  <2>2. i + 1 \in 1..Len(s) /\ DtvAnswer(s[i + 1], OPCODE_UNREGISTER_MODULE)
    BY <1>1, <2>1
  <2>3. ASSUME NEW k \in (i + 1)..Len(s)
        PROVE  ~DtvAnswer(s[k], OPCODE_REGISTER_MODULE)
    <3>1. k - 1 \in i..(Len(s) - 1) /\ Tail(s)[k - 1] = s[k]
      BY <1>1, <2>1
    <3> QED BY <2>1, <3>1
  <2> QED BY <1>1, <2>2, <2>3 DEF EndsUnregistered
<1> QED BY <1>2, <1>3

(* Sending one PDU. *)
LEMMA SilentAppend ==
  ASSUME NEW s \in Seq(Pdu), NEW w \in Pdu, Silent(s),
         w \in Ntf => ~EndsUnregistered(s)
  PROVE  Silent(Append(s, w))
<1>1. /\ Len(s) \in Nat /\ DOMAIN s = 1..Len(s)
      /\ DOMAIN Append(s, w) = 1..(Len(s) + 1)
      /\ \A i \in 1..Len(s) : Append(s, w)[i] = s[i]
      /\ Append(s, w)[Len(s) + 1] = w
  BY LenProperties, AppendProperties
<1> SUFFICES ASSUME NEW i \in 1..(Len(s) + 1), NEW j \in 1..(Len(s) + 1), i < j,
                    DtvAnswer(Append(s, w)[i], OPCODE_UNREGISTER_MODULE),
                    Append(s, w)[j] \in Ntf
             PROVE  \E k \in i..j : DtvAnswer(Append(s, w)[k], OPCODE_REGISTER_MODULE)
  BY <1>1 DEF Silent
<1>2. i \in 1..Len(s) /\ Append(s, w)[i] = s[i]
  BY <1>1
<1>3. CASE j <= Len(s)
  <2>1. PICK k \in i..j : DtvAnswer(s[k], OPCODE_REGISTER_MODULE)
    BY <1>1, <1>2, <1>3 DEF Silent
  <2>2. Append(s, w)[k] = s[k]
    BY <1>1, <1>2, <1>3
  <2> QED BY <2>1, <2>2
<1>4. CASE j = Len(s) + 1
  <2>1. ~EndsUnregistered(s)
    BY <1>1, <1>4
  <2>2. PICK k \in i..Len(s) : DtvAnswer(s[k], OPCODE_REGISTER_MODULE)
    BY <1>1, <1>2, <2>1 DEF EndsUnregistered
  <2>3. k \in i..j /\ Append(s, w)[k] = s[k]
    BY <1>1, <1>2, <1>4
  <2> QED BY <2>2, <2>3
<1> QED BY <1>1, <1>3, <1>4

(* An appended PDU ends the channel unregistered or keeps it so. *)
LEMMA EndsAppend ==
  ASSUME NEW s \in Seq(Pdu), NEW w \in Pdu, EndsUnregistered(Append(s, w))
  PROVE  /\ ~DtvAnswer(w, OPCODE_REGISTER_MODULE)
         /\ EndsUnregistered(s) \/ DtvAnswer(w, OPCODE_UNREGISTER_MODULE)
<1>1. /\ Len(s) \in Nat /\ DOMAIN s = 1..Len(s)
      /\ DOMAIN Append(s, w) = 1..(Len(s) + 1)
      /\ Len(Append(s, w)) = Len(s) + 1
      /\ \A i \in 1..Len(s) : Append(s, w)[i] = s[i]
      /\ Append(s, w)[Len(s) + 1] = w
  BY LenProperties, AppendProperties
<1>2. PICK i \in 1..(Len(s) + 1) :
        /\ DtvAnswer(Append(s, w)[i], OPCODE_UNREGISTER_MODULE)
        /\ \A k \in i..(Len(s) + 1) :
             ~DtvAnswer(Append(s, w)[k], OPCODE_REGISTER_MODULE)
  BY <1>1 DEF EndsUnregistered
<1>3. ~DtvAnswer(w, OPCODE_REGISTER_MODULE)
  BY <1>1, <1>2
<1>4. CASE i = Len(s) + 1
  BY <1>1, <1>2, <1>3, <1>4
<1>5. CASE i \in 1..Len(s)
  <2>1. DtvAnswer(s[i], OPCODE_UNREGISTER_MODULE)
    BY <1>1, <1>2, <1>5
  <2>2. \A k \in i..Len(s) : ~DtvAnswer(s[k], OPCODE_REGISTER_MODULE)
    BY <1>1, <1>2, <1>5
  <2> QED BY <1>1, <1>3, <1>5, <2>1, <2>2 DEF EndsUnregistered
<1> QED BY <1>1, <1>2, <1>4, <1>5
-----------------------------------------------------------------------------
(* The steps of the daemon.                                                *)

(* What is on its way is a sequence of PDUs. *)
LEMMA PendingType ==
  ASSUME IoInv
  PROVE  sendq \in Seq(Pdu) /\ wire \in Seq(Pdu) /\ pending \in Seq(Pdu)
<1>1. sendq \in Seq(Pdu) /\ wire \in Seq(Pdu)
  BY DEF IoInv, TypeOK
<1> QED BY <1>1, ConcatProperties DEF pending

(* A step that sends w: only an installed DTV service may notify, only an  *)
(* unregister answer leaves the service out, only a register answer puts   *)
(* it in.                                                                  *)
LEMMA SendSilence ==
  ASSUME "send" \notin Faults, IoInv, SilenceInv, NEW w \in Pdu, NEW res,
         IoStateSend(w, res), UNCHANGED <<fd, peer>>,
         w \in Ntf => handler[SERVICE_DTV] # "null",
         DtvAnswer(w, OPCODE_UNREGISTER_MODULE) => handler'[SERVICE_DTV] = "null",
         \/ handler[SERVICE_DTV] = "null" => handler'[SERVICE_DTV] = "null"
         \/ DtvAnswer(w, OPCODE_REGISTER_MODULE)
  PROVE  SilenceInv'
<1>1. /\ sendq \in Seq(Pdu) /\ wire \in Seq(Pdu) /\ pending \in Seq(Pdu)
      /\ Append(sendq, w) \in Seq(Pdu) /\ Len(wire) <= SockCap
  BY PendingType, AppendProperties DEF IoInv, SocketBound
<1>2. SendPendingWbufs(Append(sendq, w))
  BY DEF IoStateSend
<1>3. CASE LinkBroken
  <2>1. wire' = wire /\ sendq' = <<>> /\ LinkBroken'
    BY <1>2, <1>3 DEF SendPendingWbufs, LinkBroken
  <2>2. wire' \o sendq' = wire
    BY <1>1, <2>1, ConcatEmptySeq
  <2>3. Silent(wire)
    BY <1>1, SilentParts DEF SilenceInv, SilentAfterUnregister
  <2> QED
    BY <2>1, <2>2, <2>3 DEF SilenceInv, SilentAfterUnregister, UnregisteredIsLast
<1>4. CASE ~LinkBroken
  <2>1. wire' \o sendq' = wire \o Append(sendq, w)
    BY <1>1, <1>2, <1>4, FlushRefines
  <2>2. wire \o Append(sendq, w) = Append(pending, w)
    <3>1. Append(sendq, w) = sendq \o <<w>> /\ <<w>> \in Seq(Pdu)
      BY <1>1, AppendIsConcat
    <3>2. Append(pending, w) = pending \o <<w>>
      BY <1>1, AppendIsConcat
    <3> QED BY <1>1, <3>1, <3>2, ConcatAssociative DEF pending
  <2>3. w \in Ntf => ~EndsUnregistered(pending)
    BY <1>4 DEF SilenceInv, UnregisteredIsLast, pending
  <2>4. Silent(Append(pending, w))
    BY <1>1, <2>3, SilentAppend DEF SilenceInv, SilentAfterUnregister, pending
  <2>5. EndsUnregistered(Append(pending, w)) => handler'[SERVICE_DTV] = "null"
    BY <1>1, <1>4, EndsAppend DEF SilenceInv, UnregisteredIsLast, pending
  <2> QED
    BY <2>1, <2>2, <2>4, <2>5
    DEF SilenceInv, SilentAfterUnregister, UnregisteredIsLast
<1> QED BY <1>3, <1>4

(* A step that sends nothing. *)
LEMMA QuietSilence ==
  ASSUME SilenceInv, UNCHANGED <<wire, sendq>>,
         LinkBroken => LinkBroken',
         LinkBroken' \/ handler'[SERVICE_DTV] = handler[SERVICE_DTV]
  PROVE  SilenceInv'
BY DEF SilenceInv, SilentAfterUnregister, UnregisteredIsLast

(* Nothing is on its way before the connection is up. *)
LEMMA SetupSilence ==
  ASSUME TvdInv, SilenceInv,
         \/ OptionsExit \/ InitTaskQueueFails \/ StartDaemon \/ StartFails
         \/ ConnectFails \/ Connected
  PROVE  SilenceInv'
<1>1. CASE \/ OptionsExit \/ InitTaskQueueFails \/ StartDaemon \/ StartFails
           \/ ConnectFails
  BY <1>1, QuietSilence
  DEF OptionsExit, InitTaskQueueFails, StartDaemon, StartFails, ConnectFails,
      NotStarted, InitIo, InitIoFails, FdConErr, connVars, outVars, tvdVars,
      svcVars, LinkBroken
<1>2. CASE Connected
  <2>1. wire = <<>> /\ sendq = <<>> /\ wire' = wire /\ sendq' = <<>>
    BY <1>2 DEF Connected, FdConOut, ConnectedSocket, Dispatching, outVars,
                TvdInv, IoInv, Connecting
  <2>2. wire' \o sendq' = <<>>
    BY <2>1, ConcatEmptySeq, EmptySeq
  <2>3. DOMAIN <<>> = {}
    BY EmptySeq, LenProperties
  <2>4. Silent(<<>>) /\ ~EndsUnregistered(<<>>)
    BY <2>3 DEF Silent, EndsUnregistered
  <2> QED
    BY <2>2, <2>4 DEF SilenceInv, SilentAfterUnregister, UnregisteredIsLast
<1> QED BY <1>1, <1>2

(* A registration that changes is answered in the same step. *)
LEMMA SuccessSilence ==
  ASSUME "send" \notin Faults, TvdInv, SilenceInv,
         NEW c \in Cmd, CommandSucceeds(c)
  PROVE  SilenceInv'
<1>1. c.service \in Service /\ Response(c) \in Pdu
  BY CommandType, AnswersArePdus
<1>2. /\ CanSucceed(c) /\ CommandEffect(c) /\ FdIoInReply(c, Response(c))
  BY DEF CommandSucceeds
<1>3. c.opcode \in 1..8 /\ Response(c) \notin Ntf
  <2>1. c.opcode \in 1..8
    BY <1>2
    DEF CanSucceed, RegistryCanSucceed, DtvCanSucceed, MaySucceed, Handled,
        OPCODE_REGISTER_MODULE,
        OPCODE_UNREGISTER_MODULE, OPCODE_GET_TUNERS, OPCODE_SET_SOURCE,
        OPCODE_CLEAR_CACHE, OPCODE_GET_PROGRAM
  <2> QED BY <2>1, VendorAssumption DEF Response, Ntf
<1>4. /\ handler[c.service] = "registry_handler" => c.service = SERVICE_REGISTRY
      /\ handler[c.service] = "dtv_handler" => c.service = SERVICE_DTV
  BY <1>1 DEF TvdInv, HandlersPlaced
<1>5. PICK res \in {0, -1} : IoStateSend(Response(c), res)
  BY <1>2 DEF FdIoInReply, SendPdu
<1>6. UNCHANGED <<fd, peer>>
  BY <1>2 DEF FdIoInReply, Receive, connVars
<1>7. CASE handler[c.service] = "registry_handler"
  <2>1. handler'[SERVICE_DTV] = NewHandler(c)
    BY <1>2, <1>7, ServiceAssumption DEF CommandEffect, TvdInv, TvdTypeOK
  <2>2. /\ c.opcode \in {OPCODE_REGISTER_MODULE, OPCODE_UNREGISTER_MODULE}
        /\ c.service = SERVICE_REGISTRY
    BY <1>2, <1>4, <1>7 DEF CanSucceed, RegistryCanSucceed
  <2>3. \/ c.opcode = OPCODE_REGISTER_MODULE /\ DtvAnswer(Response(c), OPCODE_REGISTER_MODULE)
        \/ c.opcode = OPCODE_UNREGISTER_MODULE /\ NewHandler(c) = "null"
    BY <2>2 DEF DtvAnswer, Response, NewHandler, OPCODE_REGISTER_MODULE,
                OPCODE_UNREGISTER_MODULE
  <2>4. DtvAnswer(Response(c), OPCODE_UNREGISTER_MODULE)
          => c.opcode = OPCODE_UNREGISTER_MODULE
    BY DEF DtvAnswer, Response
  <2>5. DtvAnswer(Response(c), OPCODE_UNREGISTER_MODULE)
          => handler'[SERVICE_DTV] = "null"
    BY <2>1, <2>3, <2>4 DEF OPCODE_REGISTER_MODULE, OPCODE_UNREGISTER_MODULE
  <2>6. \/ handler[SERVICE_DTV] = "null" => handler'[SERVICE_DTV] = "null"
        \/ DtvAnswer(Response(c), OPCODE_REGISTER_MODULE)
    BY <2>1, <2>3
  <2> QED
    BY <1>1, <1>3, <1>5, <1>6, <2>5, <2>6, SendSilence DEF TvdInv
<1>8. CASE handler[c.service] = "dtv_handler"
  <2>1. handler' = handler
    BY <1>2, <1>8 DEF CommandEffect
  <2>2. ~DtvAnswer(Response(c), OPCODE_UNREGISTER_MODULE)
    BY <1>4, <1>8 DEF DtvAnswer, Response, SERVICE_REGISTRY, SERVICE_DTV
  <2> QED BY <1>1, <1>3, <1>5, <1>6, <2>1, <2>2, SendSilence DEF TvdInv
<1> QED BY <1>2, <1>7, <1>8 DEF CanSucceed

(* An answer that changes no registration says so. *)
LEMMA FailureSilence ==
  ASSUME "send" \notin Faults, TvdInv, SilenceInv,
         NEW c \in Cmd, CommandFails(c) \/ CommandCrashes(c)
  PROVE  SilenceInv'
<1>1. c.service \in Service /\ Response(c) \in Pdu
  BY CommandType, AnswersArePdus
<1>2. UNCHANGED <<fd, peer, handler>>
  BY DEF CommandFails, CommandCrashes, FdIoInError, FdIoInCrash, Receive,
         connVars, svcVars
<1>3. CASE UNCHANGED <<outVars, watchVars>>
  BY <1>2, <1>3, QuietSilence DEF outVars, LinkBroken
<1>4. CASE \E w \in Pdu, res \in {0, -1} :
             /\ IoStateSend(w, res)
             /\ w \notin Ntf /\ ~DtvAnswer(w, OPCODE_UNREGISTER_MODULE)
  BY <1>2, <1>4, SendSilence DEF TvdInv
<1>5. CASE CommandFails(c)
  <2>1. PICK status \in CommandErrors(c) : FdIoInError(c, Error(c, status))
    BY <1>5 DEF CommandFails
  <2>2. Error(c, status) \in Pdu
    BY <2>1, AnswersArePdus
  <2>3. Error(c, status) \notin Ntf
    BY VendorAssumption DEF Error, Ntf, OPCODE_ERROR
  <2>4. ~DtvAnswer(Error(c, status), OPCODE_UNREGISTER_MODULE)
    BY DEF Error, DtvAnswer, OPCODE_ERROR, OPCODE_UNREGISTER_MODULE
  <2>5. \/ UNCHANGED <<outVars, watchVars>>
        \/ \E res \in {0, -1} : IoStateSend(Error(c, status), res)
    BY <2>1 DEF FdIoInError, SendErrorReply
  <2> QED BY <1>3, <1>4, <2>2, <2>3, <2>4, <2>5
<1>6. CASE CommandCrashes(c)
  <2>1. CanCrash(c) /\ FdIoInCrash(c, Response(c))
    BY <1>6 DEF CommandCrashes
  <2>2. c.service = SERVICE_DTV
    BY <1>1, <2>1 DEF CanCrash, TvdInv, HandlersPlaced
  <2>3. Response(c) \notin Ntf
    BY <2>1, VendorAssumption
    DEF CanCrash, DtvCanCrash, MayCrash, Response, Ntf, OPCODE_GET_TUNERS,
        OPCODE_SET_SOURCE, OPCODE_SET_CHANNEL, OPCODE_GET_CHANNEL,
        OPCODE_GET_PROGRAM
  <2>4. ~DtvAnswer(Response(c), OPCODE_UNREGISTER_MODULE)
    BY <2>2 DEF DtvAnswer, Response, SERVICE_REGISTRY, SERVICE_DTV
  <2>5. \/ UNCHANGED <<outVars, watchVars>>
        \/ \E res \in {0, -1} : IoStateSend(Response(c), res)
    BY <2>1 DEF FdIoInCrash
  <2> QED BY <1>1, <1>3, <1>4, <2>3, <2>4, <2>5
<1> QED BY <1>5, <1>6

(* A packet from the client, whatever becomes of it. *)
LEMMA InputSilence ==
  ASSUME "send" \notin Faults, TvdInv, SilenceInv, Input
  PROVE  SilenceInv'
<1>1. CASE OtherInput
  BY <1>1, QuietSilence
  DEF OtherInput, FdIoInShort, FdIoInOversize, FdIoInEof, FdIoInEmpty,
      StopsReading, FdIoInFails, Receive, connVars, outVars, svcVars, LinkBroken
<1> QED BY <1>1, SuccessSilence, FailureSilence DEF Input

(* A task is run only for a service that is still registered. *)
LEMMA NtfSilence ==
  ASSUME "send" \notin Faults, ~UninitFails, TvdInv, SilenceInv, SendNtf
  PROVE  SilenceInv'
<1>1. UNCHANGED handler /\ Head(tasks) \in Ntf /\ Head(tasks) \in Pdu
  BY TaskIsPdu, NtfIsPdu DEF SendNtf, svcVars, TvdInv
<1>2. CASE ~dtv_send_pdu
  BY <1>1, <1>2, QuietSilence DEF SendNtf, ioVars, LinkBroken
<1>3. CASE dtv_send_pdu
  <2>1. handler[SERVICE_DTV] # "null"
    BY <1>3 DEF TvdInv, DispatchReady
  <2>2. ~DtvAnswer(Head(tasks), OPCODE_UNREGISTER_MODULE)
    BY <1>1 DEF DtvAnswer, Ntf, SERVICE_REGISTRY, SERVICE_DTV
  <2>3. RunTask(Head(tasks))
    BY <1>3 DEF SendNtf
  <2>4. UNCHANGED <<fd, peer>> /\ \E res \in {0, -1} : IoStateSend(Head(tasks), res)
    BY <2>3 DEF RunTask, SendPdu, connVars
  <2> QED BY <1>1, <2>1, <2>2, <2>4, SendSilence DEF TvdInv
<1> QED BY <1>2, <1>3

(* io_state_out. *)
LEMMA OutputSilence ==
  ASSUME "send" \notin Faults, TvdInv, SilenceInv, Output
  PROVE  SilenceInv'
<1>1. /\ sendq \in Seq(Pdu) /\ wire \in Seq(Pdu) /\ Len(wire) <= SockCap
  BY PendingType DEF TvdInv, IoInv, SocketBound
<1>2. SendPendingWbufs(sendq) /\ UNCHANGED <<fd, peer, handler>>
  BY DEF Output, FdIoOut, connVars, tvdVars, svcVars
<1>3. CASE LinkBroken
  <2>1. wire' = wire /\ sendq' = <<>> /\ LinkBroken'
    BY <1>2, <1>3 DEF SendPendingWbufs, LinkBroken
  <2>2. wire' \o sendq' = wire /\ Silent(wire)
    BY <1>1, <2>1, ConcatEmptySeq, SilentParts DEF SilenceInv, SilentAfterUnregister
  <2> QED
    BY <2>1, <2>2 DEF SilenceInv, SilentAfterUnregister, UnregisteredIsLast
<1>4. CASE ~LinkBroken
  <2>1. wire' \o sendq' = wire \o sendq
    BY <1>1, <1>2, <1>4, FlushRefines
  <2> QED
    BY <1>2, <1>4, <2>1 DEF SilenceInv, SilentAfterUnregister, UnregisteredIsLast
<1> QED BY <1>3, <1>4

(* The client reads the oldest PDU, or closes. *)
LEMMA ClientSilence ==
  ASSUME TvdInv, SilenceInv, TvdClient
  PROVE  SilenceInv'
<1>1. /\ sendq \in Seq(Pdu) /\ wire \in Seq(Pdu) /\ pending \in Seq(Pdu)
  BY PendingType DEF TvdInv
<1>2. UNCHANGED <<fd, sendq, handler>>
  BY DEF TvdClient, ClientSend, ClientRecv, ClientShutWr, ClientClose,
         ConnectError, clientUnchanged, connVars, tvdVars, svcVars
<1>3. CASE \E p \in Packet : ClientSend(p)
  BY <1>2, <1>3, QuietSilence DEF ClientSend, LinkBroken
<1>4. CASE ClientShutWr \/ ConnectError
  BY <1>2, <1>4, QuietSilence DEF ClientShutWr, ConnectError, LinkBroken
<1>5. CASE ClientRecv
  <2>1. wire # <<>> /\ wire' = Tail(wire) /\ peer' = peer
    BY <1>5 DEF ClientRecv
  <2>2. pending # <<>> /\ wire' \o sendq' = Tail(pending)
    BY <1>1, <1>2, <2>1, TailOfConcat DEF pending
  <2>3. /\ Silent(pending) => Silent(Tail(pending))
        /\ EndsUnregistered(Tail(pending)) => EndsUnregistered(pending)
    BY <1>1, <2>2, SilentTail
  <2> QED
    BY <1>2, <2>1, <2>2, <2>3
    DEF SilenceInv, SilentAfterUnregister, UnregisteredIsLast, pending, LinkBroken
<1>6. CASE ClientClose
  <2>1. wire' = <<>> /\ LinkBroken'
    BY <1>6 DEF ClientClose, LinkBroken
  <2>2. wire' \o sendq' = sendq /\ Silent(sendq)
    BY <1>1, <1>2, <2>1, ConcatEmptySeq, SilentParts
    DEF SilenceInv, SilentAfterUnregister
  <2> QED
    BY <2>1, <2>2 DEF SilenceInv, SilentAfterUnregister, UnregisteredIsLast
<1> QED BY <1>3, <1>4, <1>5, <1>6 DEF TvdClient

(* Every step of the daemon and of its client. *)
LEMMA StepSilence ==
  ASSUME "send" \notin Faults, ~UninitFails, TvdInv, SilenceInv, [TvdNext]_vars
  PROVE  SilenceInv'
<1>1. CASE \/ OptionsExit \/ InitTaskQueueFails \/ StartDaemon \/ StartFails
           \/ ConnectFails \/ Connected
  BY <1>1, SetupSilence
<1>2. CASE SocketErr \/ SocketHup
  BY <1>2, QuietSilence
  DEF SocketErr, SocketHup, FdIoErr, FdIoHup, CloseConnection, LinkBroken
<1>3. CASE Input
  BY <1>3, InputSilence
<1>4. CASE Output
  BY <1>4, OutputSilence
<1>5. CASE (\E n \in Ntf : VendorNotify(n) \/ VendorCrashes(n)) \/ UNCHANGED vars
  BY <1>5, QuietSilence
  DEF VendorNotify, VendorCrashes, OtherThreadCrashes, vars, tvdVars, ioVars,
      svcVars, connVars, outVars, LinkBroken
<1>6. CASE SendNtf
  BY <1>6, NtfSilence
<1>7. CASE Uninit
  <2>1. handler'[SERVICE_DTV] = handler[SERVICE_DTV]
    BY <1>7, ServiceAssumption
    DEF Uninit, TvdInv, TvdTypeOK, SERVICE_REGISTRY, SERVICE_DTV
  <2> QED BY <1>7, <2>1, QuietSilence DEF Uninit, UninitIo, outVars, LinkBroken
<1>8. CASE TvdClient
  BY <1>8, ClientSilence
<1> QED BY <1>1, <1>2, <1>3, <1>4, <1>5, <1>6, <1>7, <1>8 DEF TvdNext

(* After the answer to an unregister command the client gets no            *)
(* notification until it registers DTV again, however many of them were    *)
(* queued as tasks (send_ntf_pdu, dtv_io.c:50-60; registry.c:132-174).     *)
THEOREM UnregisteredIsSilent ==
  ASSUME "send" \notin Faults, ~UninitFails
  PROVE  TvdSpec => []SilentAfterUnregister
<1>1. TvdInit => SilenceInv
  <2> SUFFICES ASSUME TvdInit PROVE SilenceInv
    OBVIOUS
  <2>1. wire \o sendq = <<>> /\ LinkBroken
    BY ConcatEmptySeq, EmptySeq DEF TvdInit, IoInit, LinkBroken
  <2>2. DOMAIN <<>> = {}
    BY EmptySeq, LenProperties
  <2> QED
    BY <2>1, <2>2
    DEF SilenceInv, SilentAfterUnregister, UnregisteredIsLast, Silent
<1>2. TvdInv /\ SilenceInv /\ [TvdNext]_vars => SilenceInv'
  BY StepSilence
<1>3. SilenceInv => SilentAfterUnregister
  BY DEF SilenceInv
<1> QED BY <1>1, <1>2, <1>3, TvdInvInvariant, PTL DEF TvdSpec
=============================================================================
