--------------------------- MODULE ProtocolProofs ---------------------------
(***************************************************************************)
(* Proofs that the daemon keeps the protocol of TvdProtocol, for every set *)
(* of commands, every vendor library, every capacity of the socket and     *)
(* every fault but a sendmsg that fails on a working connection and a      *)
(* dtv_uninit that fails.                                                  *)
(***************************************************************************)
EXTENDS TvdProofs

-----------------------------------------------------------------------------
(* What the client sees of the daemon.                                     *)

(* As long as the process lives, its client sees the channel of Outbox.    *)
LEMMA SeenAlive ==
  ASSUME loop # "killed"
  PROVE  incoming = chan /\ clientLink = link
BY DEF incoming, chan, clientLink, link

(* The same of the next state. *)
LEMMA SeenAliveNext ==
  ASSUME loop' # "killed"
  PROVE  incoming' = chan' /\ clientLink' = link'
BY DEF incoming, chan, clientLink, link

(* What a client has still to read are PDUs. *)
LEMMA IncomingType ==
  ASSUME IoInv
  PROVE  incoming \in Seq(Pdu)
BY ConcatProperties, EmptySeq DEF IoInv, TypeOK, incoming

(* The client sees nothing of a step that changes neither the sockets nor  *)
(* the registration.                                                       *)
LEMMA Unseen ==
  ASSUME UNCHANGED <<incoming, clientLink, openRequests, handler[SERVICE_DTV]>>
  PROVE  UNCHANGED P!vars
BY DEF P!vars

(* Whatever the daemon does with its registration after the connection is  *)
(* over, the client does not see it.                                       *)
LEMMA Offline ==
  ASSUME IoInv, clientLink = "down", clientLink' = "down", incoming' = incoming
  PROVE  P!Close
<1>1. Len(incoming) \in 0..Len(incoming) /\ incoming' = SubSeq(incoming, 1, Len(incoming))
  BY IncomingType, LenProperties, SubSeqFull
<1>2. openRequests' = <<>>
  BY DEF openRequests
<1>3. (handler[SERVICE_DTV] = "dtv_handler")' \in BOOLEAN
  OBVIOUS
<1> QED BY <1>1, <1>2, <1>3 DEF P!Close

(* The connection ends, a prefix of what was under way arrives. *)
LEMMA Ends ==
  ASSUME clientLink # "new", clientLink' = "down",
         NEW n \in 0..Len(incoming), incoming' = SubSeq(incoming, 1, n)
  PROVE  P!Close
<1>1. openRequests' = <<>>
  BY DEF openRequests
<1>2. (handler[SERVICE_DTV] = "dtv_handler")' \in BOOLEAN
  OBVIOUS
<1> QED BY <1>1, <1>2 DEF P!Close

(* The prefixes of a sequence with one more element. *)
LEMMA PrefixOfAppend ==
  ASSUME NEW S, NEW s \in Seq(S), NEW w \in S, NEW a \in Seq(S), NEW b \in Seq(S),
         a \o b = Append(s, w)
  PROVE  a = Append(s, w) \/ \E n \in 0..Len(s) : a = SubSeq(s, 1, n)
<1>1. /\ a = SubSeq(Append(s, w), 1, Len(a))
      /\ Len(a) \in 0..Len(Append(s, w))
  BY ConcatPrefix
<1>2. /\ Append(s, w) \in Seq(S) /\ Len(Append(s, w)) = Len(s) + 1
      /\ \A i \in 1..Len(s) : Append(s, w)[i] = s[i]
      /\ Len(s) \in Nat /\ Len(a) \in Nat /\ Len(b) \in Nat
  BY AppendProperties, LenProperties
<1>3. CASE Len(a) = Len(s) + 1
  BY <1>1, <1>2, <1>3, SubSeqFull
<1>4. CASE Len(a) <= Len(s)
  <2>1. \A i \in 1..Len(a) : a[i] = s[i]
    <3>1. \A i \in 1..Len(a) + Len(b) :
            (a \o b)[i] = IF i <= Len(a) THEN a[i] ELSE b[i - Len(a)]
      BY ConcatProperties
    <3>2. \A i \in 1..Len(a) : i \in 1..Len(a) + Len(b) /\ i <= Len(a)
      BY <1>2
    <3>3. \A i \in 1..Len(a) : a[i] = Append(s, w)[i]
      BY <3>1, <3>2
    <3> QED BY <1>2, <1>4, <3>3
  <2>2. /\ SubSeq(s, 1, Len(a)) \in Seq(S)
        /\ Len(SubSeq(s, 1, Len(a))) = Len(a)
        /\ \A i \in 1..Len(a) : SubSeq(s, 1, Len(a))[i] = s[i]
    <3>1. \A i \in 1..Len(a) : s[i] \in S
      BY <1>2, <1>4, ElementOfSeq
    <3>2. /\ SubSeq(s, 1, Len(a)) \in Seq(S)
          /\ Len(SubSeq(s, 1, Len(a))) = IF 1 <= Len(a) THEN Len(a) - 1 + 1 ELSE 0
          /\ \A i \in 1..Len(a) - 1 + 1 : SubSeq(s, 1, Len(a))[i] = s[1 + i - 1]
      BY <1>2, <3>1, SubSeqProperties
    <3> QED BY <1>2, <3>2
  <2>3. a = SubSeq(s, 1, Len(a))
    BY <2>1, <2>2, SeqEqual
  <2>4. Len(a) \in 0..Len(s)
    BY <1>2, <1>4
  <2> QED BY <2>3, <2>4, Zenon
<1>5. Len(a) = Len(s) + 1 \/ Len(a) <= Len(s)
  <2>1. Len(a) \in 0..(Len(s) + 1)
    BY <1>1, <1>2, Zenon
  <2> QED BY <1>2, <2>1
<1> QED BY <1>3, <1>4, <1>5

(* The process is killed: what reached the socket arrives, a last answer    *)
(* among it or not.                                                        *)
LEMMA KilledRefines ==
  ASSUME "send" \notin Faults, IoInv, IoInv', loop = "run", funcs = "io",
         loop' = "killed", UNCHANGED <<sock, peer>>, NEW w \in Pdu,
         \/ UNCHANGED <<sendq, wire>>
         \/ /\ \E res \in {0, -1} : IoStateSend(w, res)
            /\ inq # <<>> /\ Head(inq) \in Cmd /\ w \in P!Answers(Head(inq))
  PROVE  P!Close
<1>1. /\ sendq \in Seq(Pdu) /\ wire \in Seq(Pdu)
      /\ sendq' \in Seq(Pdu) /\ wire' \in Seq(Pdu)
      /\ sock \in {"open", "closed"} /\ incoming \in Seq(Pdu)
      /\ fd \in {NoFd, SockFd}
      /\ fd = SockFd => sock = "open"
  BY IncomingType DEF IoInv, TypeOK, NotConnected, Attached
<1>2. clientLink # "new" /\ clientLink' = "down" /\ openRequests' = <<>>
  BY <1>1 DEF clientLink, openRequests
<1>3. incoming' = IF peer = "closed" THEN <<>> ELSE wire'
  BY DEF incoming
<1>4. CASE peer = "closed"
  <2>1. incoming' = incoming
    BY <1>3, <1>4 DEF incoming
  <2> QED BY <1>1, <1>2, <1>4, <2>1, Offline DEF clientLink
<1>5. CASE peer # "closed" /\ sock = "closed"
  <2>1. fd = NoFd
    BY <1>1, <1>5
  <2>2. wire' = wire
    BY <2>1 DEF IoStateSend, SendPendingWbufs, LinkBroken
  <2>3. incoming' = incoming
    BY <1>3, <1>5, <2>2 DEF incoming
  <2> QED BY <1>1, <1>2, <1>5, <2>3, Offline DEF clientLink
<1>6. CASE peer # "closed" /\ sock = "open"
  <2>1. /\ link = "up" /\ clientLink = "up"
        /\ incoming = wire \o sendq /\ chan = incoming
        /\ chan' = wire' \o sendq' /\ openRequests = inq
    BY <1>6 DEF incoming, chan, link, clientLink, openRequests
  <2>2. incoming' = wire'
    BY <1>3, <1>6
  <2>3. CASE UNCHANGED <<sendq, wire>>
    <3>1. Len(wire) \in 0..Len(incoming) /\ incoming' = SubSeq(incoming, 1, Len(wire))
      BY <1>1, <2>1, <2>2, <2>3, ConcatPrefix
    <3> QED BY <1>2, <3>1, Ends
  <2>4. CASE /\ \E res \in {0, -1} : IoStateSend(w, res)
             /\ inq # <<>> /\ Head(inq) \in Cmd /\ w \in P!Answers(Head(inq))
    <3>1. chan' = Append(chan, w)
      BY <2>1, <2>4, SendRefines DEF O!Send
    <3>2. wire' \o sendq' = Append(incoming, w)
      BY <2>1, <3>1
    <3>3. \/ wire' = Append(incoming, w)
          \/ \E n \in 0..Len(incoming) : wire' = SubSeq(incoming, 1, n)
      BY <1>1, <3>2, PrefixOfAppend
    <3>4. CASE wire' = Append(incoming, w)
      <4>1. (handler[SERVICE_DTV] = "dtv_handler")' \in BOOLEAN
        OBVIOUS
      <4> QED BY <1>2, <2>1, <2>2, <2>4, <3>4, <4>1 DEF P!Close
    <3>5. CASE \E n \in 0..Len(incoming) : wire' = SubSeq(incoming, 1, n)
      BY <1>2, <2>2, <3>5, Ends
    <3> QED BY <3>3, <3>4, <3>5
  <2> QED BY <2>3, <2>4
<1> QED BY <1>1, <1>4, <1>5, <1>6
-----------------------------------------------------------------------------
(* Commands.                                                               *)

(* The daemon's answers are those of the protocol.                         *)
LEMMA AnswersOfProtocol ==
  ASSUME NEW c \in Cmd
  PROVE  /\ Response(c) = P!Response(c) /\ Response(c) \in P!Answers(c)
         /\ \A status \in CommandErrors(c) : Error(c, status) \in P!Errors(c)
<1>1. CommandErrors(c) \subseteq 1..7
  BY VendorAssumption
  DEF CommandErrors, RegistryErrors, RegisterErrors, UnregisterErrors,
      DtvErrors, FailureStatuses, NoMemory, HalError, ERROR_NONE, ERROR_FAIL,
      ERROR_NOMEM, ERROR_UNSUPPORTED, ERROR_PARM_INVALID
<1>2. \A e : Error(c, e) = P!Error(c, e)
  BY DEF Error, P!Error, OPCODE_ERROR, P!OPCODE_ERROR
<1>3. Response(c) = P!Response(c)
  BY DEF Response, P!Response
<1> QED BY <1>1, <1>2, <1>3 DEF P!Answers, P!Errors, P!ErrorCode

(* What a command that succeeds does to the registration: only the         *)
(* Registry's commands succeed without it, and only they change it         *)
(* (registry.c:81-174).                                                    *)
LEMMA EffectOfSuccess ==
  ASSUME TvdInv, NEW c \in Cmd, CanSucceed(c), CommandEffect(c)
  PROVE  P!Succeeds(c)
<1>1. /\ c.service \in Service /\ SERVICE_DTV \in Service
      /\ handler \in [Service -> {"null", "registry_handler", "dtv_handler"}]
      /\ \A s \in Service :
           /\ handler[s] = "registry_handler" => s = SERVICE_REGISTRY
           /\ handler[s] = "dtv_handler" => s = SERVICE_DTV
  <2>1. \A s \in Service :
           /\ handler[s] = "registry_handler" => s = SERVICE_REGISTRY
           /\ handler[s] = "dtv_handler" => s = SERVICE_DTV
    BY DEF TvdInv, HandlersPlaced, SERVICE_REGISTRY, SERVICE_DTV
  <2> QED BY <2>1, CommandType, ServiceAssumption DEF TvdInv, TvdTypeOK
<1>2. CASE handler[c.service] = "registry_handler"
  <2>1. /\ c.service = SERVICE_REGISTRY
        /\ c.arg = SERVICE_DTV
        /\ \/ c.opcode = OPCODE_REGISTER_MODULE /\ handler[SERVICE_DTV] = "null"
           \/ c.opcode = OPCODE_UNREGISTER_MODULE
    BY <1>1, <1>2 DEF CanSucceed, RegistryCanSucceed
  <2>2. handler'[SERVICE_DTV] = NewHandler(c)
    BY <1>1, <1>2 DEF CommandEffect
  <2>3. CASE c.opcode = OPCODE_REGISTER_MODULE
    <3>1. handler[SERVICE_DTV] = "null" /\ handler'[SERVICE_DTV] = "dtv_handler"
      BY <2>1, <2>2, <2>3
      DEF NewHandler, OPCODE_REGISTER_MODULE, OPCODE_UNREGISTER_MODULE
    <3> QED BY <2>1, <2>3, <3>1
        DEF P!Succeeds, P!IsRegister, SERVICE_REGISTRY, P!SERVICE_REGISTRY,
            SERVICE_DTV, P!SERVICE_DTV,
            OPCODE_REGISTER_MODULE, P!OPCODE_REGISTER_MODULE
  <2>4. CASE c.opcode = OPCODE_UNREGISTER_MODULE
    <3>1. handler'[SERVICE_DTV] = "null"
      BY <2>2, <2>4
      DEF NewHandler, OPCODE_REGISTER_MODULE, OPCODE_UNREGISTER_MODULE
    <3> QED BY <2>1, <2>4, <3>1
        DEF P!Succeeds, P!IsUnregister, SERVICE_REGISTRY, P!SERVICE_REGISTRY,
            SERVICE_DTV, P!SERVICE_DTV,
            OPCODE_UNREGISTER_MODULE, P!OPCODE_UNREGISTER_MODULE
  <2> QED BY <2>1, <2>3, <2>4
<1>3. CASE handler[c.service] # "registry_handler"
  <2>1. handler[c.service] = "dtv_handler" /\ c.service = SERVICE_DTV
    BY <1>1, <1>3 DEF CanSucceed
  <2>2. handler' = handler
    BY <1>3 DEF CommandEffect
  <2> QED BY <2>1, <2>2 DEF P!Succeeds, SERVICE_DTV, P!SERVICE_DTV
<1> QED BY <1>2, <1>3

(* handle_pdu (io.c:328-346): a command is answered once, with its response *)
(* or an error, or the process goes.                                       *)
LEMMA CommandRefines ==
  ASSUME "send" \notin Faults, TvdInv, TvdInv', NEW c \in Cmd,
         CommandSucceeds(c) \/ CommandFails(c) \/ CommandCrashes(c)
  PROVE  P!Next \/ UNCHANGED P!vars
<1>1. /\ IoInv /\ IoInv' /\ Receive(c) /\ loop = "run" /\ funcs = "io"
      /\ UNCHANGED <<sock, peer>>
      /\ inq # <<>> /\ Head(inq) = c /\ inq' = Tail(inq)
  BY DEF TvdInv, CommandSucceeds, CommandFails, CommandCrashes, FdIoInReply,
         FdIoInError, FdIoInCrash, Receive, Reading, Dispatching, connVars
<1>2. sock \in {"open", "closed"} /\ clientLink \in {"up", "down"}
  BY <1>1 DEF IoInv, TypeOK, NotConnected, clientLink
<1>3. \E w \in Pdu :
        /\ w \in P!Answers(c)
        /\ \/ UNCHANGED <<sendq, wire>>
           \/ \E res \in {0, -1} : IoStateSend(w, res)
        /\ \/ /\ loop' # "killed"
              /\ \E res \in {0, -1} : IoStateSend(w, res)
              /\ \/ w = P!Response(c) /\ P!Succeeds(c)
                 \/ w \in P!Errors(c) /\ UNCHANGED handler
           \/ loop' = "killed"
  <2>1. CASE CommandSucceeds(c)
    <3>1. SendPdu(Response(c)) /\ loop' = loop
      BY <2>1 DEF CommandSucceeds, FdIoInReply, SendPdu
    <3>2. P!Succeeds(c)
      BY <2>1, EffectOfSuccess DEF CommandSucceeds
    <3>3. \E res \in {0, -1} : IoStateSend(Response(c), res)
      BY <3>1 DEF SendPdu
    <3> QED BY <1>1, <3>1, <3>2, <3>3, AnswersArePdus, AnswersOfProtocol
  <2>2. CASE CommandFails(c)
    <3>1. PICK status \in CommandErrors(c) : FdIoInError(c, Error(c, status))
      BY <2>2 DEF CommandFails
    <3>2. /\ Error(c, status) \in Pdu
          /\ Error(c, status) \in P!Errors(c)
          /\ Error(c, status) \in P!Answers(c)
      BY AnswersArePdus, AnswersOfProtocol DEF P!Answers
    <3>3. UNCHANGED handler
      BY <2>2 DEF CommandFails, svcVars
    <3>4. \/ /\ \E res \in {0, -1} : IoStateSend(Error(c, status), res)
             /\ loop' \in {"killed", loop}
          \/ loop' = "killed" /\ UNCHANGED <<sendq, wire>>
      BY <3>1 DEF FdIoInError, SendErrorReply, outVars
    <3> QED BY <1>1, <3>2, <3>3, <3>4
  <2>3. CASE CommandCrashes(c)
    <3>1. /\ loop' = "killed"
          /\ \/ UNCHANGED <<sendq, wire>>
             \/ \E res \in {0, -1} : IoStateSend(Response(c), res)
      BY <2>3 DEF CommandCrashes, FdIoInCrash, outVars
    <3> QED BY <3>1, AnswersArePdus, AnswersOfProtocol
  <2> QED BY <2>1, <2>2, <2>3
<1>4. PICK w \in Pdu :
        /\ w \in P!Answers(c)
        /\ \/ UNCHANGED <<sendq, wire>>
           \/ \E res \in {0, -1} : IoStateSend(w, res)
        /\ \/ /\ loop' # "killed"
              /\ \E res \in {0, -1} : IoStateSend(w, res)
              /\ \/ w = P!Response(c) /\ P!Succeeds(c)
                 \/ w \in P!Errors(c) /\ UNCHANGED handler
           \/ loop' = "killed"
  BY <1>3
<1>5. CASE loop' = "killed"
  <2>1. P!Close
    BY <1>1, <1>4, <1>5, KilledRefines
  <2> QED BY <2>1 DEF P!Next
<1>6. CASE loop' # "killed" /\ clientLink = "down"
  <2>1. link = "down" /\ incoming = chan /\ incoming' = chan' /\ clientLink' = link'
    BY <1>1, <1>6, SeenAlive, SeenAliveNext
  <2>2. UNCHANGED <<chan, link>>
    BY <1>1, <1>4, <1>6, <2>1, SendRefines
  <2>3. P!Close
    BY <1>1, <1>6, <2>1, <2>2, Offline
  <2> QED BY <2>3 DEF P!Next
<1>7. CASE loop' # "killed" /\ clientLink = "up"
  <2>1. link = "up" /\ incoming = chan /\ incoming' = chan' /\ clientLink' = link'
    BY <1>1, <1>7, SeenAlive, SeenAliveNext
  <2>2. /\ incoming' = Append(incoming, w) /\ clientLink' = "up"
    BY <1>1, <1>4, <1>7, <2>1, SendRefines DEF O!Send
  <2>3. openRequests = inq /\ openRequests' = inq'
    BY <1>7, <2>2 DEF openRequests
  <2>4. \/ /\ P!Succeeds(c)
           /\ incoming' = Append(incoming, P!Response(c))
        \/ /\ \E e \in P!Errors(c) : incoming' = Append(incoming, e)
           /\ UNCHANGED handler
    BY <1>4, <1>7, <2>2
  <2>5. P!Answer
    BY <1>1, <1>7, <2>2, <2>3, <2>4 DEF P!Answer
  <2> QED BY <2>5 DEF P!Next
<1> QED BY <1>2, <1>5, <1>6, <1>7
-----------------------------------------------------------------------------
(* Everything else the daemon and its client do.                           *)

(* A step of the living daemon that leaves the socket, both its ends and   *)
(* the registration alone.                                                 *)
LEMMA QuietVisible ==
  ASSUME loop # "killed", loop' # "killed",
         UNCHANGED <<sendq, wire, sock, peer, inq>>,
         handler'[SERVICE_DTV] = handler[SERVICE_DTV]
  PROVE  UNCHANGED P!vars
<1>1. UNCHANGED <<incoming, clientLink>>
  BY DEF incoming, clientLink
<1>2. UNCHANGED openRequests
  BY <1>1 DEF openRequests
<1> QED BY <1>1, <1>2, Unseen

(* Entering or removing the Registry's handler is not seen. *)
LEMMA RegistryUnseen ==
  ASSUME TvdInv, NEW f, handler' = [handler EXCEPT ![SERVICE_REGISTRY] = f]
  PROVE  handler'[SERVICE_DTV] = handler[SERVICE_DTV]
BY ServiceAssumption DEF TvdInv, TvdTypeOK, SERVICE_REGISTRY, SERVICE_DTV

(* The daemon closes its end. *)
LEMMA CloseVisible ==
  ASSUME IoInv, loop # "killed", loop' # "killed",
         sock # "none", sock' = "closed", UNCHANGED <<wire, peer>>
  PROVE  P!Close
<1>1. incoming = chan /\ clientLink = link /\ incoming' = chan' /\ clientLink' = link'
  BY SeenAlive, SeenAliveNext
<1>2. clientLink # "new" /\ clientLink' = "down"
  BY <1>1 DEF link
<1>3. CASE O!Close
  <2>1. PICK n \in 0..Len(incoming) : incoming' = SubSeq(incoming, 1, n)
    BY <1>1, <1>3 DEF O!Close
  <2> QED BY <1>2, <2>1, Ends
<1>4. CASE UNCHANGED <<chan, link>>
  BY <1>1, <1>2, <1>4, Offline
<1> QED BY <1>3, <1>4, CloseRefines

(* main.c and the connection request: the client is served from the moment *)
(* its connection is there.                                                *)
LEMMA SetupVisible ==
  ASSUME TvdInv, \/ OptionsExit \/ InitTaskQueueFails \/ StartDaemon \/ StartFails
                 \/ ConnectFails \/ Connected
  PROVE  P!Open \/ UNCHANGED P!vars
<1>1. CASE OptionsExit \/ InitTaskQueueFails \/ StartFails
  BY <1>1, QuietVisible
  DEF OptionsExit, InitTaskQueueFails, StartFails, NotStarted, InitIoFails,
      connVars, outVars, svcVars, tvdVars
<1>2. CASE StartDaemon
  <2>1. /\ loop = "start" /\ sock = "none" /\ peer = "open"
        /\ wire = <<>> /\ sendq = <<>> /\ inq = <<>>
    BY <1>2 DEF StartDaemon, InitIo, TvdInv, IoInv, NotConnected, Unconnected
  <2>2. /\ loop' = "run" /\ sock' = "open"
        /\ UNCHANGED <<peer, wire, sendq, inq, handler>>
    BY <1>2 DEF StartDaemon, InitIo, outVars, svcVars
  <2>3. clientLink = "new" /\ clientLink' = "up" /\ UNCHANGED incoming
    BY <2>1, <2>2 DEF clientLink, incoming
  <2>4. openRequests = <<>> /\ openRequests' = <<>>
    BY <2>1, <2>2, <2>3 DEF openRequests
  <2> QED BY <2>2, <2>3, <2>4 DEF P!Open
<1>3. CASE ConnectFails
  BY <1>3, QuietVisible
  DEF ConnectFails, FdConErr, Dispatching, connVars, outVars, svcVars, tvdVars
<1>4. CASE Connected
  <2>1. /\ loop = "run" /\ loop' \in {"run", "abort"}
        /\ sendq = <<>> /\ sendq' = <<>> /\ UNCHANGED <<wire, sock, peer, inq>>
    BY <1>4 DEF Connected, FdConOut, Dispatching, ConnectedSocket, TvdInv,
                IoInv, Connecting, connVars, outVars
  <2>2. handler'[SERVICE_DTV] = handler[SERVICE_DTV]
    BY <1>4, RegistryUnseen DEF Connected
  <2> QED BY <2>1, <2>2, QuietVisible
<1> QED BY <1>1, <1>2, <1>3, <1>4

(* The packets that are no commands, and the end of input (io.c:176-207).  *)
LEMMA OtherInputVisible ==
  ASSUME TvdInv, OtherInput
  PROVE  P!Ignore \/ UNCHANGED P!vars
<1>1. /\ loop = "run" /\ loop' \in {"run", "abort"}
      /\ UNCHANGED <<sendq, wire, sock, peer, handler>>
  BY DEF OtherInput, FdIoInShort, FdIoInOversize, FdIoInEof, FdIoInEmpty,
         FdIoInFails, StopsReading, Receive, Reading, Dispatching, connVars,
         outVars, svcVars
<1>2. UNCHANGED <<incoming, clientLink>>
  BY <1>1 DEF incoming, clientLink
<1>3. CASE FdIoInEof \/ FdIoInFails
  BY <1>1, <1>3, QuietVisible DEF FdIoInEof, FdIoInFails
<1>4. CASE FdIoInShort \/ FdIoInOversize \/ FdIoInEmpty
  <2>1. /\ inq # <<>> /\ inq' = Tail(inq)
        /\ Head(inq) \in {Short, Oversize} \union Empty
    BY <1>4 DEF FdIoInShort, FdIoInOversize, FdIoInEmpty, Receive
  <2>2. CASE clientLink = "up"
    <3>1. openRequests = inq /\ openRequests' = inq'
      BY <1>2, <2>2 DEF openRequests
    <3> QED BY <1>1, <1>2, <2>1, <2>2, <3>1 DEF P!Ignore
  <2>3. CASE clientLink # "up"
    <3>1. UNCHANGED openRequests
      BY <1>2, <2>3 DEF openRequests
    <3> QED BY <1>1, <1>2, <3>1, Unseen
  <2> QED BY <2>2, <2>3
<1> QED BY <1>3, <1>4 DEF OtherInput

(* The callbacks of a broken or closed connection, and program exit. *)
LEMMA ShutdownVisible ==
  ASSUME TvdInv, SocketErr \/ SocketHup \/ Uninit
  PROVE  P!Close \/ UNCHANGED P!vars
<1>1. CASE SocketErr \/ SocketHup
  <2>1. /\ loop = "run" /\ loop' \in {"run", "exit"} /\ sock' = "closed"
        /\ UNCHANGED <<wire, peer>>
    BY <1>1 DEF SocketErr, SocketHup, FdIoErr, FdIoHup, CloseConnection,
                Dispatching
  <2>2. IoInv /\ sock # "none"
    BY <2>1 DEF TvdInv, IoInv, NotConnected
  <2> QED BY <2>1, <2>2, CloseVisible
<1>2. CASE Uninit
  <2>1. /\ loop \in {"exit", "abort"} /\ loop' = "done"
        /\ UNCHANGED <<sendq, wire, peer>>
        /\ IF fd = NoFd THEN UNCHANGED <<sock, inq>> ELSE sock' = "closed"
    BY <1>2 DEF Uninit, UninitIo, outVars
  <2>2. IoInv /\ sock # "none"
    BY <2>1 DEF TvdInv, IoInv, NotConnected
  <2>3. handler'[SERVICE_DTV] = handler[SERVICE_DTV]
    BY <1>2, RegistryUnseen DEF Uninit
  <2>4. CASE fd = NoFd
    BY <2>1, <2>3, <2>4, QuietVisible
  <2>5. CASE fd # NoFd
    BY <2>1, <2>2, <2>5, CloseVisible
  <2> QED BY <2>4, <2>5
<1> QED BY <1>1, <1>2

(* fd_io_out moves PDUs towards the client, which it does not see. *)
LEMMA OutputVisible ==
  ASSUME "send" \notin Faults, TvdInv, Output
  PROVE  UNCHANGED P!vars
<1>1. /\ FdIoOut /\ IoInv /\ loop = "run" /\ loop' \in {"run", "abort"}
      /\ UNCHANGED <<handler, inq>>
  BY DEF Output, FdIoOut, Dispatching, TvdInv, tvdVars, svcVars
<1>2. UNCHANGED <<incoming, clientLink>>
  BY <1>1, OutputRefines, SeenAlive, SeenAliveNext
<1>3. UNCHANGED openRequests
  BY <1>1, <1>2 DEF openRequests
<1> QED BY <1>1, <1>2, <1>3, Unseen

(* A notification is sent from the task queue, and only while the service  *)
(* is registered (dtv_io.c:54-57); a fault of the vendor's thread ends     *)
(* everything.                                                             *)
LEMMA NotificationVisible ==
  ASSUME "send" \notin Faults, ~UninitFails, TvdInv, TvdInv',
         SendNtf \/ \E n \in Ntf : VendorNotify(n) \/ VendorCrashes(n)
  PROVE  P!Next \/ UNCHANGED P!vars
<1>0. IoInv /\ IoInv'
  BY DEF TvdInv
<1>1. CASE \E n \in Ntf : VendorNotify(n)
  BY <1>1, QuietVisible DEF VendorNotify, ioVars, svcVars
<1>2. CASE \E n \in Ntf : VendorCrashes(n)
  <2>1. /\ loop = "run" /\ funcs = "io" /\ loop' = "killed"
        /\ UNCHANGED <<sock, peer, sendq, wire>>
    BY <1>2 DEF VendorCrashes, OtherThreadCrashes, connVars, outVars
  <2>2. \E n : n \in Pdu
    BY <1>2, NtfIsPdu
  <2> QED BY <1>0, <2>1, <2>2, KilledRefines DEF P!Next
<1>3. CASE SendNtf /\ ~dtv_send_pdu
  BY <1>3, QuietVisible DEF SendNtf, ioVars, svcVars
<1>4. CASE SendNtf /\ dtv_send_pdu
  <2> DEFINE n == Head(tasks)
  <2>1. n \in Ntf /\ n \in Pdu /\ handler[SERVICE_DTV] = "dtv_handler"
    BY <1>4, TaskIsPdu, NtfIsPdu DEF SendNtf, TvdInv, DispatchReady
  <2>2. /\ RunTask(n) /\ loop = "run" /\ loop' = "run" /\ funcs = "io"
        /\ UNCHANGED <<sock, peer, inq, handler>>
    BY <1>4 DEF SendNtf, RunTask, SendPdu, connVars, svcVars
  <2>3. PICK res \in {0, -1} : IoStateSend(n, res)
    BY <2>2 DEF RunTask, SendPdu
  <2>4. /\ IF link = "up" THEN O!Send(n) ELSE UNCHANGED <<chan, link>>
        /\ incoming = chan /\ clientLink = link
        /\ incoming' = chan' /\ clientLink' = link'
    BY <1>0, <2>1, <2>2, <2>3, SendRefines, SeenAlive, SeenAliveNext
  <2>5. UNCHANGED clientLink /\ UNCHANGED openRequests
    BY <2>2, <2>4 DEF O!Send, openRequests
  <2>6. CASE link = "up"
    <3>1. P!Notify(n)
      BY <2>1, <2>2, <2>4, <2>5, <2>6 DEF P!Notify, O!Send
    <3> QED BY <2>1, <3>1 DEF P!Next
  <2>7. CASE link # "up"
    BY <2>2, <2>4, <2>5, <2>7, Unseen
  <2> QED BY <2>6, <2>7
<1> QED BY <1>1, <1>2, <1>3, <1>4

(* The client's own steps, with a daemon that lives or not. *)
LEMMA ClientVisible ==
  ASSUME TvdInv, TvdClient
  PROVE  P!Next \/ UNCHANGED P!vars
<1>1. /\ IoInv /\ UNCHANGED <<loop, sock, sendq, handler>>
      /\ wire \in Seq(Pdu) /\ sendq \in Seq(Pdu)
  BY DEF TvdInv, IoInv, TypeOK, TvdClient, ClientSend, ClientRecv, ClientShutWr,
         ClientClose, ConnectError, clientUnchanged, connVars, tvdVars, svcVars
<1>2. CASE \E p \in Packet : ClientSend(p)
  <2>1. PICK p \in Packet : ClientSend(p)
    BY <1>2
  <2>2. UNCHANGED <<incoming, clientLink>>
    BY <1>1, <2>1 DEF ClientSend, incoming, clientLink
  <2>3. CASE clientLink = "up"
    <3>1. openRequests' = Append(openRequests, p)
      BY <2>1, <2>2, <2>3 DEF ClientSend, openRequests
    <3>2. P!Request(p)
      BY <1>1, <2>2, <2>3, <3>1 DEF P!Request
    <3>3. p \in Cmd \union ({Short, Oversize} \union Empty)
      BY DEF Packet
    <3> QED BY <3>2, <3>3 DEF P!Next
  <2>4. CASE clientLink # "up"
    <3>1. UNCHANGED openRequests
      BY <2>2, <2>4 DEF openRequests
    <3> QED BY <1>1, <2>2, <3>1, Unseen
  <2> QED BY <2>3, <2>4
<1>3. CASE ClientRecv
  <2>1. /\ peer # "closed" /\ wire # <<>> /\ wire' = Tail(wire)
        /\ UNCHANGED <<peer, inq>>
    BY <1>3 DEF ClientRecv
  <2>2. UNCHANGED <<clientLink, openRequests>>
    BY <1>1, <2>1 DEF clientLink, openRequests
  <2>3. incoming # <<>> /\ incoming' = Tail(incoming)
    BY <1>1, <2>1, TailOfConcat DEF incoming
  <2>4. P!Deliver
    BY <1>1, <2>2, <2>3 DEF P!Deliver
  <2> QED BY <2>4 DEF P!Next
<1>4. CASE ClientShutWr \/ ConnectError
  <2>1. /\ UNCHANGED <<wire, inq>>
        /\ peer # "closed" /\ peer' # "closed"
    BY <1>4 DEF ClientShutWr, ConnectError
  <2>2. UNCHANGED <<incoming, clientLink>>
    BY <1>1, <2>1 DEF incoming, clientLink
  <2>3. UNCHANGED openRequests
    BY <2>1, <2>2 DEF openRequests
  <2> QED BY <1>1, <2>2, <2>3, Unseen
<1>5. CASE ClientClose
  <2>1. clientLink # "new" /\ clientLink' = "down" /\ incoming' = <<>>
    BY <1>1, <1>5 DEF ClientClose, clientLink, incoming
  <2>2. 0 \in 0..Len(incoming) /\ SubSeq(incoming, 1, 0) = <<>>
    BY <1>1, IncomingType, LenProperties, SubSeqEmpty
  <2>3. P!Close
    BY <2>1, <2>2, Ends
  <2> QED BY <2>3 DEF P!Next
<1> QED BY <1>2, <1>3, <1>4, <1>5 DEF TvdClient
-----------------------------------------------------------------------------
(* The daemon's state when main starts: no connection, nothing registered. *)
LEMMA ProtocolInit == TvdInit => P!Init
<1> SUFFICES ASSUME TvdInit PROVE P!Init
  OBVIOUS
<1>1. sock = "none" /\ wire = <<>> /\ sendq = <<>> /\ peer = "open" /\ loop = "start"
  BY DEF TvdInit, IoInit
<1>2. clientLink = "new" /\ openRequests = <<>>
  BY <1>1 DEF clientLink, openRequests
<1>3. incoming = <<>>
  BY <1>1, ConcatEmptySeq DEF incoming
<1>4. handler[SERVICE_DTV] = "null"
  BY ServiceAssumption DEF TvdInit
<1> QED BY <1>2, <1>3, <1>4 DEF P!Init

(* One step of the daemon. *)
LEMMA ProtocolStep ==
  ASSUME "send" \notin Faults, ~UninitFails, TvdInv, TvdInv', [TvdNext]_vars
  PROVE  [P!Next]_(P!vars)
<1>1. CASE \/ OptionsExit \/ InitTaskQueueFails \/ StartDaemon \/ StartFails
           \/ ConnectFails \/ Connected
  BY <1>1, SetupVisible DEF P!Next
<1>2. CASE SocketErr \/ SocketHup \/ Uninit
  BY <1>2, ShutdownVisible DEF P!Next
<1>3. CASE OtherInput
  BY <1>3, OtherInputVisible DEF P!Next
<1>4. CASE \E c \in Cmd : CommandSucceeds(c) \/ CommandFails(c) \/ CommandCrashes(c)
  BY <1>4, CommandRefines
<1>5. CASE Output
  BY <1>5, OutputVisible
<1>6. CASE SendNtf \/ \E n \in Ntf : VendorNotify(n) \/ VendorCrashes(n)
  BY <1>6, NotificationVisible
<1>7. CASE TvdClient
  BY <1>7, ClientVisible
<1>8. CASE UNCHANGED vars
  <2>1. UNCHANGED <<incoming, clientLink, handler>>
    BY <1>8 DEF vars, ioVars, tvdVars, svcVars, incoming, clientLink
  <2>2. UNCHANGED openRequests
    BY <1>8, <2>1 DEF vars, ioVars, openRequests
  <2> QED BY <2>1, <2>2, Unseen
<1> QED BY <1>1, <1>2, <1>3, <1>4, <1>5, <1>6, <1>7, <1>8 DEF TvdNext, Input

(* The daemon implements the protocol of doc/ipc.txt: every command is     *)
(* answered once and in order, only successful Registry commands change    *)
(* what is registered, an unregistered DTV service neither answers nor     *)
(* notifies (io.c:153-219 and 328-346, registry.c:81-174, dtv_io.c:48-84). *)
THEOREM TvdImplementsProtocol ==
  ASSUME "send" \notin Faults, ~UninitFails
  PROVE  TvdSpec => ProtocolSpec
<1>1. TvdInv /\ TvdInv' /\ [TvdNext]_vars => [P!Next]_(P!vars)
  BY ProtocolStep
<1> QED BY <1>1, ProtocolInit, TvdInvInvariant, PTL
    DEF TvdSpec, ProtocolSpec, P!Spec
=============================================================================
