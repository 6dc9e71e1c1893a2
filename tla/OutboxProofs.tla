---------------------------- MODULE OutboxProofs ----------------------------
(***************************************************************************)
(* IoState implements Outbox: as long as sendmsg does not fail on a        *)
(* working connection, the client reads what was handed to io_state_send,  *)
(* in order and once.  Any other call may fail.                            *)
(***************************************************************************)
EXTENDS IoStateProofs

(* A prefix cut out of a concatenation. *)
LEMMA ConcatPrefix ==
  ASSUME NEW S, NEW s \in Seq(S), NEW t \in Seq(S)
  PROVE  /\ Len(s) \in 0..Len(s \o t)
         /\ SubSeq(s \o t, 1, Len(s)) = s
<1>1. /\ Len(s) \in Nat /\ Len(t) \in Nat
      /\ s \o t \in Seq(S) /\ Len(s \o t) = Len(s) + Len(t)
  BY LenProperties, ConcatProperties
<1>2. CASE s = <<>>
  BY <1>1, <1>2, SubSeqEmpty
<1>3. CASE s # <<>>
  <2>1. 1 \in 1..Len(s) /\ Len(s) \in 1..Len(s)
    BY <1>1, <1>3, EmptySeq
  <2>2. SubSeq(s \o t, 1, Len(s)) = SubSeq(s, 1, Len(s))
    BY <2>1, SubSeqOfConcat1
  <2> QED BY <1>1, <2>2, SubSeqFull
<1> QED BY <1>2, <1>3

(* Taking the head of a concatenation off. *)
LEMMA TailOfConcat ==
  ASSUME NEW S, NEW s \in Seq(S), NEW t \in Seq(S), s # <<>>
  PROVE  s \o t # <<>> /\ Tail(s) \o t = Tail(s \o t)
<1>1. /\ Len(s) \in Nat \ {0} /\ Len(t) \in Nat
      /\ s \o t \in Seq(S) /\ Len(s \o t) = Len(s) + Len(t)
      /\ \A i \in 1..Len(s) + Len(t) :
           (s \o t)[i] = IF i <= Len(s) THEN s[i] ELSE t[i - Len(s)]
  BY LenProperties, ConcatProperties, EmptySeq
<1>2. s \o t # <<>>
  BY <1>1, EmptySeq
<1>3. /\ Tail(s) \in Seq(S) /\ Len(Tail(s)) = Len(s) - 1
      /\ \A i \in 1..Len(s) - 1 : Tail(s)[i] = s[i + 1]
  BY HeadTailProperties
<1>4. /\ Tail(s \o t) \in Seq(S) /\ Len(Tail(s \o t)) = Len(s) + Len(t) - 1
      /\ \A i \in 1..Len(s) + Len(t) - 1 : Tail(s \o t)[i] = (s \o t)[i + 1]
  BY <1>1, <1>2, HeadTailProperties
<1>5. /\ Tail(s) \o t \in Seq(S) /\ Len(Tail(s) \o t) = Len(s) - 1 + Len(t)
      /\ \A i \in 1..Len(s) - 1 + Len(t) :
           (Tail(s) \o t)[i] =
             IF i <= Len(s) - 1 THEN Tail(s)[i] ELSE t[i - (Len(s) - 1)]
  BY <1>1, <1>3, ConcatProperties
<1>6. \A i \in 1..Len(Tail(s) \o t) : (Tail(s) \o t)[i] = Tail(s \o t)[i]
  BY <1>1, <1>3, <1>4, <1>5
<1>7. Tail(s) \o t = Tail(s \o t)
  BY <1>1, <1>4, <1>5, <1>6, SeqEqual
<1> QED BY <1>2, <1>7
-----------------------------------------------------------------------------
(* The queue and the socket as one channel.                                *)

(* Where sendmsg works, flushing moves PDUs and keeps their order. *)
LEMMA FlushRefines ==
  ASSUME "send" \notin Faults, NEW q \in Seq(Pdu), wire \in Seq(Pdu),
         Len(wire) <= SockCap, SendPendingWbufs(q), ~LinkBroken
  PROVE  wire' \o sendq' = wire \o q
BY FlushKeepsOrder DEF SendPendingWbufs

(* io_state_send appends to the channel, or drops the PDU when the         *)
(* connection is over.                                                     *)
LEMMA SendRefines ==
  ASSUME "send" \notin Faults, IoInv, NEW w \in Pdu, NEW res,
         IoStateSend(w, res), loop = "run", funcs = "io",
         UNCHANGED <<sock, peer>>
  PROVE  IF link = "up" THEN O!Send(w) ELSE UNCHANGED <<chan, link>>
<1>1. /\ sendq \in Seq(Pdu) /\ wire \in Seq(Pdu) /\ Len(wire) <= SockCap
      /\ sock # "none"
      /\ fd = SockFd => sock = "open"
      /\ fd = NoFd => sock = "closed"
      /\ fd \in {NoFd, SockFd} /\ sock \in {"open", "closed"}
  BY DEF IoInv, TypeOK, SocketBound, Attached, Disconnected, NotConnected
<1>2. SendPendingWbufs(Append(sendq, w)) /\ Append(sendq, w) \in Seq(Pdu)
  BY <1>1, AppendProperties DEF IoStateSend
<1>3. CASE peer = "closed"
  BY <1>3 DEF chan, link
<1>4. CASE peer # "closed" /\ fd = NoFd
  <2>1. wire' = wire
    BY <1>2, <1>4 DEF SendPendingWbufs, LinkBroken
  <2> QED BY <1>1, <1>4, <2>1 DEF chan, link
<1>5. CASE peer # "closed" /\ fd = SockFd
  <2>1. wire' \o sendq' = wire \o Append(sendq, w)
    BY <1>1, <1>2, <1>5, FlushRefines DEF LinkBroken
  <2>2. wire \o Append(sendq, w) = Append(wire \o sendq, w)
    <3>1. Append(sendq, w) = sendq \o <<w>> /\ <<w>> \in Seq(Pdu)
      BY <1>1, AppendIsConcat
    <3>2. Append(wire \o sendq, w) = (wire \o sendq) \o <<w>>
      BY <1>1, AppendIsConcat, ConcatProperties
    <3> QED BY <1>1, <3>1, <3>2, ConcatAssociative
  <2> QED BY <1>1, <1>5, <2>1, <2>2 DEF O!Send, chan, link
<1> QED BY <1>1, <1>3, <1>4, <1>5

(* A flush by itself is invisible. *)
LEMMA OutputRefines ==
  ASSUME "send" \notin Faults, IoInv, FdIoOut
  PROVE  UNCHANGED <<chan, link>>
<1>1. /\ sendq \in Seq(Pdu) /\ wire \in Seq(Pdu) /\ Len(wire) <= SockCap
      /\ fd = NoFd => sock = "closed"
  BY DEF IoInv, TypeOK, SocketBound, Disconnected, FdIoOut, Dispatching
<1>2. SendPendingWbufs(sendq) /\ UNCHANGED <<sock, peer>>
  BY DEF FdIoOut, connVars
<1>3. CASE LinkBroken
  <2>1. wire' = wire
    BY <1>2, <1>3 DEF SendPendingWbufs
  <2> QED BY <1>1, <1>2, <1>3, <2>1 DEF LinkBroken, chan, link
<1>4. CASE ~LinkBroken
  <2>1. wire' \o sendq' = wire \o sendq
    BY <1>1, <1>2, <1>4, FlushRefines
  <2>2. sock # "closed"
    BY <1>4 DEF IoInv, TypeOK, Attached, FdIoOut, Dispatching, LinkBroken,
                SockFd
  <2> QED BY <1>2, <2>1, <2>2 DEF chan, link
<1> QED BY <1>3, <1>4

(* Either end closing keeps a prefix of the channel. *)
LEMMA CloseRefines ==
  ASSUME IoInv, sock # "none", sock' = "closed", UNCHANGED <<wire, peer>>
  PROVE  O!Close \/ UNCHANGED <<chan, link>>
<1>1. sendq \in Seq(Pdu) /\ wire \in Seq(Pdu) /\ sock \in {"open", "closed"}
  BY DEF IoInv, TypeOK
<1>2. CASE peer = "closed"
  BY <1>1, <1>2 DEF chan, link
<1>3. CASE peer # "closed" /\ sock = "closed"
  BY <1>3 DEF chan, link
<1>4. CASE peer # "closed" /\ sock = "open"
  <2>1. chan = wire \o sendq /\ chan' = wire /\ link = "up" /\ link' = "down"
    BY <1>4 DEF chan, link
  <2>2. Len(wire) \in 0..Len(chan) /\ chan' = SubSeq(chan, 1, Len(wire))
    BY <1>1, <2>1, ConcatPrefix
  <2> QED BY <2>1, <2>2 DEF O!Close
<1> QED BY <1>1, <1>2, <1>3, <1>4
-----------------------------------------------------------------------------
(* Every step of IoState is a step of the channel, or invisible.           *)

(* Before the connection is up, the channel is empty and new. *)
LEMMA InitRefines == IoInit => O!Init
BY ConcatEmptySeq DEF IoInit, O!Init, chan, link

(* A step that leaves the queue, the socket and its ends alone.            *)
LEMMA QuietRefines ==
  ASSUME UNCHANGED <<sendq, wire, sock, peer>>
  PROVE  UNCHANGED <<chan, link>>
BY DEF chan, link

(* Setting the connection up opens the channel. *)
LEMMA SetupRefines ==
  ASSUME IoInv, InitIo \/ InitIoFails \/ NotStarted \/ FdConErr \/ FdConOut
  PROVE  O!Open \/ UNCHANGED <<chan, link>>
<1>1. CASE InitIo
  <2>1. sock = "none" /\ peer = "open" /\ wire = <<>> /\ sendq = <<>>
    BY <1>1 DEF InitIo, IoInv, NotConnected, Unconnected
  <2>2. sock' = "open" /\ UNCHANGED <<peer, wire, sendq>>
    BY <1>1 DEF InitIo, outVars
  <2> QED BY <2>1, <2>2 DEF O!Open, chan, link
<1>2. CASE InitIoFails \/ NotStarted \/ FdConErr
  BY <1>2, QuietRefines
  DEF InitIoFails, NotStarted, FdConErr, outVars, connVars
<1>3. CASE FdConOut
  <2>1. sendq = <<>>
    BY <1>3 DEF FdConOut, Dispatching, IoInv, Connecting
  <2>2. sendq' = <<>> /\ UNCHANGED <<wire, sock, peer>>
    BY <1>3, <2>1 DEF FdConOut, ConnectedSocket, outVars, connVars
  <2> QED BY <2>1, <2>2, QuietRefines
<1> QED BY <1>1, <1>2, <1>3

(* A packet read from the client sends at most one PDU.                    *)
LEMMA InputRefines ==
  ASSUME "send" \notin Faults, IoInv, FdIoIn
  PROVE  (\E w \in Pdu : O!Send(w)) \/ UNCHANGED <<chan, link>>
<1>1. CASE \E p \in Cmd, w \in Pdu :
             FdIoInReply(p, w) \/ FdIoInError(p, w) \/ FdIoInCrash(p, w)
  <2>1. PICK p \in Cmd, w \in Pdu :
               FdIoInReply(p, w) \/ FdIoInError(p, w) \/ FdIoInCrash(p, w)
    BY <1>1
  <2>2. Receive(p)
    BY <2>1 DEF FdIoInReply, FdIoInError, FdIoInCrash
  <2>3. \/ UNCHANGED <<outVars, watchVars>>
        \/ \E res \in {0, -1} : IoStateSend(w, res)
    BY <2>1 DEF FdIoInReply, FdIoInError, FdIoInCrash, SendPdu, SendErrorReply
  <2>4. loop = "run" /\ funcs = "io" /\ UNCHANGED <<sock, peer>>
    BY <2>2 DEF Receive, Reading, Dispatching, connVars
  <2>5. CASE UNCHANGED <<outVars, watchVars>>
    BY <2>4, <2>5, QuietRefines DEF outVars
  <2>6. CASE \E res \in {0, -1} : IoStateSend(w, res)
    BY <2>4, <2>6, SendRefines
  <2> QED BY <2>3, <2>5, <2>6
<1>2. CASE FdIoInShort \/ FdIoInOversize \/ FdIoInEof \/ FdIoInEmpty \/ FdIoInFails
  BY <1>2, QuietRefines
  DEF FdIoInShort, FdIoInOversize, FdIoInEof, FdIoInEmpty, FdIoInFails,
      StopsReading, Receive, outVars, connVars
<1> QED BY <1>1, <1>2 DEF FdIoIn

(* A task sends one PDU. *)
LEMMA TaskRefines ==
  ASSUME "send" \notin Faults, IoInv, NEW w \in Pdu, RunTask(w)
  PROVE  O!Send(w) \/ UNCHANGED <<chan, link>>
BY SendRefines DEF RunTask, SendPdu, connVars

(* tvd's own ways of ending the connection. *)
LEMMA ShutdownRefines ==
  ASSUME IoInv, FdIoErr \/ FdIoHup \/ UninitIo
  PROVE  O!Close \/ UNCHANGED <<chan, link>>
<1>1. CASE FdIoErr \/ FdIoHup
  <2>1. sock # "none"
    BY <1>1 DEF FdIoErr, FdIoHup, Dispatching, IoInv, NotConnected
  <2>2. sock' = "closed" /\ UNCHANGED <<wire, peer>>
    BY <1>1 DEF FdIoErr, FdIoHup, CloseConnection
  <2> QED BY <2>1, <2>2, CloseRefines
<1>2. CASE UninitIo /\ fd = NoFd
  BY <1>2, QuietRefines DEF UninitIo, outVars
<1>3. CASE UninitIo /\ fd # NoFd
  <2>1. sock # "none"
    BY <1>3 DEF UninitIo, IoInv, NotConnected
  <2>2. sock' = "closed" /\ UNCHANGED <<wire, peer>>
    BY <1>3 DEF UninitIo, outVars
  <2> QED BY <2>1, <2>2, CloseRefines
<1> QED BY <1>1, <1>2, <1>3

(* The client takes the oldest PDU, or cuts the channel off. *)
LEMMA ClientRefines ==
  ASSUME IoInv, Client
  PROVE  O!Deliver \/ O!Close \/ UNCHANGED <<chan, link>>
<1>1. sendq \in Seq(Pdu) /\ wire \in Seq(Pdu) /\ UNCHANGED <<sock, sendq>>
  BY DEF IoInv, TypeOK, Client, ClientSend, ClientRecv, ClientShutWr,
         ClientClose, ConnectError, clientUnchanged, connVars
<1>2. CASE (\E p \in Packet : ClientSend(p)) \/ ConnectError
  BY <1>1, <1>2, QuietRefines DEF ClientSend, ConnectError
<1>3. CASE ClientShutWr
  BY <1>1, <1>3 DEF ClientShutWr, chan, link
<1>4. CASE ClientRecv
  <2>1. /\ peer # "closed" /\ peer' = peer
        /\ wire # <<>> /\ wire' = Tail(wire) /\ link' = link
    BY <1>1, <1>4 DEF ClientRecv, link
  <2>2. CASE sock = "closed"
    BY <1>1, <2>1, <2>2 DEF O!Deliver, chan
  <2>3. CASE sock # "closed"
    <3>1. chan = wire \o sendq /\ chan' = Tail(wire) \o sendq
      BY <1>1, <2>1, <2>3 DEF chan
    <3> QED BY <1>1, <2>1, <3>1, TailOfConcat DEF O!Deliver
  <2> QED BY <2>2, <2>3
<1>5. CASE ClientClose
  <2>1. /\ chan = wire \o sendq /\ chan' = <<>>
        /\ link = "up" /\ link' = "down"
    BY <1>1, <1>5 DEF ClientClose, chan, link
  <2>2. chan \in Seq(Pdu)
    BY <1>1, <2>1, ConcatProperties
  <2>3. 0 \in 0..Len(chan) /\ SubSeq(chan, 1, 0) = <<>>
    BY <2>2, LenProperties, SubSeqEmpty
  <2> QED BY <2>1, <2>3 DEF O!Close
<1> QED BY <1>2, <1>3, <1>4, <1>5 DEF Client

(* One step of IoState. *)
LEMMA StepRefines ==
  ASSUME "send" \notin Faults, IoInv, [IoNext]_ioVars
  PROVE  [O!Next]_(O!vars)
<1>1. CASE InitIo \/ InitIoFails \/ NotStarted \/ FdConErr \/ FdConOut
  BY <1>1, SetupRefines DEF O!Next, O!vars
<1>2. CASE FdIoErr \/ FdIoHup \/ UninitIo
  BY <1>2, ShutdownRefines DEF O!Next, O!vars
<1>3. CASE FdIoIn
  BY <1>3, InputRefines DEF O!Next, O!vars
<1>4. CASE FdIoOut
  BY <1>4, OutputRefines DEF O!vars
<1>5. CASE \E w \in Pdu : RunTask(w)
  BY <1>5, TaskRefines DEF O!Next, O!vars
<1>6. CASE Client
  BY <1>6, ClientRefines DEF O!Next, O!vars
<1>7. CASE OtherThreadCrashes \/ UNCHANGED ioVars
  BY <1>7, QuietRefines DEF OtherThreadCrashes, connVars, outVars, ioVars, O!vars
<1> QED BY <1>1, <1>2, <1>3, <1>4, <1>5, <1>6, <1>7 DEF IoNext

(* The send path delivers in order and once, for every capacity of the     *)
(* socket and every failure but that of sendmsg on a working connection    *)
(* (io_state_send and io_state_out, io.c:221-298).                         *)
THEOREM ImplementsOutbox ==
  ASSUME "send" \notin Faults
  PROVE  IoSpec => OutboxSpec
<1>1. IoInv /\ [IoNext]_ioVars => [O!Next]_(O!vars)
  BY StepRefines
<1> QED BY <1>1, InitRefines, IoInvInvariant, PTL DEF IoSpec, OutboxSpec, O!Spec
=============================================================================
