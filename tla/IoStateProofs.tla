--------------------------- MODULE IoStateProofs ---------------------------
(***************************************************************************)
(* Proofs about IoState, for every set of commands and PDUs, every socket  *)
(* capacity and every combination of faults.                               *)
(***************************************************************************)
EXTENDS IoState, SequenceTheorems, TLAPS

USE DEF NoFd, SockFd, EPOLLIN, EPOLLOUT, EPOLLERR

-----------------------------------------------------------------------------
(* Sending.                                                                *)

(* One flush moves PDUs from the queue to the socket: it neither loses nor *)
(* reorders one, and leaves the socket within its capacity (io.c:221-238). *)
LEMMA FlushKeepsOrder ==
  ASSUME NEW q \in Seq(Pdu), wire \in Seq(Pdu), Len(wire) <= SockCap,
         FlushInto(q)
  PROVE  /\ wire' \in Seq(Pdu) /\ Len(wire') <= SockCap
         /\ sendq' \in Seq(Pdu)
         /\ wire' \o sendq' = wire \o q
<1> DEFINE k == IF Len(q) <= Room THEN Len(q) ELSE Room
           a == SubSeq(q, 1, k)
           b == SubSeq(q, k + 1, Len(q))
<1>1. k \in 0..Len(q) /\ Len(wire) + k <= SockCap
  BY SockCapAssumption, LenProperties DEF Room
<1>2. wire' = wire \o a /\ sendq' = b
  BY DEF FlushInto
<1> HIDE DEF k
<1>3. a \in Seq(Pdu) /\ Len(a) = k /\ b \in Seq(Pdu)
  <2>1. \A i \in 1..Len(q) : q[i] \in Pdu
    BY ElementOfSeq
  <2>2. Len(q) \in Nat /\ k \in Nat /\ k <= Len(q)
    BY <1>1, LenProperties
  <2>3. \A i \in 1..k : q[i] \in Pdu
    BY <2>1, <2>2
  <2>4. \A i \in (k + 1)..Len(q) : q[i] \in Pdu
    BY <2>1, <2>2
  <2>5. a \in Seq(Pdu) /\ Len(a) = IF 1 <= k THEN k - 1 + 1 ELSE 0
    BY <2>2, <2>3, SubSeqProperties
  <2>6. b \in Seq(Pdu)
    BY <2>2, <2>4, SubSeqProperties
  <2> QED BY <2>2, <2>5, <2>6
<1>4. Len(wire \o a) = Len(wire) + k /\ wire \o a \in Seq(Pdu)
  BY <1>3, ConcatProperties
<1>5. a \o b = q
  <2>1. a \o b = SubSeq(q, 1, Len(q))
    <3>1. 1 \in 1..Len(q) + 1 /\ k \in 1 - 1 .. Len(q) /\ Len(q) \in k..Len(q)
      BY <1>1, LenProperties
    <3> QED BY <3>1, ConcatAdjacentSubSeq
  <2> QED BY <2>1, SubSeqFull
<1>6. (wire \o a) \o b = wire \o (a \o b)
  <2>1. \A x, y \in Seq(Pdu) : (wire \o x) \o y = wire \o (x \o y)
    BY ConcatAssociative
  <2> HIDE DEF a, b
  <2> QED BY <1>3, <2>1, Zenon
<1> QED BY <1>1, <1>2, <1>3, <1>4, <1>5, <1>6

(* Dropping the PDU whose sendmsg failed leaves a queue of PDUs. *)
LEMMA RemoveAtType ==
  ASSUME NEW q \in Seq(Pdu), NEW i \in 1..Len(q)
  PROVE  RemoveAt(q, i) \in Seq(Pdu)
<1>1. \A j \in 1..Len(q) : q[j] \in Pdu
  BY ElementOfSeq
<1>2. Len(q) \in Nat
  BY LenProperties
<1>3. SubSeq(q, 1, i - 1) \in Seq(Pdu)
  <2>1. \A j \in 1..(i - 1) : q[j] \in Pdu
    BY <1>1, <1>2
  <2> QED BY <2>1, <1>2, SubSeqProperties
<1>4. SubSeq(q, i + 1, Len(q)) \in Seq(Pdu)
  <2>1. \A j \in (i + 1)..Len(q) : q[j] \in Pdu
    BY <1>1, <1>2
  <2> QED BY <2>1, <1>2, SubSeqProperties
<1> QED BY <1>3, <1>4, ConcatProperties DEF RemoveAt

(* What every flush of the send queue does to the queue and the socket.    *)
LEMMA SendPendingType ==
  ASSUME NEW q \in Seq(Pdu), wire \in Seq(Pdu), Len(wire) <= SockCap,
         sockerr \in BOOLEAN, SendPendingWbufs(q)
  PROVE  /\ sendq' \in Seq(Pdu)
         /\ wire' \in Seq(Pdu) /\ Len(wire') <= SockCap
         /\ sockerr' \in BOOLEAN
         /\ LinkBroken => sendq' = <<>> /\ wire' = wire
<1>1. CASE LinkBroken
  BY <1>1 DEF SendPendingWbufs
<1>2. CASE ~LinkBroken /\ FlushInto(q) /\ UNCHANGED sockerr
  BY <1>2, FlushKeepsOrder
<1>3. CASE /\ ~LinkBroken /\ UNCHANGED sockerr
           /\ \E i \in 1..Len(q) : i <= Room + 1 /\ FlushInto(RemoveAt(q, i))
  <2>1. PICK i \in 1..Len(q) : FlushInto(RemoveAt(q, i))
    BY <1>3
  <2>2. RemoveAt(q, i) \in Seq(Pdu)
    BY RemoveAtType
  <2> QED BY <1>3, <2>1, <2>2, FlushKeepsOrder
<1> QED BY <1>1, <1>2, <1>3 DEF SendPendingWbufs

(* io_state_send on a served connection: the queue and the socket keep     *)
(* their types and bound, the events their agreement with the loop, and    *)
(* what stays queued is watched unless registering failed (io.c:267-298).  *)
LEMMA SendKeepsWatch ==
  ASSUME IoInv, NEW w \in Pdu, NEW res, IoStateSend(w, res)
  PROVE  /\ sendq' \in Seq(Pdu)
         /\ wire' \in Seq(Pdu) /\ Len(wire') <= SockCap
         /\ sockerr' \in BOOLEAN
         /\ epoll_events' \subseteq EpollEvent /\ watched' \subseteq EpollEvent
         /\ LinkBroken => UNCHANGED watchVars /\ UNCHANGED wire /\ sendq' = <<>>
         /\ watched = epoll_events => watched' = epoll_events'
         /\ epoll_events \subseteq epoll_events'
         /\ sendq' # <<>> /\ "epoll" \notin Faults => EPOLLOUT \in epoll_events'
<1>1. Append(sendq, w) \in Seq(Pdu)
  BY AppendProperties DEF IoInv, TypeOK
<1>2. SendPendingWbufs(Append(sendq, w))
  BY DEF IoStateSend
<1>3. /\ sendq' \in Seq(Pdu)
      /\ wire' \in Seq(Pdu) /\ Len(wire') <= SockCap
      /\ sockerr' \in BOOLEAN
      /\ LinkBroken => sendq' = <<>> /\ wire' = wire
  BY <1>1, <1>2, SendPendingType DEF IoInv, TypeOK, SocketBound
<1>4. CASE ~NeedsWatch /\ UNCHANGED watchVars
  BY <1>3, <1>4 DEF NeedsWatch, watchVars, IoInv, TypeOK
<1>5. CASE NeedsWatch /\ Watch(epoll_events \union {EPOLLOUT})
  BY <1>3, <1>5 DEF NeedsWatch, Watch, IoInv, TypeOK, EpollEvent
<1>6. CASE NeedsWatch /\ "epoll" \in Faults /\ UNCHANGED watchVars
  BY <1>3, <1>6 DEF NeedsWatch, watchVars, IoInv, TypeOK
<1> QED BY <1>4, <1>5, <1>6 DEF IoStateSend
-----------------------------------------------------------------------------
(* The inductive invariant.                                                *)

USE DEF IoInv, TypeOK, NotConnected, Unconnected, Connecting, Attached,
        Watching, Disconnected, Running, Released, Exited, SocketBound,
        ClosedOnce, NoLostWakeup, Serving, LoopState, EpollEvent

(* The invariant holds before init_io. *)
LEMMA IoInvInit == IoInit => IoInv
<1> SUFFICES ASSUME IoInit PROVE IoInv
  OBVIOUS
<1>1. sendq \in Seq(Pdu) /\ wire \in Seq(Pdu) /\ inq \in Seq(Packet)
  BY EmptySeq DEF IoInit
<1>2. Len(wire) <= SockCap
  BY SockCapAssumption DEF IoInit
<1> QED BY <1>1, <1>2 DEF IoInit

(* A step that sends one PDU and otherwise only may take the process down. *)
LEMMA SendStep ==
  ASSUME IoInv, NEW w \in Pdu, NEW res, IoStateSend(w, res),
         loop = "run", funcs = "io",
         loop' \in {"run", "killed"}, UNCHANGED <<connVars, peer>>,
         inq' \in Seq(Packet)
  PROVE  IoInv'
<1>1. /\ sendq' \in Seq(Pdu)
      /\ wire' \in Seq(Pdu) /\ Len(wire') <= SockCap
      /\ sockerr' \in BOOLEAN
      /\ epoll_events' \subseteq EpollEvent /\ watched' \subseteq EpollEvent
      /\ LinkBroken => UNCHANGED watchVars /\ UNCHANGED wire /\ sendq' = <<>>
      /\ watched = epoll_events => watched' = epoll_events'
      /\ epoll_events \subseteq epoll_events'
      /\ sendq' # <<>> /\ "epoll" \notin Faults => EPOLLOUT \in epoll_events'
  BY SendKeepsWatch
<1> QED BY <1>1 DEF connVars, watchVars, LinkBroken

(* A step that leaves the connection, its queue and the loop's view of it. *)
LEMMA QuietStep ==
  ASSUME IoInv, UNCHANGED <<connVars, watchVars, sendq>>,
         wire' \in Seq(Pdu), Len(wire') <= Len(wire),
         wire' = wire \/ wire # <<>>,
         sockerr' \in BOOLEAN, inq' \in Seq(Packet),
         peer' \in {"open", "shutwr", "closed"},
         peer' = peer \/ sock # "none",
         inq' = inq \/ loop = "run" \/ sock # "none",
         \/ loop' = loop
         \/ /\ loop = "run" /\ loop' \in {"abort", "killed"}
            /\ loop' = "killed" => funcs = "io"
  PROVE  IoInv'
BY SockCapAssumption, LenProperties DEF connVars, watchVars
(* A handler consumes its command and sends one PDU, or crashes.           *)
LEMMA ReceiveTypes ==
  ASSUME IoInv, NEW p, Receive(p)
  PROVE  /\ loop = "run" /\ funcs = "io"
         /\ inq' \in Seq(Packet) /\ UNCHANGED <<connVars, peer>>
BY HeadTailProperties DEF Receive, Reading, Dispatching

(* A handler that answers (handle_pdu and send_pdu). *)
LEMMA ReplyStep ==
  ASSUME IoInv, NEW p, NEW w \in Pdu, FdIoInReply(p, w)
  PROVE  IoInv'
<1>1. PICK res \in {0, -1} : IoStateSend(w, res)
  BY DEF FdIoInReply, SendPdu
<1>2. Receive(p) /\ UNCHANGED loop
  BY DEF FdIoInReply, SendPdu
<1> QED BY <1>1, <1>2, ReceiveTypes, SendStep

(* A handler that fails (send_error_reply, with its aborts). *)
LEMMA ErrorStep ==
  ASSUME IoInv, NEW p, NEW w \in Pdu, FdIoInError(p, w)
  PROVE  IoInv'
<1>1. Receive(p) /\ SendErrorReply(w)
  BY DEF FdIoInError
<1>2. CASE \E res \in {0, -1} : /\ IoStateSend(w, res)
                               /\ loop' = IF res < 0 THEN "killed" ELSE loop
  <2>1. PICK res \in {0, -1} : /\ IoStateSend(w, res)
                              /\ loop' = IF res < 0 THEN "killed" ELSE loop
    BY <1>2
  <2>2. loop' \in {"run", "killed"}
    BY <1>1, <2>1, ReceiveTypes
  <2> QED BY <1>1, <2>1, <2>2, ReceiveTypes, SendStep
<1>3. CASE loop' = "killed" /\ UNCHANGED <<outVars, watchVars>>
  BY <1>1, <1>3, ReceiveTypes, QuietStep DEF outVars
<1> QED BY <1>1, <1>2, <1>3 DEF SendErrorReply

(* A handler that takes the process down. *)
LEMMA CrashStep ==
  ASSUME IoInv, NEW p, NEW w \in Pdu, FdIoInCrash(p, w)
  PROVE  IoInv'
<1>1. Receive(p) /\ loop' = "killed"
  BY DEF FdIoInCrash
<1>2. CASE UNCHANGED <<outVars, watchVars>>
  BY <1>1, <1>2, ReceiveTypes, QuietStep DEF outVars
<1>3. CASE \E res \in {0, -1} : IoStateSend(w, res)
  BY <1>1, <1>3, ReceiveTypes, SendStep
<1> QED BY <1>2, <1>3 DEF FdIoInCrash

(* At the end of input the loop and io_state go on agreeing (io.c:180-195). *)
LEMMA StopsReadingStep ==
  ASSUME IoInv, loop = "run", funcs = "io", watched # {}, StopsReading,
         UNCHANGED <<connVars, peer>>, inq' \in Seq(Packet)
  PROVE  IoInv'
BY DEF StopsReading, Watch, WithoutInput, connVars, outVars

(* fd_io_in, with every outcome of io_state_in. *)
LEMMA InputStep == IoInv /\ FdIoIn => IoInv'
<1> SUFFICES ASSUME IoInv, FdIoIn PROVE IoInv'
  OBVIOUS
<1>1. CASE \E p \in Cmd, w \in Pdu :
             FdIoInReply(p, w) \/ FdIoInError(p, w) \/ FdIoInCrash(p, w)
  BY <1>1, ReplyStep, ErrorStep, CrashStep
<1>2. CASE FdIoInShort
  <2>1. Receive(Short) /\ loop' = loop /\ UNCHANGED <<watchVars, outVars>>
    BY <1>2 DEF FdIoInShort
  <2>2. UNCHANGED <<connVars, watchVars, sendq>> /\ UNCHANGED <<wire, sockerr, peer>>
    BY <2>1, ReceiveTypes DEF outVars
  <2>3. inq' \in Seq(Packet) /\ Len(wire') <= Len(wire) /\ loop = "run"
    BY <2>1, <2>2, ReceiveTypes, LenProperties
  <2> QED BY <2>1, <2>2, <2>3, QuietStep
<1>3. CASE FdIoInOversize
  <2>1. Receive(Oversize) /\ loop' = "abort" /\ UNCHANGED <<watchVars, outVars>>
    BY <1>3 DEF FdIoInOversize
  <2>2. UNCHANGED <<connVars, watchVars, sendq, wire, sockerr, peer>>
    BY <2>1, ReceiveTypes DEF outVars
  <2>3. loop = "run" /\ inq' \in Seq(Packet)
    BY <2>1, ReceiveTypes
  <2> QED BY <2>1, <2>2, <2>3, QuietStep
<1>4. CASE FdIoInEof
  <2>1. /\ loop = "run" /\ funcs = "io" /\ watched # {} /\ StopsReading
        /\ UNCHANGED <<connVars, peer, inq>>
    BY <1>4 DEF FdIoInEof, Reading, Dispatching
  <2> QED BY <2>1, StopsReadingStep
<1>6. CASE FdIoInEmpty
  <2>1. PICK p \in Empty : Receive(p)
    BY <1>6 DEF FdIoInEmpty
  <2>2. watched # {} /\ StopsReading
    BY <1>6, <2>1 DEF FdIoInEmpty, Receive, Reading, Dispatching
  <2> QED BY <2>1, <2>2, ReceiveTypes, StopsReadingStep
<1>5. CASE FdIoInFails
  <2>1. UNCHANGED <<connVars, watchVars, sendq, wire, peer, inq>>
    BY <1>5 DEF FdIoInFails
  <2>2. loop = "run" /\ loop' = "abort" /\ sockerr' \in BOOLEAN
    BY <1>5 DEF FdIoInFails, Reading, Dispatching
  <2>3. wire' = wire /\ Len(wire') <= Len(wire)
    BY <2>1, LenProperties
  <2> QED BY <2>1, <2>2, <2>3, QuietStep
<1> QED BY <1>1, <1>2, <1>3, <1>4, <1>5, <1>6 DEF FdIoIn

(* fd_io_out: the watched events follow the queue. *)
LEMMA OutputStep == IoInv /\ FdIoOut => IoInv'
<1> SUFFICES ASSUME IoInv, FdIoOut PROVE IoInv'
  OBVIOUS
<1>1. /\ sendq' \in Seq(Pdu)
      /\ wire' \in Seq(Pdu) /\ Len(wire') <= SockCap
      /\ sockerr' \in BOOLEAN
      /\ LinkBroken => sendq' = <<>> /\ wire' = wire
  BY SendPendingType DEF FdIoOut
<1>2. loop = "run" /\ funcs = "io" /\ watched # {} /\ EPOLLOUT \in watched
  BY DEF FdIoOut, Dispatching
<1>3. UNCHANGED <<connVars, peer, inq>>
  BY DEF FdIoOut
<1>4. CASE UNCHANGED <<watchVars, loop>>
  BY <1>1, <1>2, <1>3, <1>4 DEF connVars, watchVars
<1>5. CASE sendq' = <<>> /\ Watch(epoll_events \ {EPOLLOUT}) /\ UNCHANGED loop
  BY <1>1, <1>2, <1>3, <1>5 DEF connVars, Watch
<1>6. CASE /\ sendq' = <<>> /\ loop' = "abort"
           /\ epoll_events' = epoll_events \ {EPOLLOUT} /\ UNCHANGED watched
  BY <1>1, <1>2, <1>3, <1>6 DEF connVars
<1> QED BY <1>4, <1>5, <1>6 DEF FdIoOut, WithoutOutput

(* fd_io_err and fd_io_hup. *)
LEMMA CloseStep ==
  ASSUME IoInv, Dispatching("io"), CloseConnection, loop' \in {"run", "exit"}
  PROVE  IoInv'
BY EmptySeq DEF Dispatching, CloseConnection

(* From init_io to start_main_loop, with every failure on the way. *)
LEMMA SetupStep ==
  ASSUME IoInv, InitIo \/ InitIoFails \/ NotStarted \/ FdConErr \/ FdConOut
  PROVE  IoInv'
<1>1. CASE InitIo
  BY <1>1 DEF InitIo, outVars
<1>2. CASE InitIoFails
  BY <1>2 DEF InitIoFails, outVars, watchVars
<1>3. CASE NotStarted
  BY <1>3 DEF NotStarted, connVars, outVars, watchVars
<1>4. CASE FdConErr
  BY <1>4 DEF FdConErr, Dispatching, connVars, outVars, watchVars
<1>5. CASE FdConOut
  <2>1. loop = "run" /\ funcs = "con" /\ UNCHANGED <<peer, inq>>
    BY <1>5 DEF FdConOut, Dispatching
  <2>2. CASE ConnectedSocket /\ watched' = {EPOLLERR, EPOLLIN} /\ UNCHANGED loop
    BY <2>1, <2>2, EmptySeq DEF ConnectedSocket
  <2>3. CASE ConnectedSocket /\ watched' = {} /\ loop' = "abort"
    BY <2>1, <2>3, EmptySeq DEF ConnectedSocket
  <2>4. CASE /\ watched' = {} /\ loop' = "abort"
             /\ UNCHANGED <<connVars, epoll_events, outVars>>
    BY <2>1, <2>4 DEF connVars, outVars
  <2> QED BY <1>5, <2>2, <2>3, <2>4 DEF FdConOut
<1> QED BY <1>1, <1>2, <1>3, <1>4, <1>5

(* A task of the task queue that sends one PDU. *)
LEMMA TaskStep ==
  ASSUME IoInv, NEW w \in Pdu, RunTask(w)
  PROVE  IoInv'
<1>1. PICK res \in {0, -1} : IoStateSend(w, res)
  BY DEF RunTask, SendPdu
<1>2. loop = "run" /\ funcs = "io" /\ loop' = "run"
  BY DEF RunTask, SendPdu
<1>3. UNCHANGED <<connVars, peer, inq>>
  BY DEF RunTask
<1> QED BY <1>1, <1>2, <1>3, SendStep

(* The process can disappear in the middle of everything. *)
LEMMA CrashElsewhereStep == IoInv /\ OtherThreadCrashes => IoInv'
<1> SUFFICES ASSUME IoInv, OtherThreadCrashes PROVE IoInv'
  OBVIOUS
<1>1. /\ UNCHANGED <<connVars, watchVars, sendq>> /\ UNCHANGED <<wire, sockerr, peer, inq>>
      /\ loop = "run" /\ loop' = "killed" /\ funcs = "io"
  BY DEF OtherThreadCrashes, outVars
<1>2. Len(wire') <= Len(wire)
  BY <1>1, LenProperties
<1> QED BY <1>1, <1>2, QuietStep

(* uninit_io releases what the callbacks left behind. *)
LEMMA UninitStep == IoInv /\ UninitIo => IoInv'
BY EmptySeq DEF UninitIo, outVars

(* The client and the kernel. *)
LEMMA ClientStep == IoInv /\ Client => IoInv'
<1> SUFFICES ASSUME IoInv, Client PROVE IoInv'
  OBVIOUS
<1>1. UNCHANGED <<connVars, watchVars, sendq>> /\ loop' = loop
  BY DEF Client, ClientSend, ClientRecv, ClientShutWr, ClientClose,
         ConnectError, clientUnchanged
<1>2. CASE \E p \in Packet : ClientSend(p)
  <2>1. PICK p \in Packet : ClientSend(p)
    BY <1>2
  <2>2. /\ inq' \in Seq(Packet) /\ UNCHANGED <<peer, sockerr, wire>>
        /\ sock # "none"
    BY <2>1, AppendProperties DEF ClientSend
  <2>3. Len(wire') <= Len(wire) /\ wire' \in Seq(Pdu)
    BY <2>2, LenProperties
  <2> QED BY <1>1, <2>2, <2>3, QuietStep
<1>3. CASE ClientRecv
  <2>1. /\ wire # <<>> /\ wire' = Tail(wire)
        /\ UNCHANGED <<peer, sockerr, inq>>
    BY <1>3 DEF ClientRecv
  <2>2. wire' \in Seq(Pdu) /\ Len(wire') <= Len(wire)
    BY <2>1, HeadTailProperties, LenProperties
  <2> QED BY <1>1, <2>1, <2>2, QuietStep
<1>4. CASE ClientShutWr
  <2>1. UNCHANGED <<wire, sockerr, inq>> /\ peer' = "shutwr" /\ sock # "none"
    BY <1>4 DEF ClientShutWr
  <2>2. Len(wire') <= Len(wire) /\ wire' \in Seq(Pdu)
    BY <2>1, LenProperties
  <2> QED BY <1>1, <2>1, <2>2, QuietStep
<1>5. CASE ClientClose
  <2>1. /\ wire' = <<>> /\ UNCHANGED inq /\ sockerr' \in BOOLEAN
        /\ peer' = "closed" /\ sock # "none"
    BY <1>5 DEF ClientClose
  <2>2. wire' \in Seq(Pdu) /\ Len(wire') <= Len(wire)
    BY <2>1, EmptySeq, LenProperties
  <2> QED BY <1>1, <2>1, <2>2, QuietStep
<1>6. CASE ConnectError
  <2>1. UNCHANGED <<wire, peer, inq>> /\ sockerr' = TRUE
    BY <1>6 DEF ConnectError
  <2>2. Len(wire') <= Len(wire) /\ wire' \in Seq(Pdu)
    BY <2>1, LenProperties
  <2> QED BY <1>1, <2>1, <2>2, QuietStep
<1> QED BY <1>2, <1>3, <1>4, <1>5, <1>6 DEF Client

(* Every step of the framework and of the client keeps the invariant. *)
THEOREM IoInvInductive == IoInv /\ [IoNext]_ioVars => IoInv'
<1> SUFFICES ASSUME IoInv, [IoNext]_ioVars PROVE IoInv'
  OBVIOUS
<1>1. CASE InitIo \/ InitIoFails \/ NotStarted \/ FdConErr \/ FdConOut
  BY <1>1, SetupStep
<1>2. CASE FdIoErr
  BY <1>2, CloseStep DEF FdIoErr, Dispatching
<1>3. CASE FdIoHup
  BY <1>3, CloseStep DEF FdIoHup
<1>4. CASE FdIoIn
  BY <1>4, InputStep
<1>5. CASE FdIoOut
  BY <1>5, OutputStep
<1>6. CASE \E w \in Pdu : RunTask(w)
  BY <1>6, TaskStep
<1>7. CASE UninitIo
  BY <1>7, UninitStep
<1>8. CASE Client
  BY <1>8, ClientStep
<1>9. CASE OtherThreadCrashes
  BY <1>9, CrashElsewhereStep
<1>10. CASE UNCHANGED ioVars
  BY <1>10 DEF ioVars
<1> QED BY <1>1, <1>2, <1>3, <1>4, <1>5, <1>6, <1>7, <1>8, <1>9, <1>10 DEF IoNext
HIDE DEF IoInv, TypeOK, NotConnected, Unconnected, Connecting, Attached,
         Watching, Disconnected, Running, Released, Exited, SocketBound,
         ClosedOnce, NoLostWakeup, Serving, LoopState, EpollEvent

(* The inductive invariant of the I/O framework (io.c as a whole). *)
THEOREM IoInvInvariant == IoSpec => []IoInv
BY IoInvInit, IoInvInductive, PTL DEF IoSpec

(* Every variable keeps its type (struct io_state, io.c:90-96). *)
THEOREM TypeCorrect == IoSpec => []TypeOK
BY IoInvInvariant, PTL DEF IoInv

(* A callback of the running loop finds the descriptor, the buffer and the *)
(* registration it relies on, whichever calls failed before it.            *)
THEOREM CallbacksSafe == IoSpec => []CallbacksFindTheirState
<1>1. IoInv => CallbacksFindTheirState
  BY DEF CallbacksFindTheirState, IoInv, TypeOK, Attached, Watching, Disconnected
<1> QED BY <1>1, IoInvInvariant, PTL

(* Where registering events works, no queued PDU waits unwatched. *)
THEOREM QueueIsWatched == IoSpec => []NoLostWakeup
BY IoInvInvariant, PTL DEF IoInv

(* As long as the client sends no empty packet, the daemon watches for its *)
(* commands until it hangs up (io.c:180-195, 286-289).  Only io_state_in   *)
(* stops watching for input, at the end of it.                             *)
THEOREM InputIsWatched ==
  ASSUME Empty = {}
  PROVE  IoSpec => []InputWatched
<1>1. IoInit => InputWatched
  BY DEF IoInit, InputWatched, Serving
<1>2. IoInv /\ InputWatched /\ [IoNext]_ioVars => InputWatched'
  <2> SUFFICES ASSUME IoInv, InputWatched, [IoNext]_ioVars,
                      Serving', peer' = "open"
               PROVE  EPOLLIN \in watched'
    BY DEF InputWatched
  <2> USE DEF InputWatched, Serving
  <2>1. peer = "open"
    BY DEF IoNext, FdIoIn, Client, InitIo, InitIoFails, NotStarted, FdConErr,
           FdConOut, FdIoErr, FdIoHup, FdIoOut, RunTask, OtherThreadCrashes,
           UninitIo, CloseConnection, FdIoInReply, FdIoInError, FdIoInCrash,
           FdIoInShort, FdIoInOversize, FdIoInEof, FdIoInEmpty, FdIoInFails,
           Receive, ClientSend, ClientRecv, ClientShutWr, ClientClose,
           ConnectError, ioVars
  <2>2. CASE InitIo \/ InitIoFails \/ NotStarted \/ FdConErr \/ FdConOut
    <3>1. CASE InitIo \/ InitIoFails \/ NotStarted
      BY <3>1 DEF InitIo, InitIoFails, NotStarted, connVars, IoInv,
                  NotConnected, Unconnected
    <3>2. CASE FdConErr
      BY <3>2 DEF FdConErr
    <3>3. CASE FdConOut
      BY <3>3 DEF FdConOut
    <3> QED BY <2>2, <3>1, <3>2, <3>3
  <2>3. CASE FdIoErr \/ FdIoHup \/ UninitIo
    BY <2>3 DEF FdIoErr, FdIoHup, CloseConnection, UninitIo
  <2>4. ASSUME NEW w \in Pdu, NEW res, IoStateSend(w, res),
               loop = "run", funcs = "io", UNCHANGED fd
        PROVE  EPOLLIN \in watched'
    <3>1. EPOLLIN \in watched /\ watched = epoll_events
      BY <2>1, <2>4 DEF IoInv, Watching, Attached, TypeOK
    <3> QED BY <2>4, <3>1, SendKeepsWatch
  <2>5. CASE FdIoIn
    <3>1. CASE \E p \in Cmd, w \in Pdu :
                 FdIoInReply(p, w) \/ FdIoInError(p, w) \/ FdIoInCrash(p, w)
      <4>1. PICK p \in Cmd, w \in Pdu :
                 FdIoInReply(p, w) \/ FdIoInError(p, w) \/ FdIoInCrash(p, w)
        BY <3>1
      <4>2. loop = "run" /\ funcs = "io" /\ UNCHANGED fd
        BY <4>1 DEF FdIoInReply, FdIoInError, FdIoInCrash, Receive, Reading,
                    Dispatching, connVars
      <4>3. UNCHANGED watched \/ \E res \in {0, -1} : IoStateSend(w, res)
        BY <4>1 DEF FdIoInReply, FdIoInError, FdIoInCrash, SendPdu,
                    SendErrorReply, watchVars
      <4> QED BY <2>1, <2>4, <4>2, <4>3
    <3>2. CASE FdIoInShort \/ FdIoInOversize \/ FdIoInEof \/ FdIoInEmpty \/ FdIoInFails
      BY <2>1, <3>2
      DEF FdIoInShort, FdIoInOversize, FdIoInEof, FdIoInEmpty, FdIoInFails,
          Receive, Reading, Dispatching, watchVars, connVars
    <3> QED BY <2>5, <3>1, <3>2 DEF FdIoIn
  <2>6. CASE FdIoOut
    <3>1. /\ EPOLLIN \in watched /\ watched = epoll_events
      BY <2>1, <2>6 DEF FdIoOut, Dispatching, connVars, IoInv, Watching, TypeOK
    <3> QED BY <2>6, <3>1 DEF FdIoOut, Watch, WithoutOutput, watchVars
  <2>7. CASE \E w \in Pdu : RunTask(w)
    <3>1. PICK w \in Pdu, res \in {0, -1} :
            /\ IoStateSend(w, res)
            /\ loop = "run" /\ funcs = "io" /\ UNCHANGED fd
      BY <2>7 DEF RunTask, SendPdu, connVars
    <3> QED BY <2>4, <3>1
  <2>8. CASE Client \/ OtherThreadCrashes \/ UNCHANGED ioVars
    BY <2>1, <2>8 DEF Client, ClientSend, ClientRecv, ClientShutWr, ClientClose,
                ConnectError, clientUnchanged, OtherThreadCrashes, watchVars,
                connVars, ioVars
  <2> QED BY <2>2, <2>3, <2>5, <2>6, <2>7, <2>8 DEF IoNext
<1> QED BY <1>1, <1>2, IoInvInvariant, PTL DEF IoSpec

(* Whichever of the error handler, the HUP handler and uninit_io closes an *)
(* established connection closes it for the first time, and by the end of  *)
(* uninit_io one of them has (io.c:117-151, 709-738).                      *)
THEOREM ConnectionClosedOnce == IoSpec => []ClosedOnce
BY IoInvInvariant, PTL DEF IoInv
=============================================================================
