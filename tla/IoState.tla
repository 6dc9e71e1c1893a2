------------------------------ MODULE IoState ------------------------------
(***************************************************************************)
(* tvd's I/O framework, src/io.c: the one connection to the client, from   *)
(* connect_socket to uninit_io.  Each action is one callback of the epoll  *)
(* loop (libfdio runs them one at a time, on one thread), one task of its  *)
(* task queue, or one step of the client at the other end of the socket.   *)
(*                                                                         *)
(* The command handlers behind handle_pdu are left open here: a handler    *)
(* either sends one PDU with send_pdu and succeeds, or fails and the       *)
(* framework sends an error reply, or crashes.  Module Tvd puts the real   *)
(* handlers in.                                                            *)
(*                                                                         *)
(* A PDU is an opaque value.  The socket is the kernel's: wire holds what  *)
(* was sent and not yet read by the client, inq what the client sent.      *)
(***************************************************************************)
EXTENDS Integers, Sequences, SequencesExt

CONSTANTS
  Cmd,             \* the complete command PDUs the client can send
  Short,           \* a packet that ends before the PDU's payload does
  Oversize,        \* a packet that fills the read buffer without a whole PDU
  Empty,           \* the set of packets without a byte, {} if none is sent
  Pdu,             \* the PDUs the daemon can send
  SockCap,         \* how many PDUs the socket's send buffer holds
  MaxOutstanding,  \* bound of the model: PDUs under way in both directions
  Faults           \* the kinds of call that may fail: see FaultKind

FaultKind == {"connect", "memory", "epoll", "send", "recv"}

ASSUME SockCapAssumption == SockCap \in Nat \ {0}
ASSUME FaultsAssumption  == Faults \subseteq FaultKind
ASSUME PacketAssumption  ==
  /\ Short \notin Cmd /\ Oversize \notin Cmd /\ Short # Oversize
  /\ Empty \intersect (Cmd \union {Short, Oversize}) = {}

NoFd   == -1
SockFd == 0                           \* the descriptor socket() returned
EPOLLIN  == "EPOLLIN"
EPOLLOUT == "EPOLLOUT"
EPOLLERR == "EPOLLERR"
EpollEvent == {EPOLLIN, EPOLLOUT, EPOLLERR}
Packet == Cmd \union {Short, Oversize} \union Empty

VARIABLES
  loop,            \* where the process is: see LoopState
  fd,              \* io_state.fd
  epoll_events,    \* io_state.epoll_events, the events it believes it watches
  funcs,           \* io_state.epoll_funcs and the callbacks it holds
  rbuf,            \* io_state.rbuf
  sendq,           \* io_state.sendq
  watched,         \* the events registered with the loop; {} when not in it
  sock,            \* the connected socket itself
  peer,            \* the client's end of the socket
  sockerr,         \* a socket error is pending
  wire,            \* PDUs in the socket, towards the client
  inq              \* packets in the socket, towards the daemon

watchVars == <<epoll_events, watched>>
outVars   == <<sendq, wire, sockerr>>
connVars  == <<fd, funcs, rbuf, sock>>
ioVars    == <<loop, fd, epoll_events, funcs, rbuf, sendq, watched,
               sock, peer, sockerr, wire, inq>>

(* "start": before init_io; "run": in the loop; "exit" and "abort": a      *)
(* callback returned IO_EXIT or IO_ABORT and uninit is still to run;       *)
(* "done": uninit ran; "failed": init failed, so uninit does not run;      *)
(* "killed": abort() was called.                                           *)
LoopState == {"start", "run", "exit", "abort", "done", "failed", "killed"}

(* rbuf "freed" is a pointer left behind by uninit_io; the error and HUP   *)
(* handlers store NULL.  funcs "con" holds fd_con_out and fd_con_err, "io" *)
(* the four callbacks of the connected socket.                             *)
TypeOK ==
  /\ loop \in LoopState
  /\ fd \in {NoFd, SockFd}
  /\ epoll_events \subseteq EpollEvent
  /\ watched \subseteq EpollEvent
  /\ funcs \in {"null", "con", "io", "freed"}
  /\ rbuf \in {"null", "alloc", "freed"}
  /\ sendq \in Seq(Pdu)
  /\ sock \in {"none", "open", "closed"}
  /\ peer \in {"open", "shutwr", "closed"}
  /\ sockerr \in BOOLEAN
  /\ wire \in Seq(Pdu)
  /\ inq \in Seq(Packet)

IoInit ==
  /\ loop = "start"
  /\ fd = NoFd /\ epoll_events = {} /\ watched = {}
  /\ funcs = "null" /\ rbuf = "null" /\ sock = "none"
  /\ sendq = <<>> /\ wire = <<>> /\ inq = <<>>
  /\ peer = "open" /\ sockerr = FALSE

Outstanding == Len(inq) + Len(sendq) + Len(wire)

-----------------------------------------------------------------------------
(* The send queue.                                                         *)

Room == SockCap - Len(wire)
LinkBroken == fd = NoFd \/ peer = "closed"

(* Variant: the wbuf that would block goes back to the end of the queue.    *)
FlushRequeuesBlocked(q) ==
  LET k    == IF Len(q) <= Room THEN Len(q) ELSE Room
      rest == SubSeq(q, k + 1, Len(q))
  IN  /\ wire'  = wire \o SubSeq(q, 1, k)
      /\ sendq' = IF rest = <<>> THEN rest ELSE Append(Tail(rest), Head(rest))

(* Writing to a full socket would block: the queue's rest has to wait.     *)
FlushInto(q) ==
  LET k == IF Len(q) <= Room THEN Len(q) ELSE Room
  IN  /\ wire'  = wire \o SubSeq(q, 1, k)
      /\ sendq' = SubSeq(q, k + 1, Len(q))

(* io_state_send_pending_wbufs with the queue's content q.  A wbuf whose   *)
(* sendmsg fails is removed and destroyed like one that was sent: all of   *)
(* them on a broken connection, any single one under the fault "send".     *)
SendPendingWbufs(q) ==
  \/ /\ LinkBroken
     /\ sendq' = <<>>
     /\ sockerr' = (sockerr /\ q = <<>>)    \* sendmsg reports it and clears it
     /\ UNCHANGED wire
  \/ /\ ~LinkBroken
     /\ FlushInto(q)
     /\ UNCHANGED sockerr
  \/ /\ ~LinkBroken
     /\ "send" \in Faults
     /\ \E i \in 1..Len(q) : i <= Room + 1 /\ FlushInto(RemoveAt(q, i))
     /\ UNCHANGED sockerr

(* Variant: the new events are recorded, the loop is not told.             *)
WatchForgotten(events) == epoll_events' = events /\ UNCHANGED watched

(* add_fd_events_to_epoll_loop with a new set of events, or                *)
(* remove_fd_from_epoll_loop when no event is left.                        *)
Watch(events) == epoll_events' = events /\ watched' = events

(* Variant: tests the wrong flag.                                          *)
NeedsWatchOfInput == sendq' # <<>> /\ EPOLLIN \notin epoll_events
NeedsWatch == sendq' # <<>> /\ EPOLLOUT \notin epoll_events

(* res is the return value: -1 leaves the PDU queued and nothing watched.  *)
IoStateSend(w, res) ==
  /\ SendPendingWbufs(Append(sendq, w))
  /\ \/ /\ ~NeedsWatch
        /\ res = 0
        /\ UNCHANGED watchVars
     \/ /\ NeedsWatch
        /\ res = 0
        /\ Watch(epoll_events \union {EPOLLOUT})
     \/ /\ NeedsWatch
        /\ "epoll" \in Faults
        /\ res = -1
        /\ UNCHANGED watchVars

(* send_pdu: what services call.  It drops io_state_send's result.         *)
SendPdu(w) == /\ \E res \in {0, -1} : IoStateSend(w, res)
              /\ UNCHANGED loop

(* send_error_reply: without memory or epoll there is no reply, and the    *)
(* daemon aborts itself.                                                   *)
SendErrorReply(w) ==
  \/ \E res \in {0, -1} :
       /\ IoStateSend(w, res)
       /\ loop' = IF res < 0 THEN "killed" ELSE loop
  \/ /\ "memory" \in Faults
     /\ loop' = "killed"
     /\ UNCHANGED <<outVars, watchVars>>
-----------------------------------------------------------------------------
(* Connection set-up.                                                      *)

InitIo ==
  /\ loop = "start"
  /\ loop' = "run"
  /\ funcs' = "con"
  /\ sock' = "open"
  /\ watched' = {EPOLLOUT, EPOLLERR}                 \* epoll_events stays 0
  /\ UNCHANGED <<fd, epoll_events, rbuf, outVars, peer, inq>>

(* calloc, socket, fcntl, connect or the registration failed; the          *)
(* descriptor, if there is one, is closed again.                           *)
InitIoFails ==
  /\ loop = "start"
  /\ Faults \intersect {"memory", "connect", "epoll"} # {}
  /\ loop' = "failed"
  /\ funcs' = "freed"
  /\ UNCHANGED <<fd, rbuf, sock, watchVars, outVars, peer, inq>>

(* The program ends before init_io: bad options, or no task queue. *)
NotStarted ==
  /\ loop = "start"
  /\ loop' = "failed"
  /\ UNCHANGED <<connVars, watchVars, outVars, peer, inq>>

Dispatching(kind) == loop = "run" /\ funcs = kind /\ watched # {}
Writable == Len(wire) < SockCap \/ peer = "closed"

(* Variant: returns -1, which is not an I/O result.                        *)
FdConErrNoResult ==
  /\ Dispatching("con")
  /\ sockerr
  /\ loop' = "-1"
  /\ UNCHANGED <<connVars, watchVars, outVars, peer, inq>>

FdConErr ==
  /\ Dispatching("con")
  /\ sockerr
  /\ loop' = "abort"
  /\ UNCHANGED <<connVars, watchVars, outVars, peer, inq>>

(* connected_socket, then start_main_loop.  The "already connected" exit   *)
(* of connected_socket needs a read buffer, which only this callback       *)
(* creates; it also replaces itself, so that exit is never taken.          *)
ConnectedSocket ==
  /\ fd' = SockFd
  /\ funcs' = "io"
  /\ rbuf' = "alloc"
  /\ sendq' = <<>>
  /\ epoll_events' = {EPOLLERR, EPOLLIN}
  /\ UNCHANGED <<sock, wire, sockerr>>

FdConOut ==
  /\ Dispatching("con")
  /\ EPOLLOUT \in watched /\ Writable
  /\ UNCHANGED <<peer, inq>>
  /\ \/ /\ ConnectedSocket
        /\ watched' = {EPOLLERR, EPOLLIN}
        /\ UNCHANGED loop
     \/ /\ "epoll" \in Faults              \* uninit_registry, then IO_ABORT
        /\ ConnectedSocket
        /\ watched' = {}
        /\ loop' = "abort"
     \/ /\ "memory" \in Faults             \* no read buffer
        /\ watched' = {}
        /\ loop' = "abort"
        /\ UNCHANGED <<connVars, epoll_events, outVars>>
-----------------------------------------------------------------------------
(* The callbacks of the connected socket.                                  *)

(* Variant: the descriptor is closed and not forgotten.                    *)
CloseKeepsFd ==
  /\ rbuf' = "null"
  /\ watched' = {}
  /\ epoll_events' = {}
  /\ sock' = "closed"
  /\ sockerr' = FALSE /\ inq' = <<>>
  /\ UNCHANGED <<fd, funcs, sendq, wire, peer>>

(* io_state_err and io_state_hup: drop the read buffer, leave the loop,    *)
(* close.  The send queue stays as it is.                                  *)
CloseConnection ==
  /\ rbuf' = "null"
  /\ watched' = {}
  /\ epoll_events' = {}
  /\ fd' = NoFd
  /\ sock' = "closed"
  /\ sockerr' = FALSE /\ inq' = <<>>       \* both go with the socket
  /\ UNCHANGED <<funcs, sendq, wire, peer>>

FdIoErr ==                                 \* returns IO_POLL
  /\ Dispatching("io")
  /\ sockerr
  /\ CloseConnection
  /\ UNCHANGED loop

(* Variant: keeps polling, like FdIoErr.                                   *)
FdIoHupPolls ==
  /\ Dispatching("io")
  /\ peer = "closed"
  /\ CloseConnection
  /\ UNCHANGED loop

FdIoHup ==                                 \* returns IO_EXIT
  /\ Dispatching("io")
  /\ peer = "closed"
  /\ CloseConnection
  /\ loop' = "exit"

WithoutEvents == epoll_events \ {EPOLLIN, EPOLLOUT}    \* variant: clears both
WithoutOutput == epoll_events \ {EPOLLOUT}

FdIoOut ==
  /\ Dispatching("io")
  /\ EPOLLOUT \in watched /\ Writable
  /\ SendPendingWbufs(sendq)
  /\ \/ /\ sendq' # <<>>
        /\ UNCHANGED <<watchVars, loop>>
     \/ /\ sendq' = <<>>
        /\ Watch(WithoutOutput)
        /\ UNCHANGED loop
     \/ /\ sendq' = <<>>
        /\ "epoll" \in Faults
        /\ epoll_events' = WithoutOutput
        /\ loop' = "abort"
        /\ UNCHANGED watched
  /\ UNCHANGED <<connVars, peer, inq>>

(* fd_io_in is io_state_in: one recvmsg, then handle_pdu when the packet   *)
(* holds a whole PDU.                                                      *)
Reading == Dispatching("io") /\ EPOLLIN \in watched

(* recvmsg delivers the packet p. *)
Receive(p) ==
  /\ Reading
  /\ ~sockerr
  /\ inq # <<>>
  /\ p = Head(inq)
  /\ inq' = Tail(inq)
  /\ UNCHANGED <<connVars, peer>>

FdIoInReply(p, w) ==                       \* the handler answered with w
  Receive(p) /\ p \in Cmd /\ SendPdu(w)

FdIoInError(p, w) ==                       \* the handler failed; w says so
  Receive(p) /\ p \in Cmd /\ SendErrorReply(w)

(* Undefined behaviour in a handler takes the process down, before or      *)
(* after the handler sent w.                                               *)
FdIoInCrash(p, w) ==
  /\ Receive(p)
  /\ p \in Cmd
  /\ loop' = "killed"
  /\ \/ UNCHANGED <<outVars, watchVars>>
     \/ \E res \in {0, -1} : IoStateSend(w, res)

FdIoInShort ==                             \* incomplete: dropped without a word
  /\ Receive(Short)
  /\ UNCHANGED <<loop, watchVars, outVars>>

FdIoInOversize ==
  /\ Receive(Oversize)
  /\ loop' = "abort"
  /\ UNCHANGED <<watchVars, outVars>>

WithoutInput == epoll_events \ {EPOLLIN}

(* Variant: the end of input is taken for the end of the connection.       *)
ExitsAtEndOfInput == loop' = "exit" /\ UNCHANGED <<watchVars, outVars>>

(* recvmsg returns 0, which io_state_in takes for the end of input. *)
StopsReading ==
  /\ \/ /\ Watch(WithoutInput)
        /\ UNCHANGED loop
     \/ /\ "epoll" \in Faults
        /\ epoll_events' = WithoutInput
        /\ loop' = "abort"
        /\ UNCHANGED watched
  /\ UNCHANGED outVars

FdIoInEof ==                               \* the client will send no more
  /\ Reading
  /\ ~sockerr
  /\ inq = <<>>
  /\ peer # "open"
  /\ StopsReading
  /\ UNCHANGED <<connVars, peer, inq>>

FdIoInEmpty == (\E p \in Empty : Receive(p)) /\ StopsReading

FdIoInFails ==                             \* recvmsg reports an error
  /\ Reading
  /\ sockerr \/ ("recv" \in Faults /\ (inq # <<>> \/ peer # "open"))
  /\ sockerr' = FALSE
  /\ loop' = "abort"
  /\ UNCHANGED <<connVars, watchVars, sendq, wire, peer, inq>>

(* A task of the task queue sends a PDU through send_pdu. *)
RunTask(w) ==
  /\ loop = "run" /\ funcs = "io"
  /\ Outstanding < MaxOutstanding
  /\ SendPdu(w)
  /\ UNCHANGED <<connVars, peer, inq>>

(* Undefined behaviour on a thread that a service's library runs. *)
OtherThreadCrashes ==
  /\ loop = "run" /\ funcs = "io"
  /\ loop' = "killed"
  /\ UNCHANGED <<connVars, watchVars, outVars, peer, inq>>

(* An entry whose fd is -1 is skipped: its callbacks are not freed. *)
UninitIo ==
  /\ loop \in {"exit", "abort"}
  /\ loop' = "done"
  /\ IF fd = NoFd
     THEN UNCHANGED <<watched, sock, rbuf, funcs, inq>>
     ELSE /\ watched' = {}
          /\ sock' = "closed"
          /\ rbuf' = "freed"
          /\ funcs' = "freed"
          /\ inq' = <<>>
  /\ UNCHANGED <<fd, epoll_events, outVars, peer>>
-----------------------------------------------------------------------------
(* The client, and the kernel between it and the daemon.                   *)

clientUnchanged == UNCHANGED <<loop, connVars, watchVars, sendq>>

ClientSend(p) ==
  /\ sock = "open" /\ peer = "open"
  /\ Outstanding < MaxOutstanding
  /\ inq' = Append(inq, p)
  /\ clientUnchanged
  /\ UNCHANGED <<peer, sockerr, wire>>

ClientRecv ==
  /\ peer # "closed"
  /\ wire # <<>>
  /\ wire' = Tail(wire)
  /\ clientUnchanged
  /\ UNCHANGED <<peer, sockerr, inq>>

ClientShutWr ==
  /\ sock = "open" /\ peer = "open"
  /\ peer' = "shutwr"
  /\ clientUnchanged
  /\ UNCHANGED <<sockerr, wire, inq>>

(* Closing with unread PDUs resets the connection: a pending ECONNRESET. *)
ClientClose ==
  /\ sock = "open" /\ peer # "closed"
  /\ peer' = "closed"
  /\ sockerr' = (sockerr \/ wire # <<>>)
  /\ wire' = <<>>
  /\ clientUnchanged
  /\ UNCHANGED inq

(* The pending connection request fails. *)
ConnectError ==
  /\ "connect" \in Faults
  /\ loop = "run" /\ funcs = "con" /\ peer = "open"
  /\ sockerr' = TRUE
  /\ clientUnchanged
  /\ UNCHANGED <<peer, wire, inq>>

Client == \/ \E p \in Packet : ClientSend(p)
          \/ ClientRecv \/ ClientShutWr \/ ClientClose
          \/ ConnectError

FdIoIn == \/ \E p \in Cmd, w \in Pdu :
                FdIoInReply(p, w) \/ FdIoInError(p, w) \/ FdIoInCrash(p, w)
          \/ FdIoInShort \/ FdIoInOversize
          \/ FdIoInEof \/ FdIoInEmpty \/ FdIoInFails

IoNext == \/ InitIo \/ InitIoFails \/ NotStarted
          \/ FdConErr \/ FdConOut
          \/ FdIoErr \/ FdIoHup \/ FdIoIn \/ FdIoOut
          \/ \E w \in Pdu : RunTask(w)
          \/ OtherThreadCrashes
          \/ UninitIo
          \/ Client

IoSpec == IoInit /\ [][IoNext]_ioVars

(* The loop is level-triggered: a descriptor that stays ready has its      *)
(* callback run in the end.  The client is never obliged to do anything.   *)
LoopFairness ==
  /\ WF_ioVars(InitIo \/ InitIoFails \/ NotStarted)
  /\ WF_ioVars(FdConErr \/ FdConOut)
  /\ WF_ioVars(FdIoErr)
  /\ WF_ioVars(FdIoHup)
  /\ WF_ioVars(FdIoIn)
  /\ WF_ioVars(FdIoOut)
  /\ WF_ioVars(UninitIo)

IoFairSpec == IoSpec /\ LoopFairness

(* A client that keeps reading what is sent to it. *)
IoReaderSpec == IoFairSpec /\ WF_ioVars(ClientRecv)
-----------------------------------------------------------------------------
(* Properties.                                                             *)

(* While the loop runs, a callback of the connected socket finds what it   *)
(* asserts and dereferences (io.c:167, io.c:368): its own descriptor, an   *)
(* open socket, a read buffer; and epoll_events is what the loop watches.  *)
CallbacksFindTheirState ==
  loop = "run" /\ funcs = "io" /\ watched # {} =>
    /\ fd = SockFd /\ sock = "open" /\ rbuf = "alloc"
    /\ watched = epoll_events
    /\ EPOLLERR \in watched

Serving == loop = "run" /\ fd # NoFd
Ended   == loop \in {"done", "killed"}

(* As long as registering events works, a non-empty send queue is watched  *)
(* for writeability: no PDU waits for a wake-up that nobody asked for      *)
(* (io.c:76-81).  send_pdu ignores the -1 of the failing case, io.c:464.   *)
NoLostWakeup ==
  "epoll" \notin Faults => (Serving /\ sendq # <<>> => EPOLLOUT \in watched)

(* The error handler, the HUP handler and uninit_io share the closing of   *)
(* an established connection (io.c:117-151, 709-738).  A descriptor that   *)
(* io_state still has is open, with its buffer, so that none of them       *)
(* closes it a second time; and after uninit_io it is closed, out of the   *)
(* loop, and the buffer destroyed, whoever did it.  Nothing is said of     *)
(* epoll_funcs and of PDUs left in sendq: the code does not free them when *)
(* the descriptor is gone already.                                         *)
ClosedOnce ==
  /\ fd # NoFd /\ loop # "done" => sock = "open" /\ rbuf = "alloc"
  /\ loop = "done" /\ funcs # "con" =>
       sock = "closed" /\ watched = {} /\ rbuf # "alloc"

(* The PDUs between io_state_send and the client, seen as one channel.     *)
chan == IF peer = "closed" THEN <<>>
        ELSE IF sock = "closed" THEN wire ELSE wire \o sendq
link == IF sock = "none" THEN "new"
        ELSE IF sock = "open" /\ peer # "closed" THEN "up" ELSE "down"

O == INSTANCE Outbox

(* The send queue and the socket deliver the PDUs handed to io_state_send  *)
(* once and in order until the connection ends (io.c:221-298): no handler, *)
(* callback or change of watched events loses or reorders one.             *)
OutboxSpec == O!Spec

(* With a client that keeps reading, the send queue never gets stuck: it   *)
(* empties, or its PDUs keep entering the socket, or the connection ends. *)
QueueMoves == \/ []<>(sendq = <<>> \/ ~Serving)
              \/ []<><<Len(wire') > Len(wire)>>_ioVars

(* A client that shut down its sending side has every packet it sent read, *)
(* is then no longer polled for input, and stays connected (io.c:180-195): *)
(* where recvmsg and epoll work, only its own close ends this, or the      *)
(* process being killed: by undefined behaviour, or by the abort() of      *)
(* send_error_reply.  A packet that fills the buffer (io.c:204) and an     *)
(* error left from connecting are outside of it.  That the answers leave   *)
(* the queue is QueueMoves.                                                *)
HalfClosed  == Serving /\ peer = "shutwr" /\ ~sockerr /\ Oversize \notin ToSet(inq)
InputServed == Serving /\ inq = <<>> /\ EPOLLIN \notin watched
HalfCloseServed ==
  HalfClosed ~> [](InputServed \/ peer = "closed" \/ loop = "killed")

(* io.c:181: "stop watching if peer hung up".  As long as the client has    *)
(* not, the daemon keeps watching for its commands, however full the queue *)
(* or the socket.  A packet without a byte is taken for a hang-up.         *)
InputWatched == Serving /\ peer = "open" => EPOLLIN \in watched

(* A client that goes away without leaving a socket error behind ends the  *)
(* daemon (io.c:355-358, fd_io_hup).                                       *)
HangupEndsDaemon ==
  (loop = "run" /\ sock = "open" /\ peer = "closed" /\ ~sockerr) ~> Ended

(* io.c:355: "If the I/O to the client is broken, we exit the daemon       *)
(* process".  fd_io_err does not: it returns IO_POLL.                      *)
BrokenIoExits == (loop = "run" /\ sockerr) ~> Ended
-----------------------------------------------------------------------------
(* The inductive invariant behind the safety properties (IoStateProofs).   *)

NotConnected ==                            \* before init_io, or it failed
  sock = "none" <=> loop \in {"start", "failed"}

Unconnected ==
  sock = "none" => /\ funcs \in {"null", "freed"}
                   /\ watched = {} /\ epoll_events = {}
                   /\ fd = NoFd /\ rbuf = "null" /\ sendq = <<>> /\ wire = <<>>
                   /\ peer = "open" /\ inq = <<>>

Connecting ==                              \* fd_con_out has yet to run
  funcs = "con" => /\ loop \in {"run", "abort", "done"} /\ sock = "open"
                   /\ fd = NoFd /\ rbuf = "null" /\ epoll_events = {}
                   /\ sendq = <<>> /\ wire = <<>>

Attached ==
  funcs = "io" /\ fd = SockFd => sock = "open" /\ rbuf = "alloc"

Watching ==
  loop = "run" /\ funcs = "io" /\ fd = SockFd =>
    watched = epoll_events /\ EPOLLERR \in watched

Disconnected ==                            \* the error or the HUP handler ran
  funcs = "io" /\ fd = NoFd => /\ watched = {} /\ epoll_events = {}
                               /\ sock = "closed" /\ rbuf = "null"

Running == loop = "run" => funcs \in {"con", "io"}

Released == funcs = "freed" /\ sock # "none" =>
              loop = "done" /\ sock = "closed" /\ rbuf = "freed"

Exited == loop \in {"exit", "abort", "killed"} => funcs \in {"con", "io"}

SocketBound == Len(wire) <= SockCap

IoInv ==
  /\ TypeOK
  /\ NotConnected /\ Unconnected /\ Connecting /\ Attached /\ Watching
  /\ Disconnected /\ Running /\ Released /\ Exited /\ SocketBound
  /\ ClosedOnce /\ NoLostWakeup
=============================================================================
