----------------------------- MODULE TvdProofs -----------------------------
(***************************************************************************)
(* Proofs about the daemon, for every set of commands, every vendor        *)
(* library and HAL the assumptions of Tvd allow, every capacity of the     *)
(* socket and every set of faults.                                         *)
(*                                                                         *)
(* TvdSpec implements IoSpec, so what IoStateProofs shows of the I/O       *)
(* framework holds of the daemon; TvdInv adds the tables of the services.  *)
(***************************************************************************)
EXTENDS Tvd, OutboxProofs

(* What the daemon answers a command with is one of its PDUs. *)
LEMMA AnswersArePdus ==
  ASSUME NEW c \in Cmd
  PROVE  /\ Response(c) \in Pdu
         /\ \A status \in CommandErrors(c) : Error(c, status) \in Pdu
<1>1. CommandErrors(c) \subseteq 1..7
  BY VendorAssumption
  DEF CommandErrors, RegistryErrors, RegisterErrors, UnregisterErrors,
      DtvErrors, FailureStatuses, NoMemory, HalError, ERROR_NONE, ERROR_FAIL,
      ERROR_NOMEM, ERROR_UNSUPPORTED, ERROR_PARM_INVALID
<1>2. {Response(c)} \union {Error(c, e) : e \in 1..7} \subseteq Pdu
  BY CommandAssumption
<1> QED BY <1>1, <1>2

(* A notification is one of the daemon's PDUs. *)
LEMMA NtfIsPdu == Ntf \subseteq Pdu
BY CommandAssumption

(* A command names a service and an opcode. *)
LEMMA CommandType ==
  ASSUME NEW c \in Cmd
  PROVE  c.service \in Service /\ c.opcode \in 0..255
BY CommandAssumption DEF Command

(* A notification that is run is one of the daemon's PDUs. *)
LEMMA TaskIsPdu ==
  ASSUME TvdTypeOK, tasks # <<>>
  PROVE  Head(tasks) \in Ntf /\ Tail(tasks) \in Seq(Ntf)
BY HeadTailProperties DEF TvdTypeOK

(* Whatever the handlers do, the daemon's steps on the connection are      *)
(* those of the I/O framework (handle_pdu, send_pdu: io.c:328-346, 461).   *)
LEMMA StepIsIoStep == TvdTypeOK /\ [TvdNext]_vars => [IoNext]_ioVars
<1> SUFFICES ASSUME TvdTypeOK, [TvdNext]_vars PROVE [IoNext]_ioVars
  OBVIOUS
<1>1. CASE OptionsExit \/ InitTaskQueueFails \/ StartDaemon \/ StartFails
  BY <1>1 DEF OptionsExit, InitTaskQueueFails, StartDaemon, StartFails, IoNext
<1>2. CASE ConnectFails \/ Connected \/ SocketErr \/ SocketHup \/ Output
  BY <1>2 DEF ConnectFails, Connected, SocketErr, SocketHup, Output, IoNext
<1>3. CASE Input
  <2>1. CASE OtherInput
    BY <2>1 DEF OtherInput, IoNext, FdIoIn
  <2>2. CASE \E c \in Cmd :
               CommandSucceeds(c) \/ CommandFails(c) \/ CommandCrashes(c)
    <3>1. PICK c \in Cmd :
               CommandSucceeds(c) \/ CommandFails(c) \/ CommandCrashes(c)
      BY <2>2
    <3>2. \E w \in Pdu :
            FdIoInReply(c, w) \/ FdIoInError(c, w) \/ FdIoInCrash(c, w)
      BY <3>1, AnswersArePdus DEF CommandSucceeds, CommandFails, CommandCrashes
    <3> QED BY <3>2 DEF IoNext, FdIoIn
  <2> QED BY <1>3, <2>1, <2>2 DEF Input
<1>4. CASE (\E n \in Ntf : VendorNotify(n) \/ VendorCrashes(n)) \/ UNCHANGED vars
  BY <1>4 DEF VendorNotify, VendorCrashes, vars, IoNext
<1>5. CASE SendNtf
  BY <1>5, TaskIsPdu, NtfIsPdu DEF SendNtf, IoNext
<1>6. CASE Uninit
  BY <1>6 DEF Uninit, IoNext
<1>7. CASE TvdClient
  BY <1>7 DEF TvdClient, IoNext, Client
<1> QED BY <1>1, <1>2, <1>3, <1>4, <1>5, <1>6, <1>7 DEF TvdNext
-----------------------------------------------------------------------------
(* The tables of the services.                                             *)

(* What TvdInv says beyond IoInv. *)
SvcInv == /\ wakelock \in BOOLEAN
          /\ handler \in [Service -> {"null", "registry_handler", "dtv_handler"}]
          /\ g_send_pdu \in BOOLEAN
          /\ dtv_send_pdu \in BOOLEAN
          /\ tasks \in Seq(Ntf)
          /\ HandlersPlaced /\ DispatchReady

(* TvdInv is what IoState says and what the services add. *)
LEMMA TvdInvParts == TvdInv <=> IoInv /\ SvcInv
BY DEF TvdInv, SvcInv, TvdTypeOK, IoInv

(* No service is registered when main starts. *)
LEMMA SvcInvInit == TvdInit /\ IoInv => SvcInv
<1> SUFFICES ASSUME TvdInit, IoInv PROVE SvcInv
  OBVIOUS
<1>1. tasks \in Seq(Ntf)
  BY EmptySeq DEF TvdInit
<1>2. handler = [s \in Service |-> "null"] /\ loop = "start"
  BY DEF TvdInit, IoInit
<1> QED
  BY <1>1, <1>2, ServiceAssumption
  DEF TvdInit, SvcInv, HandlersPlaced, DispatchReady,
      Serving, SERVICE_REGISTRY, SERVICE_DTV

(* A step that leaves the services alone and does not begin to serve. *)
LEMMA SvcQuiet ==
  ASSUME SvcInv, UNCHANGED svcVars, tasks' \in Seq(Ntf),
         Serving' => Serving,
         wakelock' \in BOOLEAN
  PROVE  SvcInv'
BY DEF SvcInv, svcVars, HandlersPlaced, DispatchReady

(* Start-up and the failed connection request leave the tables alone. *)
LEMMA SvcSetup ==
  ASSUME IoInv, SvcInv,
         \/ OptionsExit \/ InitTaskQueueFails \/ StartDaemon \/ StartFails
         \/ ConnectFails
  PROVE  SvcInv'
<1>1. CASE OptionsExit
  BY <1>1, SvcQuiet
  DEF OptionsExit, NotStarted, Serving, SvcInv
<1>2. CASE InitTaskQueueFails
  BY <1>2, SvcQuiet DEF InitTaskQueueFails, NotStarted, Serving, SvcInv, tvdVars
<1>3. CASE StartDaemon
  <2>1. fd' = NoFd
    BY <1>3 DEF StartDaemon, InitIo, IoInv, NotConnected, Unconnected
  <2> QED BY <1>3, <2>1, SvcQuiet DEF StartDaemon, Serving, SvcInv
<1>4. CASE StartFails
  BY <1>4, SvcQuiet DEF StartFails, InitIoFails, Serving, SvcInv, tvdVars
<1>5. CASE ConnectFails
  BY <1>5, SvcQuiet
  DEF ConnectFails, FdConErr, Dispatching, Serving, SvcInv, tvdVars
<1> QED BY <1>1, <1>2, <1>3, <1>4, <1>5

(* init_registry runs before the first command can. *)
LEMMA SvcConnected == ASSUME SvcInv, Connected PROVE SvcInv'
<1>1. /\ loop = "run" /\ loop' \in {"run", "abort"}
      /\ UNCHANGED <<wakelock, dtv_send_pdu, tasks>>
  BY DEF Connected, FdConOut, Dispatching
<1>2. CASE loop' = "run"
  <2>1. /\ handler' = [handler EXCEPT ![SERVICE_REGISTRY] = "registry_handler"]
        /\ g_send_pdu' = TRUE
    BY <1>2 DEF Connected
  <2> QED
    BY <1>1, <2>1, ServiceAssumption
    DEF SvcInv, HandlersPlaced, DispatchReady,
        SERVICE_REGISTRY, SERVICE_DTV
<1>3. CASE loop' = "abort"
  <2>1. UNCHANGED <<handler, g_send_pdu>>
    BY <1>3 DEF Connected
  <2> QED
    BY <1>1, <1>3, <2>1, SvcQuiet
    DEF SvcInv, svcVars, Serving
<1> QED BY <1>1, <1>2, <1>3

(* io_state_in: what a packet does to the tables. *)
LEMMA SvcInput == ASSUME IoInv, SvcInv, Input PROVE SvcInv'
<1>1. /\ wakelock' = (loop' = "killed") /\ UNCHANGED <<g_send_pdu, tasks, fd>>
      /\ loop = "run"
  BY DEF Input, OtherInput, CommandSucceeds, CommandFails, CommandCrashes,
         WakeLockIn, svcVars, FdIoInShort, FdIoInOversize, FdIoInEof,
         FdIoInEmpty, StopsReading, FdIoInFails, FdIoInReply, FdIoInError, FdIoInCrash, Receive, Reading,
         Dispatching, connVars
<1>2. Serving' => Serving
  BY <1>1 DEF Serving
<1>3. CASE UNCHANGED svcVars
  BY <1>1, <1>2, <1>3, SvcQuiet DEF SvcInv
<1>4. CASE \E c \in Cmd : CommandSucceeds(c) /\ handler[c.service] = "registry_handler"
  <2>1. PICK c \in Cmd : CommandSucceeds(c) /\ handler[c.service] = "registry_handler"
    BY <1>4
  <2>2. c.opcode \in {OPCODE_REGISTER_MODULE, OPCODE_UNREGISTER_MODULE}
    BY <2>1 DEF CommandSucceeds, CanSucceed, RegistryCanSucceed
  <2>3. /\ handler' = [handler EXCEPT ![SERVICE_DTV] = NewHandler(c)]
        /\ \/ dtv_send_pdu' = NewSendPdu(c)
           \/ /\ UninitFails
              /\ c.opcode = OPCODE_UNREGISTER_MODULE
              /\ UNCHANGED dtv_send_pdu
    BY <2>1 DEF CommandSucceeds, CommandEffect
  <2>4. /\ NewHandler(c) \in {"null", "dtv_handler"} /\ dtv_send_pdu' \in BOOLEAN
        /\ NewHandler(c) = "dtv_handler" => dtv_send_pdu'
        /\ dtv_send_pdu' /\ ~UninitFails => NewHandler(c) = "dtv_handler"
    <3>1. /\ NewHandler(c) = "dtv_handler" <=> c.opcode = OPCODE_REGISTER_MODULE
          /\ NewHandler(c) \in {"null", "dtv_handler"}
      BY DEF NewHandler
    <3>2. CASE dtv_send_pdu' = NewSendPdu(c)
      <4>1. dtv_send_pdu' = (c.opcode = OPCODE_REGISTER_MODULE)
        BY <3>2 DEF NewSendPdu
      <4> QED BY <3>1, <4>1
    <3>3. CASE /\ UninitFails /\ c.opcode = OPCODE_UNREGISTER_MODULE
               /\ UNCHANGED dtv_send_pdu
      <4>1. c.opcode # OPCODE_REGISTER_MODULE
        BY <3>3 DEF OPCODE_REGISTER_MODULE, OPCODE_UNREGISTER_MODULE
      <4>2. dtv_send_pdu' \in BOOLEAN
        BY <3>3 DEF SvcInv
      <4> QED BY <3>1, <3>3, <4>1, <4>2
    <3> QED BY <2>3, <3>2, <3>3
  <2>5. handler'[SERVICE_REGISTRY] = handler[SERVICE_REGISTRY]
    BY <2>3, ServiceAssumption DEF SvcInv, SERVICE_REGISTRY, SERVICE_DTV
  <2>6. /\ handler' \in [Service -> {"null", "registry_handler", "dtv_handler"}]
        /\ handler'[SERVICE_DTV] = NewHandler(c)
        /\ \A s \in Service \ {SERVICE_DTV} : handler'[s] = handler[s]
    BY <2>3, <2>4, ServiceAssumption DEF SvcInv
  <2>7. HandlersPlaced'
    BY <2>4, <2>6 DEF SvcInv, HandlersPlaced, SERVICE_REGISTRY, SERVICE_DTV
  <2>8. DispatchReady'
    BY <1>1, <1>2, <2>3, <2>4, <2>5, <2>6 DEF SvcInv, DispatchReady
  <2> QED
    BY <1>1, <2>3, <2>4, <2>6, <2>7, <2>8 DEF SvcInv
<1> QED
  BY <1>3, <1>4 DEF Input, OtherInput, CommandSucceeds, CommandFails,
                    CommandCrashes, CommandEffect, svcVars

(* uninit_io removes the Registry from the tables of a daemon that has     *)
(* left its loop.                                                          *)
LEMMA SvcUninit == ASSUME SvcInv, Uninit PROVE SvcInv'
<1>1. tasks' \in Seq(Ntf)
  BY EmptySeq DEF Uninit
<1>2. loop \in {"exit", "abort"} /\ loop' = "done"
  BY DEF Uninit, UninitIo
<1> QED
  BY <1>1, <1>2, ServiceAssumption
  DEF Uninit, SvcInv, HandlersPlaced, DispatchReady,
      Serving, SERVICE_REGISTRY, SERVICE_DTV

(* Every step of the daemon keeps the tables of the services in order. *)
LEMMA SvcStep == ASSUME IoInv, SvcInv, [TvdNext]_vars PROVE SvcInv'
<1>1. CASE \/ OptionsExit \/ InitTaskQueueFails \/ StartDaemon \/ StartFails
           \/ ConnectFails
  BY <1>1, SvcSetup
<1>2. CASE Connected
  BY <1>2, SvcConnected
<1>3. CASE SocketErr \/ SocketHup
  BY <1>3, SvcQuiet
  DEF SocketErr, SocketHup, FdIoErr, FdIoHup, CloseConnection, Dispatching,
      Serving, SvcInv, tvdVars
<1>4. CASE Input
  BY <1>4, SvcInput
<1>5. CASE Output
  <2>1. loop = "run" /\ loop' \in {"run", "abort"} /\ fd' = fd
    BY <1>5 DEF Output, FdIoOut, Dispatching, connVars
  <2> QED
    BY <1>5, <2>1, SvcQuiet
    DEF Output, Serving, SvcInv, tvdVars
<1>6. CASE \E n \in Ntf : VendorNotify(n)
  <2>1. tasks' \in Seq(Ntf)
    BY <1>6, AppendProperties DEF VendorNotify, SvcInv
  <2> QED
    BY <1>6, <2>1, SvcQuiet
    DEF VendorNotify, ioVars, Serving, SvcInv
<1>7. CASE SendNtf
  <2>1. tasks' \in Seq(Ntf)
    BY <1>7, HeadTailProperties DEF SendNtf, SvcInv
  <2>2. loop' = loop /\ fd' = fd
    BY <1>7 DEF SendNtf, RunTask, SendPdu, connVars, ioVars
  <2> QED
    BY <1>7, <2>1, <2>2, SvcQuiet
    DEF SendNtf, Serving, SvcInv
<1>8. CASE Uninit
  BY <1>8, SvcUninit
<1>9. CASE TvdClient
  <2>1. loop' = loop /\ fd' = fd
    BY <1>9 DEF TvdClient, ClientSend, ClientRecv, ClientShutWr, ClientClose,
                ConnectError, clientUnchanged, connVars
  <2> QED
    BY <1>9, <2>1, SvcQuiet
    DEF TvdClient, Serving, SvcInv, tvdVars
<1>10. CASE UNCHANGED vars
  BY <1>10, SvcQuiet
  DEF vars, ioVars, tvdVars, Serving, SvcInv
<1>11. CASE \E n \in Ntf : VendorCrashes(n)
  BY <1>11, SvcQuiet
  DEF VendorCrashes, OtherThreadCrashes, Serving, SvcInv, tvdVars
<1> QED
  BY <1>1, <1>2, <1>3, <1>4, <1>5, <1>6, <1>7, <1>8, <1>9, <1>10, <1>11
  DEF TvdNext

(* The inductive invariant, for every instance. *)
THEOREM TvdInvInvariant == TvdSpec => []TvdInv
<1>1. TvdInit => TvdInv
  <2>1. TvdInit => IoInit
    BY DEF TvdInit
  <2> QED BY <2>1, IoInvInit, SvcInvInit, TvdInvParts
<1>2. TvdInv /\ [TvdNext]_vars => TvdInv'
  <2> SUFFICES ASSUME TvdInv, [TvdNext]_vars PROVE TvdInv'
    OBVIOUS
  <2>1. IoInv /\ SvcInv /\ TvdTypeOK
    BY TvdInvParts DEF TvdInv
  <2>2. IoInv'
    BY <2>1, StepIsIoStep, IoInvInductive
  <2>3. SvcInv'
    BY <2>1, SvcStep
  <2> QED BY <2>2, <2>3 DEF TvdInv, SvcInv, TvdTypeOK, IoInv
<1> QED BY <1>1, <1>2, PTL DEF TvdSpec

(* Types of the daemon's state (service.h, registry.c:39, dtv_io.c:32).    *)
THEOREM TvdTypeCorrect == TvdSpec => []TvdTypeOK
BY TvdInvInvariant, PTL DEF TvdInv

(* No handler that can be called finds a NULL send callback, whatever the  *)
(* client registered, unregistered or lost (registry.c:81-174, 200-215).   *)
THEOREM DispatchIsReady == TvdSpec => []DispatchReady
BY TvdInvInvariant, PTL DEF TvdInv

(* The daemon is an instance of the I/O framework: IoState's open handlers *)
(* cover what the real ones do (io.c:328-346).                             *)
THEOREM TvdImplementsIo == TvdSpec => IoSpec
<1>1. TvdInit => IoInit
  BY DEF TvdInit
<1> QED BY <1>1, StepIsIoStep, TvdTypeCorrect, PTL DEF TvdSpec, IoSpec

(* So the daemon's send path keeps the promise of Outbox as well. *)
THEOREM TvdImplementsOutbox ==
  ASSUME "send" \notin Faults
  PROVE  TvdSpec => OutboxSpec
BY TvdImplementsIo, ImplementsOutbox
=============================================================================
