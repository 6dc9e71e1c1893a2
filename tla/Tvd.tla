-------------------------------- MODULE Tvd --------------------------------
(***************************************************************************)
(* The daemon: main.c around the I/O framework of IoState, the dispatch of *)
(* pdu.c over the tables of service.c, the Registry service (registry.c)   *)
(* and the DTV service's front end (dtv_io.c), whose notifications come    *)
(* from another thread through the loop's task queue.                      *)
(*                                                                         *)
(* A command is [service, opcode, arg]; arg is the service a Registry      *)
(* command names, or NoArg when the payload cannot be read.                *)
(***************************************************************************)
EXTENDS IoState, DtvCommands

CONSTANTS
  Service,         \* the service ids an instance looks at, of 0..255
  NtfOpcode,       \* the notifications the vendor library gives rise to
  DtvStatus,       \* what the vendor library's operations return
  HalFails,        \* whether the TV HAL's calls may fail
  UninitFails      \* whether dtv_uninit may fail

(* dtv.c, the library in this repository, never notifies, its dtv_uninit   *)
(* never fails, and most of its operations return only                     *)
(* TV_STATUS_NOT_SUPPORTED, 4.  A vendor's library may do more.            *)
ASSUME VendorAssumption ==
  /\ NtfOpcode \subseteq {129, 130, 131, 132}
  /\ DtvStatus \subseteq 0..7
  /\ HalFails \in BOOLEAN /\ UninitFails \in BOOLEAN

NoArg == -1
SERVICE_REGISTRY == 0
SERVICE_DTV      == 1
OPCODE_ERROR             == 0
OPCODE_REGISTER_MODULE   == 1
OPCODE_UNREGISTER_MODULE == 2
ERROR_PARM_INVALID == 7

Command == [service : Service, opcode : 0..255, arg : Service \union {NoArg}]

(* value is the code of an error message and 0 in the others. *)
Response(c)      == [service |-> c.service, opcode |-> c.opcode, value |-> 0]
Error(c, status) == [service |-> c.service, opcode |-> OPCODE_ERROR, value |-> status]
Ntf == [service : {SERVICE_DTV}, opcode : NtfOpcode, value : {0}]

ASSUME ServiceAssumption == {SERVICE_REGISTRY, SERVICE_DTV} \subseteq Service
ASSUME CommandAssumption ==
  /\ Cmd \subseteq Command
  /\ Pdu = (UNION {{Response(c)} \union {Error(c, e) : e \in 1..7} : c \in Cmd})
             \union Ntf

VARIABLES
  wakelock,        \* the daemon's Android wake lock is held
  handler,         \* g_service_handler
  g_send_pdu,      \* whether registry.c's g_send_pdu is set
  dtv_send_pdu,    \* whether dtv_io.c's send_pdu is set
  tasks            \* the notifications queued with run_task

svcVars == <<handler, g_send_pdu, dtv_send_pdu>>
tvdVars == <<wakelock, svcVars, tasks>>
vars    == <<ioVars, tvdVars>>

TvdTypeOK ==
  /\ TypeOK
  /\ wakelock \in BOOLEAN
  /\ handler \in [Service -> {"null", "registry_handler", "dtv_handler"}]
  /\ g_send_pdu \in BOOLEAN
  /\ dtv_send_pdu \in BOOLEAN
  /\ tasks \in Seq(Ntf)

TvdInit ==
  /\ IoInit
  /\ wakelock = TRUE                       \* main's first call
  /\ handler = [s \in Service |-> "null"]
  /\ g_send_pdu = FALSE
  /\ dtv_send_pdu = FALSE
  /\ tasks = <<>>
-----------------------------------------------------------------------------
(* main.c: start-up and shut-down.                                         *)

(* parse_opts asks for the program to exit. *)
OptionsExit ==
  /\ NotStarted
  /\ wakelock' = FALSE
  /\ UNCHANGED <<svcVars, tasks>>

InitTaskQueueFails ==
  /\ "memory" \in Faults
  /\ NotStarted
  /\ UNCHANGED tvdVars

StartDaemon ==                             \* init
  /\ InitIo
  /\ wakelock' = FALSE
  /\ UNCHANGED <<svcVars, tasks>>

StartFails == InitIoFails /\ UNCHANGED tvdVars

(* uninit_io, which unregisters the Registry and no other service, then    *)
(* uninit_task_queue.                                                      *)
Uninit ==
  /\ UninitIo
  /\ handler' = [handler EXCEPT ![SERVICE_REGISTRY] = "null"]
  /\ g_send_pdu' = FALSE
  /\ tasks' = <<>>
  /\ UNCHANGED <<wakelock, dtv_send_pdu>>

ConnectFails == FdConErr /\ UNCHANGED tvdVars

(* The Registry is in place when, and only when, the main loop starts. *)
Connected ==
  /\ FdConOut
  /\ IF loop' = "run"
     THEN /\ handler' = [handler EXCEPT ![SERVICE_REGISTRY] = "registry_handler"]
          /\ g_send_pdu' = TRUE
     ELSE UNCHANGED <<handler, g_send_pdu>>
  /\ UNCHANGED <<wakelock, dtv_send_pdu, tasks>>
-----------------------------------------------------------------------------
(* The commands.  Error statuses are sets: what may happen depends on      *)
(* memory and on the libraries below.                                      *)

NoMemory == IF "memory" \in Faults THEN {ERROR_NOMEM} ELSE {}
HalError == IF HalFails THEN {ERROR_FAIL} ELSE {}

(* register_module's last exit, for an answer that cannot be appended, is  *)
(* never taken: the version has the size the buffer was created for.       *)
RegisterErrors(c) ==
  IF c.arg = NoArg THEN {ERROR_PARM_INVALID}
  ELSE IF handler[c.arg] # "null" \/ c.arg # SERVICE_DTV THEN {ERROR_FAIL}
  ELSE NoMemory \union HalError

(* The test is for a service that can be unregistered, not for one that is *)
(* registered.                                                             *)
UnregisterErrors(c) ==
  IF c.arg = NoArg THEN {ERROR_PARM_INVALID}
  ELSE NoMemory \union (IF c.arg # SERVICE_DTV THEN {ERROR_FAIL} ELSE {})

RegistryErrors(c) ==
  CASE c.opcode = OPCODE_REGISTER_MODULE   -> RegisterErrors(c)
    [] c.opcode = OPCODE_UNREGISTER_MODULE -> UnregisterErrors(c)
    [] OTHER -> {ERROR_UNSUPPORTED}

(* Variant: no test for a service that is registered already.              *)
RegistersTwice(c) ==
  /\ c.arg = SERVICE_DTV
  /\ c.opcode \in {OPCODE_REGISTER_MODULE, OPCODE_UNREGISTER_MODULE}

RegistryCanSucceed(c) ==
  /\ c.arg = SERVICE_DTV
  /\ \/ c.opcode = OPCODE_REGISTER_MODULE /\ handler[SERVICE_DTV] = "null"
     \/ c.opcode = OPCODE_UNREGISTER_MODULE

(* The handlers of dtv_io.c: module DtvHandlers has them step by step.  The *)
(* tuner list of dtv.c cannot fail; a vendor's may.                        *)
DtvErrors(c) ==
  FailureStatuses(c.opcode, c.arg # NoArg, NoMemory, HalError, DtvStatus)

DtvCanSucceed(c) == MaySucceed(c.opcode, c.arg # NoArg, DtvStatus)

DtvCanCrash(c) == MayCrash(c.opcode, c.arg # NoArg, DtvStatus)

(* handle_pdu_by_service, then handle_pdu_by_opcode in the service. *)
CommandErrors(c) ==
  CASE handler[c.service] = "registry_handler" -> RegistryErrors(c)
    [] handler[c.service] = "dtv_handler"      -> DtvErrors(c)
    [] OTHER -> {ERROR_UNSUPPORTED}

CanSucceed(c) ==
  \/ handler[c.service] = "registry_handler" /\ RegistryCanSucceed(c)
  \/ handler[c.service] = "dtv_handler" /\ DtvCanSucceed(c)

CanCrash(c) == handler[c.service] = "dtv_handler" /\ DtvCanCrash(c)

(* What a successful Registry command leaves behind: register_module with  *)
(* register_dtv, unregister_module with unregister_dtv.  When dtv_uninit   *)
(* fails, unregister_dtv returns ERROR_FAIL, 1, which unregister_module    *)
(* does not take for a failure.                                            *)
RegisterFunction(c) ==                     \* variant: not the function's result
  IF c.opcode = OPCODE_REGISTER_MODULE THEN "register_dtv" ELSE "null"
NewHandler(c) ==
  IF c.opcode = OPCODE_REGISTER_MODULE THEN "dtv_handler" ELSE "null"

UnsetSendPdu(c) == FALSE                   \* variant: register_dtv forgets it
NewSendPdu(c)  == c.opcode = OPCODE_REGISTER_MODULE

CommandEffect(c) ==
  IF handler[c.service] = "registry_handler"
  THEN /\ handler' = [handler EXCEPT ![SERVICE_DTV] = NewHandler(c)]
       /\ \/ dtv_send_pdu' = NewSendPdu(c)
          \/ /\ UninitFails
             /\ c.opcode = OPCODE_UNREGISTER_MODULE
             /\ UNCHANGED dtv_send_pdu
  ELSE UNCHANGED <<handler, dtv_send_pdu>>

(* io_state_in holds the wake lock, and both its exits release it.  abort() *)
(* leaves it held, and it outlives the process.                            *)
WakeLockIn == wakelock' = (loop' = "killed")

CommandSucceeds(c) ==
  /\ CanSucceed(c)
  /\ FdIoInReply(c, Response(c))
  /\ CommandEffect(c)
  /\ WakeLockIn
  /\ UNCHANGED <<g_send_pdu, tasks>>

CommandFails(c) ==
  /\ \E status \in CommandErrors(c) : FdIoInError(c, Error(c, status))
  /\ WakeLockIn
  /\ UNCHANGED <<svcVars, tasks>>

CommandCrashes(c) ==
  /\ CanCrash(c)
  /\ FdIoInCrash(c, Response(c))
  /\ WakeLockIn
  /\ UNCHANGED <<svcVars, tasks>>

(* The other outcomes of io_state_in. *)
OtherInput ==
  /\ \/ FdIoInShort \/ FdIoInOversize
     \/ FdIoInEof \/ FdIoInEmpty \/ FdIoInFails
  /\ WakeLockIn
  /\ UNCHANGED <<svcVars, tasks>>

Input == OtherInput \/ \E c \in Cmd : \/ CommandSucceeds(c)
                                      \/ CommandFails(c)
                                      \/ CommandCrashes(c)

Output    == FdIoOut /\ UNCHANGED tvdVars
SocketErr == FdIoErr /\ UNCHANGED tvdVars
SocketHup == FdIoHup /\ UNCHANGED tvdVars
-----------------------------------------------------------------------------
(* Notifications.                                                          *)

(* A callback of dtv_io.c, on a thread of the vendor library, which runs   *)
(* from dtv_init to dtv_uninit, as long as register_dtv and unregister_dtv *)
(* have send_pdu set: run_task(send_ntf_pdu, wbuf).                        *)
VendorNotify(n) ==
  /\ loop = "run" /\ funcs = "io"
  /\ dtv_send_pdu
  /\ Outstanding + Len(tasks) < MaxOutstanding
  /\ tasks' = Append(tasks, n)
  /\ UNCHANGED <<ioVars, wakelock, svcVars>>

(* append_channel reads one argument more than it is given. *)
VendorCrashes(n) ==
  /\ dtv_send_pdu
  /\ n.opcode \in {OPCODE_CHANNEL_SCANNED, OPCODE_EIT_BROADCASTED}
  /\ OtherThreadCrashes
  /\ UNCHANGED tvdVars

(* Variant: does not look whether the service is still registered. *)
SendNtfUnchecked ==
  /\ loop = "run" /\ tasks # <<>>
  /\ tasks' = Tail(tasks)
  /\ RunTask(Head(tasks))
  /\ UNCHANGED <<wakelock, svcVars>>

(* send_ntf_pdu on the I/O thread. *)
SendNtf ==
  /\ loop = "run" /\ tasks # <<>>
  /\ tasks' = Tail(tasks)
  /\ IF dtv_send_pdu THEN RunTask(Head(tasks)) ELSE UNCHANGED ioVars
  /\ UNCHANGED <<wakelock, svcVars>>

TvdClient ==
  /\ \/ \E p \in Packet : ClientSend(p) /\ Outstanding + Len(tasks) < MaxOutstanding
     \/ ClientRecv \/ ClientShutWr \/ ClientClose \/ ConnectError
  /\ UNCHANGED tvdVars

TvdNext ==
  \/ OptionsExit \/ InitTaskQueueFails \/ StartDaemon \/ StartFails
  \/ ConnectFails \/ Connected
  \/ SocketErr \/ SocketHup \/ Input \/ Output
  \/ \E n \in Ntf : VendorNotify(n) \/ VendorCrashes(n)
  \/ SendNtf
  \/ Uninit
  \/ TvdClient

TvdSpec == TvdInit /\ [][TvdNext]_vars

TvdFairness ==
  /\ WF_vars(StartDaemon \/ StartFails \/ OptionsExit \/ InitTaskQueueFails)
  /\ WF_vars(ConnectFails \/ Connected)
  /\ WF_vars(SocketErr)
  /\ WF_vars(SocketHup)
  /\ WF_vars(Input)
  /\ WF_vars(Output)
  /\ WF_vars(SendNtf)
  /\ WF_vars(Uninit)

TvdFairSpec == TvdSpec /\ TvdFairness
-----------------------------------------------------------------------------
(* Properties.                                                             *)

(* The tables and send pointers of the services agree whenever a command   *)
(* or a notification can need them: a handler that is called never finds a *)
(* NULL send callback (registry.c:55, dtv_io.c:324), and where dtv_uninit  *)
(* works the DTV service can send only while its handler is installed.     *)
DispatchReady ==
  /\ Serving => g_send_pdu /\ handler[SERVICE_REGISTRY] = "registry_handler"
  /\ handler[SERVICE_DTV] = "dtv_handler" => dtv_send_pdu
  /\ dtv_send_pdu /\ ~UninitFails => handler[SERVICE_DTV] = "dtv_handler"

(* What the client has still to read. *)
incoming == IF peer = "closed" THEN <<>>
            ELSE IF sock = "closed" \/ loop = "killed" THEN wire
            ELSE wire \o sendq

clientLink == IF sock = "none" THEN "new"
              ELSE IF sock = "open" /\ peer # "closed" /\ loop # "killed"
              THEN "up" ELSE "down"

openRequests == IF clientLink = "up" THEN inq ELSE <<>>

P == INSTANCE TvdProtocol WITH
       Junk <- {Short, Oversize} \union Empty,
       requests <- openRequests, chan <- incoming, link <- clientLink,
       registered <- handler[SERVICE_DTV] = "dtv_handler"

(* Every command is answered once and in order, registrations change only  *)
(* with a successful answer, and an unregistered DTV service is silent     *)
(* (doc/ipc.txt:7-10; io.c:328-346, registry.c:81-174).                    *)
ProtocolSpec == P!Spec

DtvAnswer(w, opcode) ==
  w.service = SERVICE_REGISTRY /\ w.opcode = opcode /\ w.value = 0

(* On its way to the client no notification follows the answer to an       *)
(* unregister command unless a register answer lies between: notifications *)
(* still in the task queue when the service goes are not sent after it     *)
(* (dtv_io.h:33-35, dtv_io.c:54-57).                                       *)
Silent(out) ==
  \A i, j \in DOMAIN out :
    (i < j /\ DtvAnswer(out[i], OPCODE_UNREGISTER_MODULE) /\ out[j] \in Ntf)
      => \E k \in i..j : DtvAnswer(out[k], OPCODE_REGISTER_MODULE)

SilentAfterUnregister == Silent(wire \o sendq)

(* The daemon never stops taking packets from a connection it serves, be   *)
(* they valid, incomplete or for no service (io.c:153-219).                *)
RequestsMove == \/ []<>(inq = <<>> \/ ~Serving)
                \/ []<><<Len(inq') < Len(inq)>>_vars

(* main.c:180: "When we leave the main I/O loop during program             *)
(* termination, the callback to |uninit| will clean up the resources."     *)
(* The DTV service stays registered, its streams open.                     *)
UninitCleansUp == loop = "done" => handler[SERVICE_DTV] = "null"
-----------------------------------------------------------------------------
(* The inductive invariant behind them (TvdProofs).                        *)

HandlersPlaced ==                          \* each handler in its own slot
  \A s \in Service :
    handler[s] \in CASE s = SERVICE_REGISTRY -> {"null", "registry_handler"}
                     [] s = SERVICE_DTV      -> {"null", "dtv_handler"}
                     [] OTHER                -> {"null"}

(* out ends in an unregister answer, as far as registrations go. *)
EndsUnregistered(out) ==
  \E i \in DOMAIN out :
    /\ DtvAnswer(out[i], OPCODE_UNREGISTER_MODULE)
    /\ \A k \in i..Len(out) : ~DtvAnswer(out[k], OPCODE_REGISTER_MODULE)

UnregisteredIsLast ==
  ~LinkBroken /\ EndsUnregistered(wire \o sendq) => handler[SERVICE_DTV] = "null"

TvdInv == /\ IoInv /\ TvdTypeOK
          /\ HandlersPlaced /\ DispatchReady

SilenceInv == SilentAfterUnregister /\ UnregisteredIsLast
=============================================================================
